--------------------------- MODULE CredentialProofs ---------------------------
(***************************************************************************)
(* What Credential promises of the record and the secret, for any number   *)
(* of windows and credentials.                                             *)
(*                                                                         *)
(* The property is about windows at rest, so what is inductive says what a *)
(* window in the middle of a save or a delete owes: InHand, of the form it *)
(* is saving, and Accounted, of every secret in the keychain.              *)
(***************************************************************************)
EXTENDS Credential, TLAPS

Kinds ==
    /\ cred = [c \in Cred |-> cred[c]] /\ keychain = [c \in Cred |-> keychain[c]]
    /\ form \in [Window -> Form \cup {Nil}]
    /\ confirm \in [Window -> Cred \cup {Nil}] /\ pc \in [Window -> Step]
    /\ told \in [Window -> {"", "saved", "refused"}]
    /\ \A w \in Window : pc[w].at \in {"put", "set", "erase"} => form[w] \in Form

\* A save under way is of the form on screen: nothing typed is a password
\* that is there, and one to be written is of a password credential.
InHand(w) ==
    /\ pc[w].at \in {"set", "erase", "forget"} => pc[w].id \in Cred
    /\ pc[w].at = "put" =>
          /\ pc[w].id = form[w].id /\ form[w].kind \in Kind
          /\ form[w].kind = "password" /\ form[w].pw = Nil =>
                form[w].id # Nil /\ (keychain[form[w].id] # Nil \/ form[w].id \in torn)
    /\ pc[w].at = "set" => /\ form[w].kind = "password" /\ form[w].pw # Nil
                           /\ cred[pc[w].id] = "password" \/ pc[w].id \in torn
    /\ pc[w].at = "erase" => form[w].kind # "password"

\* A secret is some password credential's, or is about to be removed.
Accounted(c) ==
    keychain[c] # Nil => \/ cred[c] = "password" \/ c \in torn
                         \/ \E w \in Window : pc[w].at \in {"erase", "forget"} /\ pc[w].id = c

Owed == (\A w \in Window : InHand(w)) /\ (\A c \in Cred : Accounted(c))

-----------------------------------------------------------------------------
(* What is where.                                                          *)

\* Forms, questions and steps are one to a window, of their kinds (model.go, credential.go).
THEOREM KindsKept == Spec => []Kinds
<1>1. Init => Kinds
  <2> SUFFICES ASSUME Init PROVE Kinds
    OBVIOUS
  <2>1. Idle \in Step /\ Idle.at = "idle"
    BY DEF Idle, Step
  <2>2. cred = [c \in Cred |-> cred[c]] /\ keychain = [c \in Cred |-> keychain[c]]
    BY DEF Init
  <2>3. /\ pc \in [Window -> Step] /\ confirm \in [Window -> Cred \cup {Nil}] /\ form \in [Window -> Form \cup {Nil}]
        /\ told \in [Window -> {"", "saved", "refused"}]
    BY <2>1 DEF Init
  <2> QED BY <2>1, <2>2, <2>3 DEF Init, Kinds
<1>2. Kinds /\ [Next]_vars => Kinds'
  <2> SUFFICES ASSUME Kinds, [Next]_vars PROVE Kinds'
    OBVIOUS
  <2> USE DEF Kinds, Step, disk, screen, ghost
  <2>1. CASE Import
    BY <2>1 DEF Import, Kind
  <2>2. ASSUME NEW w \in Window, OpenForm(w) PROVE Kinds'
    BY <2>2 DEF OpenForm
  <2>3. ASSUME NEW w \in Window, Submit(w) PROVE Kinds'
    <3>1. CASE UNCHANGED pc
      BY <2>3, <3>1 DEF Submit
    <3>2. CASE Goes(w, "put", form[w].id)
      BY <2>3, <3>2 DEF Submit, Goes, Form
    <3> QED BY <2>3, <3>1, <3>2 DEF Submit
  <2>4. ASSUME NEW w \in Window, PutCredential(w) PROVE Kinds'
    <3> PICK c \in IF form[w].id = Nil THEN Cred \ used ELSE {form[w].id} :
             IF form[w].id # Nil /\ cred[c] = Nil
             THEN Goes(w, "idle", Nil) /\ UNCHANGED <<disk, screen, ghost>>
             ELSE /\ cred' = [cred EXCEPT ![c] = form[w].kind] /\ UNCHANGED keychain
                  /\ IF Then(w) = "idle"
                     THEN /\ form' = [form EXCEPT ![w] = Nil] /\ told' = [told EXCEPT ![w] = "saved"]
                          /\ Goes(w, "idle", Nil) /\ UNCHANGED confirm
                     ELSE Goes(w, Then(w), c) /\ UNCHANGED screen
      BY <2>4 DEF PutCredential
    <3>1. pc[w].at = "put" /\ form[w] \in Form /\ c \in Cred
      BY <2>4 DEF PutCredential, Form
    <3>2. form[w].id \in Cred \cup {Nil}
      BY <3>1 DEF Form
    <3>3. CASE Goes(w, "idle", Nil) /\ UNCHANGED <<disk, screen, ghost>>
      BY <3>3 DEF Goes
    <3>4. CASE /\ cred' = [cred EXCEPT ![c] = form[w].kind] /\ UNCHANGED keychain
               /\ form' = [form EXCEPT ![w] = Nil] /\ told' = [told EXCEPT ![w] = "saved"]
               /\ Goes(w, "idle", Nil) /\ UNCHANGED confirm
      BY <3>4 DEF Goes
    <3>5. CASE /\ cred' = [cred EXCEPT ![c] = form[w].kind] /\ UNCHANGED keychain
               /\ Goes(w, Then(w), c) /\ UNCHANGED screen /\ Then(w) # "idle"
      <4>1. Then(w) \in {"erase", "set"}
        BY <3>5 DEF Then
      <4> QED BY <3>1, <3>5, <4>1 DEF Goes
    <3> QED BY <3>3, <3>4, <3>5
  <2>5. ASSUME NEW w \in Window, Set(w) PROVE Kinds'
    <3> PICK ok \in BOOLEAN :
             /\ keychain' = IF ok THEN [keychain EXCEPT ![pc[w].id] = form[w].pw] ELSE keychain
             /\ Back(w, Outcome(ok))
      BY <2>5 DEF Set
    <3>1. keychain' = [c \in Cred |-> keychain'[c]] /\ cred' = cred
      BY <2>5 DEF Set
    <3>2. Outcome(ok) \in {"saved", "refused"}
      BY DEF Outcome
    <3> QED BY <3>1, <3>2 DEF Back, Goes
  <2>6. ASSUME NEW w \in Window, Erase(w) PROVE Kinds'
    BY <2>6 DEF Erase, Back, Goes
  <2>7. ASSUME NEW w \in Window, AskDelete(w) PROVE Kinds'
    BY <2>7 DEF AskDelete
  <2>8. ASSUME NEW w \in Window, Cancel(w) PROVE Kinds'
    BY <2>8 DEF Cancel
  <2>9. ASSUME NEW w \in Window, Delete(w) PROVE Kinds'
    BY <2>9 DEF Delete, AfterTheRecord, Goes
  <2>10. ASSUME NEW w \in Window, Kill(w) PROVE Kinds'
    BY <2>10 DEF Kill, Back, Goes
  <2>11. CASE UNCHANGED vars
    BY <2>11 DEF vars
  <2> QED BY <2>1, <2>2, <2>3, <2>4, <2>5, <2>6, <2>7, <2>8, <2>9, <2>10, <2>11 DEF Next
<1> QED BY <1>1, <1>2, PTL DEF Spec
-----------------------------------------------------------------------------
(* What a window owes.                                                     *)

\* A window that changes an id another one is in the middle of tears it.
LEMMA Crossing ==
    ASSUME NEW w, NEW c, NEW ids, Tears(Crossed(w, c) \cup ids),
           NEW v \in Window, v # w, pc[v].at # "idle", pc[v].id = c
    PROVE  c \in torn'
  BY DEF Crossed, Tears

\* Which step it is.
LEMMA ThenIs ==
    ASSUME NEW w \in Window
    PROVE  /\ Then(w) \in {"set", "erase", "idle"}
           /\ Then(w) = "erase" <=> form[w].kind # "password"
           /\ Then(w) = "set" <=> form[w].kind = "password" /\ form[w].pw # Nil
  BY DEF Then

\* Saving the record, as far as Owed goes.
LEMMA PutKeepsOwed ==
    ASSUME Kinds, Owed, NEW w \in Window, PutCredential(w)
    PROVE  Owed'
<1> PICK c \in IF form[w].id = Nil THEN Cred \ used ELSE {form[w].id} :
         IF form[w].id # Nil /\ cred[c] = Nil
         THEN Goes(w, "idle", Nil) /\ UNCHANGED <<disk, screen, ghost>>
         ELSE /\ cred' = [cred EXCEPT ![c] = form[w].kind] /\ UNCHANGED keychain
              /\ Tears(Crossed(w, c))
              /\ IF Then(w) = "idle"
                 THEN form' = [form EXCEPT ![w] = Nil] /\ Goes(w, "idle", Nil)
                 ELSE Goes(w, Then(w), c) /\ UNCHANGED screen
  BY DEF PutCredential
<1>1. pc[w].at = "put" /\ c \in Cred
  BY DEF PutCredential, Kinds, Form
<1>2. CASE Goes(w, "idle", Nil) /\ UNCHANGED <<disk, screen, ghost>>
  <2>1. \A v \in Window \ {w} : pc'[v] = pc[v]
    BY <1>2 DEF Kinds, Goes
  <2>2. pc'[w].at = "idle"
    BY <1>2 DEF Kinds, Goes
  <2> QED BY <1>1, <1>2, <2>1, <2>2 DEF Owed, InHand, Accounted, disk, screen, ghost
<1>3. CASE /\ cred' = [cred EXCEPT ![c] = form[w].kind] /\ UNCHANGED keychain
           /\ Tears(Crossed(w, c)) /\ Goes(w, Then(w), IF Then(w) = "idle" THEN Nil ELSE c)
           /\ \A v \in Window : v # w \/ Then(w) # "idle" => form'[v] = form[v]
  <2>1. \A v \in Window \ {w} : pc'[v] = pc[v] /\ form'[v] = form[v]
    BY <1>3 DEF Kinds, Goes
  <2>2. pc'[w].at = Then(w) /\ (Then(w) # "idle" => pc'[w].id = c /\ form'[w] = form[w])
    BY <1>3 DEF Kinds, Goes
  <2>3. cred'[c] = form[w].kind /\ \A d \in Cred \ {c} : cred'[d] = cred[d]
    BY <1>1, <1>3 DEF Kinds
  <2>4. torn \subseteq torn' /\ keychain' = keychain
    BY <1>3 DEF Tears
  <2>5. \A v \in Window \ {w} : pc[v].at # "idle" /\ pc[v].id = c => c \in torn'
    BY <1>3, Crossing, Tears(Crossed(w, c) \cup {})
  <2>6. ASSUME NEW v \in Window PROVE InHand(v)'
    <3>1. CASE v = w
      BY <1>1, <2>2, <2>3, <3>1, ThenIs DEF InHand
    <3>2. CASE v # w
      BY <2>1, <2>3, <2>4, <2>5, <3>2 DEF Owed, InHand
    <3> QED BY <3>1, <3>2
  <2>7. ASSUME NEW d \in Cred PROVE Accounted(d)'
    <3>1. CASE d = c
      BY <2>2, <2>3, <3>1, ThenIs DEF Accounted
    <3>2. CASE d # c
      BY <1>1, <2>1, <2>3, <2>4, <3>2 DEF Owed, Accounted
    <3> QED BY <3>1, <3>2
  <2> QED BY <2>6, <2>7 DEF Owed
<1>4. CASE /\ cred' = [cred EXCEPT ![c] = form[w].kind] /\ UNCHANGED keychain
           /\ Tears(Crossed(w, c))
           /\ IF Then(w) = "idle"
              THEN form' = [form EXCEPT ![w] = Nil] /\ Goes(w, "idle", Nil)
              ELSE Goes(w, Then(w), c) /\ UNCHANGED screen
  <2>1. Goes(w, Then(w), IF Then(w) = "idle" THEN Nil ELSE c)
    BY <1>4
  <2>2. \A v \in Window : v # w \/ Then(w) # "idle" => form'[v] = form[v]
    BY <1>4 DEF Kinds, screen
  <2> QED BY <1>3, <1>4, <2>1, <2>2
<1> QED BY <1>2, <1>4
\* Writing the secret.
LEMMA SetKeepsOwed ==
    ASSUME Kinds, Owed, NEW w \in Window, Set(w)
    PROVE  /\ Owed'
           /\ told'[w] = "saved" => pc[w].id \in Cred /\ keychain'[pc[w].id] # Nil
<1> PICK ok \in BOOLEAN :
         /\ keychain' = IF ok THEN [keychain EXCEPT ![pc[w].id] = form[w].pw] ELSE keychain
         /\ UNCHANGED cred /\ Tears(Crossed(w, pc[w].id)) /\ Back(w, Outcome(ok))
  BY DEF Set
<1>1. pc[w].at = "set" /\ pc[w].id \in Cred /\ form[w].pw # Nil
      /\ (cred[pc[w].id] = "password" \/ pc[w].id \in torn)
  BY DEF Set, Owed, InHand
<1>2. \A v \in Window \ {w} : pc'[v] = pc[v] /\ form'[v] = form[v]
  BY DEF Kinds, Back, Goes
<1>3. pc'[w].at = "idle" /\ told'[w] = Outcome(ok)
  BY DEF Kinds, Back, Goes
<1>4. /\ ok => keychain'[pc[w].id] # Nil
      /\ ~ ok => keychain' = keychain
      /\ \A d \in Cred \ {pc[w].id} : keychain'[d] = keychain[d]
  BY <1>1 DEF Kinds
<1>5. torn \subseteq torn' /\ cred' = cred
  BY DEF Tears
<1>6. \A d \in Cred : keychain[d] # Nil => keychain'[d] # Nil
  BY <1>4
<1>7. ASSUME NEW v \in Window PROVE InHand(v)'
  <2>1. CASE v = w
    BY <1>3, <2>1 DEF InHand
  <2>2. CASE v # w
    <3>1. form[v].id \in Cred \/ form[v].id = Nil \/ pc[v].at # "put"
      BY DEF Kinds, Form
    <3> QED BY <1>2, <1>5, <1>6, <2>2, <3>1 DEF Owed, InHand
  <2> QED BY <2>1, <2>2
<1>8. ASSUME NEW d \in Cred PROVE Accounted(d)'
  <2>1. CASE d = pc[w].id
    BY <1>1, <1>5, <2>1 DEF Accounted
  <2>2. CASE d # pc[w].id
    BY <1>1, <1>2, <1>4, <1>5, <2>2 DEF Owed, Accounted
  <2> QED BY <2>1, <2>2
<1>9. told'[w] = "saved" => ok
  BY <1>3 DEF Outcome
<1> QED BY <1>1, <1>4, <1>7, <1>8, <1>9 DEF Owed

\* Removing it.
LEMMA EraseKeepsOwed ==
    ASSUME Kinds, Owed, NEW w \in Window, Erase(w)
    PROVE  Owed'
<1> PICK ok \in BOOLEAN :
         /\ keychain' = IF ok THEN [keychain EXCEPT ![pc[w].id] = Nil] ELSE keychain
         /\ Tears(Crossed(w, pc[w].id) \cup IF ok THEN {} ELSE {pc[w].id})
  BY DEF Erase
<1>1. pc[w].at \in {"erase", "forget"} /\ pc[w].id \in Cred /\ cred' = cred
  BY DEF Erase, Owed, InHand
<1>2. \A v \in Window \ {w} : pc'[v] = pc[v] /\ form'[v] = form[v]
  BY DEF Erase, Kinds, Back, Goes
<1>3. pc'[w].at = "idle"
  BY DEF Erase, Kinds, Back, Goes
<1>4. \A d \in Cred \ {pc[w].id} : keychain'[d] = keychain[d]
  BY <1>1 DEF Kinds
<1>5. torn \subseteq torn' /\ (keychain'[pc[w].id] = Nil \/ pc[w].id \in torn')
  BY <1>1 DEF Tears, Kinds
<1>6. \A v \in Window \ {w} : pc[v].at # "idle" /\ pc[v].id = pc[w].id => pc[w].id \in torn'
  BY Crossing
<1>7. ASSUME NEW v \in Window PROVE InHand(v)'
  <2>1. CASE v = w
    BY <1>3, <2>1 DEF InHand
  <2>2. CASE v # w
    <3>1. form[v].id \in Cred \/ form[v].id = Nil \/ pc[v].at # "put"
      BY DEF Kinds, Form
    <3> QED BY <1>1, <1>2, <1>4, <1>5, <1>6, <2>2, <3>1 DEF Owed, InHand
  <2> QED BY <2>1, <2>2
<1>8. ASSUME NEW d \in Cred PROVE Accounted(d)'
  <2>1. CASE d = pc[w].id
    BY <1>5, <2>1 DEF Accounted
  <2>2. CASE d # pc[w].id
    BY <1>1, <1>2, <1>4, <1>5, <2>2 DEF Owed, Accounted
  <2> QED BY <2>1, <2>2
<1> QED BY <1>7, <1>8 DEF Owed

\* Deleting the record.
LEMMA DeleteKeepsOwed ==
    ASSUME Kinds, Owed, NEW w \in Window, Delete(w)
    PROVE  Owed'
<1> DEFINE c == confirm[w]
<1>1. pc[w].at = "idle" /\ c \in Cred /\ keychain' = keychain /\ form' = form
  BY DEF Delete, Kinds, screen
<1>2. \A v \in Window \ {w} : pc'[v] = pc[v]
  BY DEF Delete, Kinds, Goes
<1>3. pc'[w].at = "forget" /\ pc'[w].id = c
  BY DEF Delete, Kinds, Goes, AfterTheRecord
<1>4. \A d \in Cred \ {c} : cred'[d] = cred[d]
  BY <1>1 DEF Delete, Kinds
<1>5. torn \subseteq torn'
  BY DEF Delete, Tears
<1>6. \A v \in Window \ {w} : pc[v].at # "idle" /\ pc[v].id = c => c \in torn'
  BY DEF Delete, Crossed, Tears
<1>7. ASSUME NEW v \in Window PROVE InHand(v)'
  <2>1. CASE v = w
    BY <1>1, <1>3, <2>1 DEF InHand
  <2>2. CASE v # w
    BY <1>1, <1>2, <1>4, <1>5, <1>6, <2>2 DEF Owed, InHand
  <2> QED BY <2>1, <2>2
<1>8. ASSUME NEW d \in Cred PROVE Accounted(d)'
  <2>1. CASE d = c
    BY <1>3, <2>1 DEF Accounted
  <2>2. CASE d # c
    BY <1>1, <1>2, <1>4, <1>5, <2>2 DEF Owed, Accounted
  <2> QED BY <2>1, <2>2
<1> QED BY <1>7, <1>8 DEF Owed

\* An import, which knows no keychain.
LEMMA ImportKeepsOwed ==
    ASSUME Kinds, Owed, Import
    PROVE  Owed'
<1> PICK c \in Cred, k \in Kind :
         /\ cred' = [cred EXCEPT ![c] = k]
         /\ Tears(Crossed(Nil, c) \cup IF k # "password" /\ keychain[c] # Nil THEN {c} ELSE {})
  BY DEF Import
<1>1. UNCHANGED <<keychain, form, pc>>
  BY DEF Import, screen
<1>2. cred'[c] = k /\ \A d \in Cred \ {c} : cred'[d] = cred[d]
  BY DEF Kinds
<1>3. torn \subseteq torn' /\ (k # "password" /\ keychain[c] # Nil => c \in torn')
  BY DEF Tears
<1>4. \A v \in Window : pc[v].at # "idle" /\ pc[v].id = c => c \in torn'
  BY CredentialAssumption DEF Crossed, Tears
<1>5. ASSUME NEW v \in Window PROVE InHand(v)'
  BY <1>1, <1>2, <1>3, <1>4 DEF Owed, InHand
<1>6. ASSUME NEW d \in Cred PROVE Accounted(d)'
  BY <1>1, <1>2, <1>3 DEF Owed, Accounted
<1> QED BY <1>5, <1>6 DEF Owed

\* A window killed: what it was to remove stays, and is torn.
LEMMA KillKeepsOwed ==
    ASSUME Kinds, Owed, NEW w \in Window, Kill(w)
    PROVE  Owed'
<1>1. \A v \in Window \ {w} : pc'[v] = pc[v] /\ form'[v] = form[v]
  BY DEF Kill, Kinds, Back, Goes
<1>2. pc'[w].at = "idle"
  BY DEF Kill, Kinds, Back, Goes
<1>3. /\ UNCHANGED <<cred, keychain>> /\ torn \subseteq torn'
      /\ pc[w].at \in {"erase", "forget"} => pc[w].id \in torn'
  BY DEF Kill, Tears, disk
<1>4. ASSUME NEW v \in Window PROVE InHand(v)'
  BY <1>1, <1>2, <1>3 DEF Owed, InHand
<1>5. ASSUME NEW d \in Cred PROVE Accounted(d)'
  BY <1>1, <1>3 DEF Owed, Accounted
<1> QED BY <1>4, <1>5 DEF Owed
-----------------------------------------------------------------------------
(* The record and the secret.                                              *)

\* What a window in the middle of a save or a delete owes stays so (saveCredentialForm).
THEOREM OwedAlways == Spec => []Owed
<1>1. Init => Owed
  <2> SUFFICES ASSUME Init PROVE Owed
    OBVIOUS
  <2>1. \A w \in Window : pc[w].at = "idle"
    BY DEF Init, Idle
  <2>2. \A c \in Cred : keychain[c] = Nil
    BY DEF Init
  <2> QED BY <2>1, <2>2 DEF Owed, InHand, Accounted
<1>2. Kinds /\ Owed /\ [Next]_vars => Owed'
  <2> SUFFICES ASSUME Kinds, Owed, [Next]_vars PROVE Owed'
    OBVIOUS
  <2>1. ASSUME NEW w \in Window, OpenForm(w) \/ Cancel(w) \/ AskDelete(w) PROVE Owed'
    <3>1. /\ UNCHANGED <<cred, keychain, pc, torn>> /\ pc[w].at = "idle"
          /\ \A v \in Window \ {w} : form'[v] = form[v]
      BY <2>1 DEF OpenForm, Cancel, AskDelete, Kinds, disk, ghost
    <3>2. ASSUME NEW v \in Window PROVE InHand(v)'
      BY <3>1 DEF Owed, InHand
    <3>3. ASSUME NEW c \in Cred PROVE Accounted(c)'
      BY <3>1 DEF Owed, Accounted
    <3> QED BY <3>2, <3>3 DEF Owed
  <2>2. ASSUME NEW w \in Window, Submit(w) PROVE Owed'
    <3>1. UNCHANGED <<cred, keychain, torn, form>> /\ pc[w].at = "idle" /\ form[w] \in Form
      BY <2>2 DEF Submit, Kinds, disk, ghost, screen
    <3>2. CASE UNCHANGED pc
      BY <3>1, <3>2 DEF Owed, InHand, Accounted
    <3>3. CASE Goes(w, "put", form[w].id) /\ \E has \in HasPassword(form[w].id) : Valid(w) /\ CanLogIn(w, has)
      <4>1. \A v \in Window \ {w} : pc'[v] = pc[v]
        BY <3>3 DEF Kinds, Goes
      <4>2. pc'[w].at = "put" /\ pc'[w].id = form[w].id
        BY <3>3 DEF Kinds, Goes
      <4>3. /\ form[w].kind \in Kind
            /\ form[w].kind = "password" /\ form[w].pw = Nil => form[w].id # Nil /\ keychain[form[w].id] # Nil
        BY <3>3 DEF HasPassword, Valid, CanLogIn
      <4>4. ASSUME NEW v \in Window PROVE InHand(v)'
        BY <3>1, <4>1, <4>2, <4>3 DEF Owed, InHand
      <4>5. ASSUME NEW c \in Cred PROVE Accounted(c)'
        BY <3>1, <4>1 DEF Owed, Accounted
      <4> QED BY <4>4, <4>5 DEF Owed
    <3> QED BY <2>2, <3>2, <3>3 DEF Submit
  <2>3. CASE UNCHANGED vars
    BY <2>3 DEF vars, disk, screen, ghost, Owed, InHand, Accounted
  <2> QED BY <2>1, <2>2, <2>3, PutKeepsOwed, SetKeepsOwed, EraseKeepsOwed, DeleteKeepsOwed,
             ImportKeepsOwed, KillKeepsOwed DEF Next
<1> QED BY <1>1, <1>2, KindsKept, PTL DEF Spec

\* However saves, deletions, imports and kills of any number of windows
\* interleave: a password credential said to be saved can log in, and with no
\* save or delete under way every secret is some password credential's, unless
\* it is torn (saveCredentialForm and askDelete; credential.go:247, :300).
THEOREM SecretsMatchRecordsAlways == Spec => SecretsMatchRecords
<1>1. Owed => NoSecretIsLeft
  BY DEF Owed, Accounted, NoSecretIsLeft
<1>2. Kinds /\ Owed /\ [Next]_vars => SavedCanLogIn
  <2> SUFFICES ASSUME Kinds, Owed, [Next]_vars, NEW u \in Window,
                      told'[u] = "saved", told[u] # "saved", form[u].kind = "password"
               PROVE  LET c == IF pc[u].at = "put" THEN form[u].id ELSE pc[u].id
                      IN  c \in torn' \/ (c # Nil /\ keychain'[c] # Nil)
    BY DEF SavedCanLogIn
  <2>1. CASE \E w \in Window : OpenForm(w) \/ Cancel(w) \/ AskDelete(w) \/ Submit(w) \/ Delete(w) \/ Kill(w)
    BY <2>1 DEF OpenForm, Cancel, AskDelete, Submit, Delete, Kill, Back, Kinds, screen
  <2>2. ASSUME NEW w \in Window, PutCredential(w)
        PROVE  LET c == IF pc[u].at = "put" THEN form[u].id ELSE pc[u].id
               IN  c \in torn' \/ (c # Nil /\ keychain'[c] # Nil)
    <3>1. u = w /\ pc[w].at = "put" /\ Then(w) = "idle" /\ keychain' = keychain /\ torn \subseteq torn'
      BY <2>2 DEF PutCredential, Tears, Kinds, screen
    <3>2. form[w].pw = Nil
      BY <3>1, ThenIs
    <3> QED BY <3>1, <3>2 DEF Owed, InHand
  <2>3. ASSUME NEW w \in Window, Set(w)
        PROVE  LET c == IF pc[u].at = "put" THEN form[u].id ELSE pc[u].id
               IN  c \in torn' \/ (c # Nil /\ keychain'[c] # Nil)
    <3>1. u = w /\ pc[w].at = "set"
      BY <2>3 DEF Set, Back, Kinds
    <3> QED BY <2>3, <3>1, SetKeepsOwed, CredentialAssumption
  <2>4. ASSUME NEW w \in Window, Erase(w) PROVE FALSE
    <3>1. u = w /\ pc[w].at = "erase"
      BY <2>4 DEF Erase, Back, Kinds
    <3> QED BY <3>1 DEF Owed, InHand
  <2>5. CASE Import \/ UNCHANGED vars
    BY <2>5 DEF Import, vars, screen
  <2> QED BY <2>1, <2>2, <2>3, <2>4, <2>5 DEF Next
<1> QED BY <1>1, <1>2, KindsKept, OwedAlways, PTL DEF Spec, SecretsMatchRecords

-----------------------------------------------------------------------------
(* Credential implements Vault, for any number of windows and credentials. *)
(*                                                                         *)
(* A credential a window is in the middle of is shown as it was before     *)
(* (Shown), and its id as given out when it is done (Given).  What is      *)
(* inductive says that what is remembered of it is still so (Linked), and  *)
(* that two windows in the middle of one id have torn it (Alone).          *)

Under == {"set", "erase", "forget"}

KeptOf(e) == IF e = Nil THEN Nil ELSE e.password

Ranges ==
    /\ cred \in [Cred -> Kind \cup {Nil}] /\ keychain \in [Cred -> Password \cup {Nil}]
    /\ \A c \in Cred : cred[c] # Nil => c \in used

\* What a window remembers of the credential it is in the middle of.
Linked(w) ==
    /\ pc[w].at \in {"set", "erase"} => pc[w].id \in used
    /\ pc[w].at \in {"set", "erase"} /\ pc[w].id \notin torn =>
          /\ keychain[pc[w].id] = KeptOf(was[pc[w].id])
          /\ cred[pc[w].id] = form[w].kind /\ form[w].kind \in Kind
          /\ form[w].id # Nil => was[pc[w].id] # Nil
    /\ pc[w].at = "forget" /\ pc[w].id \notin torn => cred[pc[w].id] = Nil

Alone ==
    \A v, w \in Window :
        v # w /\ pc[v].at \in Under /\ pc[w].at \in Under /\ pc[v].id = pc[w].id => pc[v].id \in torn

WasKept == was = [c \in Cred |-> was[c]]

Remembered == Ranges /\ WasKept /\ Alone /\ \A w \in Window : Linked(w)

-----------------------------------------------------------------------------
(* The mapping.                                                            *)

Shown == [c \in Cred |-> IF c \in Changing THEN was[c] ELSE Entry(c)]
NotYet == {pc[w].id : w \in {v \in Window : /\ pc[v].at \in {"set", "erase"} /\ form[v].id = Nil
                                            /\ pc[v].id \notin torn}}
Given == used \ NotYet

\* An entry with a kind or a password is none that is not there.
LEMMA EntryIs ==
    ASSUME Ranges, NEW c \in Cred
    PROVE  /\ cred[c] # Nil => Entry(c) # Nil /\ Entry(c) = [kind |-> cred[c], password |-> keychain[c]]
           /\ KeptOf(Entry(c)) = keychain[c]
<1>1. [kind |-> cred[c], password |-> keychain[c]] \in [kind : Kind \cup {Nil}, password : Password \cup {Nil}]
  BY DEF Ranges
<1>2. [kind |-> cred[c], password |-> keychain[c]] # Nil
  BY <1>1, CredentialAssumption
<1> QED BY <1>2 DEF Entry, KeptOf

\* What is shown of a credential nobody is in the middle of, and of one somebody is.
LEMMA ShownIs ==
    ASSUME NEW c \in Cred
    PROVE  /\ (\A v \in Window : pc[v].at \in Under => pc[v].id # c) => Shown[c] = Entry(c)
           /\ (\E v \in Window : pc[v].at \in Under /\ pc[v].id = c) => Shown[c] = was[c]
  BY DEF Shown, Changing, Under

LEMMA GivenIs ==
    ASSUME NEW c
    PROVE  c \in Given <=> /\ c \in used
                           /\ \/ c \in torn
                              \/ \A v \in Window : pc[v].at \in {"set", "erase"} /\ pc[v].id = c => form[v].id # Nil
  BY DEF Given, NotYet

\* Nobody in the middle of c, or one window, and it gives c out when it is done.
LEMMA GivenIs1 ==
    ASSUME NEW c, NEW w \in Window, pc[w].at \in Under, pc[w].id = c, c \notin torn, Alone
    PROVE  c \in Given <=> c \in used /\ (pc[w].at \in {"set", "erase"} => form[w].id # Nil)
<1>1. \A v \in Window : pc[v].at \in Under /\ pc[v].id = c => v = w
  BY DEF Alone
<1> QED BY <1>1, GivenIs DEF Under

-----------------------------------------------------------------------------
(* A step of one window about one credential.                              *)

Only(w, c) ==
    /\ \A d \in Cred : d # c => cred'[d] = cred[d] /\ keychain'[d] = keychain[d] /\ was'[d] = was[d]
    /\ \A d : d # c => (d \in used' <=> d \in used) /\ (d \in torn' <=> d \in torn)
    /\ used \subseteq used' /\ torn \subseteq torn'
    /\ \A v \in Window \ {w} : /\ pc'[v] = pc[v] /\ form'[v] = form[v]
                               /\ pc[v].at \in Under /\ pc[v].id = c => c \in torn'
    /\ w \in Window => /\ pc[w].at \in Under => pc[w].id = c
                       /\ pc'[w].at \in Under => pc'[w].id = c

\* The other credentials are as they were.
LEMMA Elsewhere ==
    ASSUME NEW w, NEW c, Only(w, c)
    PROVE  /\ \A d \in Cred : d # c => Shown'[d] = Shown[d]
           /\ \A d : d # c => (d \in Given' <=> d \in Given)
           /\ c \in torn' /\ c \in Given => c \in Given'
<1>1. ASSUME NEW d \in Cred, d # c PROVE Shown'[d] = Shown[d]
  <2>1. (\E v \in Window : pc[v].at \in Under /\ pc[v].id = d)
           <=> (\E v \in Window : pc'[v].at \in Under /\ pc'[v].id = d)
    BY <1>1 DEF Only
  <2>2. Entry(d)' = Entry(d)
    BY <1>1 DEF Only, Entry
  <2>3. Shown[d] = IF \E v \in Window : pc[v].at \in Under /\ pc[v].id = d THEN was[d] ELSE Entry(d)
    BY DEF Shown, Changing, Under
  <2>4. Shown'[d] = IF \E v \in Window : pc'[v].at \in Under /\ pc'[v].id = d THEN was'[d] ELSE Entry(d)'
    BY DEF Shown, Changing, Under
  <2> QED BY <1>1, <2>1, <2>2, <2>3, <2>4 DEF Only
<1>2. ASSUME NEW d, d # c PROVE d \in Given' <=> d \in Given
  <2>1. (\A v \in Window : pc[v].at \in {"set", "erase"} /\ pc[v].id = d => form[v].id # Nil)
           <=> (\A v \in Window : pc'[v].at \in {"set", "erase"} /\ pc'[v].id = d => form'[v].id # Nil)
    BY <1>2 DEF Only, Under
  <2>2. d \in Given' <=> /\ d \in used'
                         /\ \/ d \in torn'
                            \/ \A v \in Window : pc'[v].at \in {"set", "erase"} /\ pc'[v].id = d => form'[v].id # Nil
    BY DEF Given, NotYet
  <2> QED BY <1>2, <2>1, <2>2, GivenIs DEF Only
<1>3. c \in torn' /\ c \in Given => c \in Given'
  BY DEF Only, Given, NotYet
<1> QED BY <1>1, <1>2, <1>3

Maps == Abstract!Next \/ UNCHANGED <<Shown, Given, torn>>

\* What has come apart may do anything.
LEMMA ToTear ==
    ASSUME NEW w, NEW c \in Cred, Only(w, c), c \in torn'
    PROVE  Maps
<1>1. torn' = torn \cup {c}
  BY DEF Only
<1>2. Given' \in {Given, Given \cup {c}}
  <2>1. CASE c \in Given \/ c \notin Given'
    <3>1. Given' = Given
      BY <2>1, Elsewhere
    <3> QED BY <3>1
  <2>2. CASE c \in Given'
    <3>1. Given' = Given \cup {c}
      BY <2>2, Elsewhere
    <3> QED BY <3>1
  <2> QED BY <2>1, <2>2
<1>3. \A d \in Cred \ {c} : Shown'[d] = Shown[d]
  BY Elsewhere
<1>4. Abstract!Tear(c)
  BY <1>1, <1>2, <1>3 DEF Abstract!Tear, Shown, Given, NotYet
<1> QED BY <1>4 DEF Maps, Abstract!Next

\* Nothing is seen of it.
LEMMA ToStutter ==
    ASSUME NEW w, NEW c \in Cred, Only(w, c),
           Shown'[c] = Shown[c], c \in Given' <=> c \in Given, c \in torn' <=> c \in torn
    PROVE  Maps
<1>1. torn' = torn
  BY DEF Only
<1>2. Given' = Given
  BY Elsewhere
<1>3. Shown' = Shown
  <2>1. \A d \in Cred : Shown'[d] = Shown[d]
    BY Elsewhere
  <2> QED BY <2>1 DEF Shown
<1> QED BY <1>1, <1>2, <1>3 DEF Maps

\* A save, with what was typed or without.
LEMMA ToSave ==
    ASSUME NEW w, NEW c \in Cred, Only(w, c), NEW k \in Kind, NEW p \in Password \cup {Nil},
           c \notin torn', c \in Given', c \in Given => Shown[c] # Nil,
           \/ k # "password" /\ Shown'[c] = [kind |-> k, password |-> Nil]
           \/ k = "password" /\ p # Nil /\ Shown'[c] = [kind |-> k, password |-> p]
           \/ k = "password" /\ Shown'[c] = [kind |-> k, password |-> KeptOf(Shown[c])]
    PROVE  Maps
<1>1. torn' = torn
  BY DEF Only
<1>2. Given' = Given \cup {c}
  BY Elsewhere
<1>3. \A d \in Cred : d # c => Shown'[d] = Shown[d]
  BY Elsewhere
<1>4. Abstract!Ours(c)
  BY <1>1, <1>2 DEF Abstract!Ours, Shown, Given, NotYet
<1>5. Abstract!Kept(c) = KeptOf(Shown[c])
  BY DEF Abstract!Kept, KeptOf, Shown
<1>6. Shown' = [Shown EXCEPT ![c] = Shown'[c]]
  BY <1>3 DEF Shown
<1>7. CASE k # "password" /\ Shown'[c] = [kind |-> k, password |-> Nil]
  <2>1. Abstract!Save(c, k, Nil)
    BY <1>4, <1>6, <1>7 DEF Abstract!Save, Shown
  <2> QED BY <2>1 DEF Maps, Abstract!Next
<1>8. CASE k = "password" /\ p # Nil /\ Shown'[c] = [kind |-> k, password |-> p]
  <2>1. Abstract!Save(c, k, p)
    BY <1>4, <1>6, <1>8 DEF Abstract!Save, Shown
  <2> QED BY <2>1 DEF Maps, Abstract!Next
<1>9. CASE k = "password" /\ Shown'[c] = [kind |-> k, password |-> KeptOf(Shown[c])]
  <2>1. Abstract!SaveWithout(c)
    BY <1>4, <1>5, <1>6, <1>9 DEF Abstract!SaveWithout, Shown
  <2> QED BY <2>1 DEF Maps, Abstract!Next
<1> QED BY <1>7, <1>8, <1>9

\* A deletion.
LEMMA ToDelete ==
    ASSUME NEW w, NEW c \in Cred, Only(w, c),
           c \notin torn', c \in Given' <=> c \in Given, Shown'[c] = Nil
    PROVE  Maps
<1>1. torn' = torn
  BY DEF Only
<1>2. Given' = Given
  BY Elsewhere
<1>3. Shown' = [Shown EXCEPT ![c] = Nil]
  BY Elsewhere DEF Shown
<1>4. Abstract!Delete(c)
  BY <1>1, <1>2, <1>3 DEF Abstract!Delete, Shown, Given, NotYet
<1> QED BY <1>4 DEF Maps, Abstract!Next

\* What there is to show of c after a step: by a window that is in the middle of it, and by none.
LEMMA AfterMiddle ==
    ASSUME NEW c \in Cred, NEW w \in Window, pc'[w].at \in Under, pc'[w].id = c
    PROVE  /\ Shown'[c] = was'[c]
           /\ pc'[w].at \in {"set", "erase"} /\ form'[w].id = Nil /\ c \notin torn' => c \notin Given'
  BY DEF Shown, Changing, Under, Given, NotYet

LEMMA AfterNone ==
    ASSUME NEW c \in Cred, \A v \in Window : pc'[v].at \in Under => pc'[v].id # c
    PROVE  Shown'[c] = Entry(c)' /\ (c \in Given' <=> c \in used')
  BY DEF Shown, Changing, Under, Given, NotYet

\* What everybody else remembers is still so.
LEMMA OthersRemember ==
    ASSUME Remembered, NEW w, NEW c, Only(w, c), Ranges', WasKept', w \in Window => Linked(w)',
           \A v \in Window : pc[v].at \in Under => pc[v].id \in Cred
    PROVE  Remembered'
<1>1. ASSUME NEW v \in Window, v # w PROVE Linked(v)'
  <2>1. pc'[v] = pc[v] /\ form'[v] = form[v]
    BY <1>1 DEF Only
  <2>2. CASE pc[v].at \notin Under
    BY <2>1, <2>2 DEF Linked, Under
  <2>3. CASE pc[v].at \in Under /\ pc[v].id = c
    BY <1>1, <2>1, <2>3 DEF Only, Remembered, Linked
  <2>4. CASE pc[v].at \in Under /\ pc[v].id # c
    <3>1. pc[v].id \in Cred
      BY <2>4
    <3> QED BY <2>1, <2>4, <3>1 DEF Only, Remembered, Linked
  <2> QED BY <2>2, <2>3, <2>4
<1>2. Alone'
  <2> SUFFICES ASSUME NEW u \in Window, NEW v \in Window, u # v, pc'[u].at \in Under, pc'[v].at \in Under,
                      pc'[u].id = pc'[v].id
               PROVE  pc'[u].id \in torn'
    BY DEF Alone
  <2>1. CASE u # w /\ v # w
    BY <2>1 DEF Only, Remembered, Alone
  <2>2. CASE u = w \/ v = w
    BY <2>2 DEF Only
  <2> QED BY <2>1, <2>2
<1> QED BY <1>1, <1>2 DEF Remembered

\* A step that is about no credential.
LEMMA Quiet ==
    ASSUME Remembered, NEW w, UNCHANGED <<cred, used, keychain, was, torn>>,
           \A v \in Window \ {w} : pc'[v] = pc[v] /\ form'[v] = form[v],
           w \in Window => pc[w].at \notin Under /\ pc'[w].at \notin Under
    PROVE  Remembered' /\ Maps
<1>1. Remembered'
  <2>1. \A v \in Window : Linked(v)'
    BY DEF Remembered, Linked, Under
  <2>2. Alone'
    BY DEF Remembered, Alone
  <2> QED BY <2>1, <2>2 DEF Remembered, Ranges, WasKept
<1>2. ASSUME NEW c \in Cred PROVE Shown'[c] = Shown[c]
  <2>1. (\E v \in Window : pc[v].at \in Under /\ pc[v].id = c)
           <=> (\E v \in Window : pc'[v].at \in Under /\ pc'[v].id = c)
    OBVIOUS
  <2>2. Entry(c)' = Entry(c)
    BY DEF Entry
  <2>3. Shown[c] = IF \E v \in Window : pc[v].at \in Under /\ pc[v].id = c THEN was[c] ELSE Entry(c)
    BY DEF Shown, Changing, Under
  <2>4. Shown'[c] = IF \E v \in Window : pc'[v].at \in Under /\ pc'[v].id = c THEN was'[c] ELSE Entry(c)'
    BY DEF Shown, Changing, Under
  <2> QED BY <2>1, <2>2, <2>3, <2>4
<1>3. NotYet' = NotYet
  <2>1. ASSUME NEW c PROVE c \in NotYet' <=> c \in NotYet
    BY DEF NotYet, Under
  <2> QED BY <2>1
<1>4. Shown' = Shown
  BY <1>2 DEF Shown
<1> QED BY <1>1, <1>3, <1>4 DEF Maps, Given

-----------------------------------------------------------------------------
(* The steps.                                                              *)

LEMMA InCred ==
    ASSUME Owed, NEW w \in Window, pc[w].at \in Under
    PROVE  pc[w].id \in Cred
  BY DEF Owed, InHand, Under

\* Saving the record: done with it, or in the middle of it from here on.
LEMMA PutMaps ==
    ASSUME Kinds, Owed, Remembered, NEW w \in Window, PutCredential(w)
    PROVE  Remembered' /\ Maps
<1> PICK c \in IF form[w].id = Nil THEN Cred \ used ELSE {form[w].id} :
         IF form[w].id # Nil /\ cred[c] = Nil
         THEN Goes(w, "idle", Nil) /\ UNCHANGED <<disk, screen, ghost>>
         ELSE /\ cred' = [cred EXCEPT ![c] = form[w].kind] /\ used' = used \cup {c}
              /\ Remember(c) /\ Tears(Crossed(w, c)) /\ UNCHANGED keychain
              /\ IF Then(w) = "idle"
                 THEN form' = [form EXCEPT ![w] = Nil] /\ Goes(w, "idle", Nil)
                 ELSE Goes(w, Then(w), c) /\ UNCHANGED screen
  BY DEF PutCredential
<1>1. pc[w].at = "put" /\ c \in Cred /\ form[w] \in Form /\ form[w].kind \in Kind
  BY DEF PutCredential, Kinds, Form, Owed, InHand
<1>2. CASE Goes(w, "idle", Nil) /\ UNCHANGED <<disk, screen, ghost>>
  <2>1. \A v \in Window \ {w} : pc'[v] = pc[v] /\ form'[v] = form[v]
    BY <1>2 DEF Kinds, Goes, screen
  <2>2. pc'[w].at \notin Under
    BY <1>2 DEF Kinds, Goes, Under
  <2>3. UNCHANGED <<cred, used, keychain, was, torn>>
    BY <1>2 DEF disk, ghost
  <2> QED BY <1>1, <2>1, <2>2, <2>3, Quiet DEF Under
<1>3. CASE /\ form[w].id # Nil => cred[c] # Nil
           /\ cred' = [cred EXCEPT ![c] = form[w].kind] /\ used' = used \cup {c}
           /\ Remember(c) /\ Tears(Crossed(w, c)) /\ UNCHANGED keychain
           /\ Goes(w, Then(w), IF Then(w) = "idle" THEN Nil ELSE c)
           /\ \A v \in Window : v # w \/ Then(w) # "idle" => form'[v] = form[v]
  <2>1. \A v \in Window \ {w} : pc'[v] = pc[v] /\ form'[v] = form[v]
    BY <1>3 DEF Kinds, Goes
  <2>2. pc'[w].at = Then(w) /\ (Then(w) # "idle" => pc'[w].id = c /\ form'[w] = form[w])
    BY <1>3 DEF Kinds, Goes
  <2>3. /\ cred'[c] = form[w].kind /\ \A d \in Cred : d # c => cred'[d] = cred[d]
        /\ was'[c] = Entry(c) /\ \A d \in Cred : d # c => was'[d] = was[d]
    BY <1>1, <1>3 DEF Kinds, Remembered, WasKept, Remember
  <2>4. torn' = torn \cup Crossed(w, c) /\ Crossed(w, c) \subseteq {c}
    BY <1>3 DEF Tears, Crossed
  <2>5. \A v \in Window \ {w} : pc[v].at # "idle" /\ pc[v].id = c => c \in torn'
    BY <2>4 DEF Crossed
  <2>6. Only(w, c)
    BY <1>1, <1>3, <2>1, <2>2, <2>3, <2>4, <2>5 DEF Only, Under
  <2>7. Ranges'
    BY <1>1, <1>3, <2>3 DEF Remembered, Ranges
  <2>8. Linked(w)'
    <3>1. KeptOf(Entry(c)) = keychain[c] /\ (cred[c] # Nil => Entry(c) # Nil)
      BY <1>1, EntryIs DEF Remembered
    <3> QED BY <1>1, <1>3, <2>2, <2>3, <3>1, ThenIs DEF Linked
  <2>9. Remembered'
    <3>1. WasKept'
      BY <1>3 DEF Remember, WasKept, Remembered
    <3> QED BY <2>6, <2>7, <2>8, <3>1, OthersRemember, InCred
  <2>10. CASE c \in torn'
    BY <1>1, <2>6, <2>9, <2>10, ToTear
  <2>11. CASE c \notin torn'
    <3>1. c \notin torn /\ \A v \in Window : pc[v].at \in Under => pc[v].id # c
      BY <1>1, <2>4, <2>5, <2>11 DEF Under
    <3>2. Shown[c] = Entry(c) /\ (c \in Given <=> c \in used)
      BY <1>1, <3>1, ShownIs, GivenIs DEF Under
    <3>3. CASE Then(w) = "idle"
      <4>1. /\ form[w].kind = "password" /\ form[w].pw = Nil
        BY <3>3, ThenIs
      <4>2. form[w].id # Nil /\ c = form[w].id /\ cred[c] # Nil
        BY <1>1, <1>3, <4>1 DEF Owed, InHand
      <4>3. \A v \in Window : pc'[v].at \in Under => pc'[v].id # c
        BY <2>1, <2>2, <3>1, <3>3 DEF Under
      <4>4. Shown'[c] = Entry(c)' /\ (c \in Given' <=> c \in used')
        BY <1>1, <4>3, AfterNone
      <4>5. Entry(c)' = [kind |-> "password", password |-> keychain[c]]
        BY <1>1, <1>3, <2>3, <4>1, CredentialAssumption DEF Entry
      <4>6. Shown[c] # Nil /\ KeptOf(Shown[c]) = keychain[c]
        BY <1>1, <3>2, <4>2, EntryIs DEF Remembered
      <4> QED BY <1>1, <1>3, <2>6, <2>9, <2>11, <4>1, <4>4, <4>5, <4>6, ToSave
    <3>4. CASE Then(w) # "idle"
      <4>1. pc'[w].at \in {"set", "erase"} /\ pc'[w].id = c /\ form'[w] = form[w]
        BY <2>2, <3>4, ThenIs
      <4>2. Shown'[c] = Shown[c]
        BY <1>1, <2>3, <3>2, <4>1, AfterMiddle DEF Under
      <4>3. c \in Given' <=> c \in Given
        <5>1. CASE form[w].id = Nil
          BY <1>1, <2>11, <3>2, <4>1, <5>1, AfterMiddle DEF Under
        <5>2. CASE form[w].id # Nil
          <6>1. c \in used
            BY <1>1, <1>3, <5>2 DEF Remembered, Ranges
          <6>2. \A v \in Window : pc'[v].at \in {"set", "erase"} /\ pc'[v].id = c => form'[v].id # Nil
            BY <2>1, <3>1, <4>1, <5>2 DEF Under
          <6>3. c \notin NotYet'
            BY <6>2 DEF NotYet
          <6> QED BY <1>3, <3>2, <6>1, <6>3 DEF Given
        <5> QED BY <5>1, <5>2
      <4> QED BY <1>1, <2>6, <2>9, <2>11, <3>1, <4>2, <4>3, ToStutter
    <3> QED BY <3>3, <3>4
  <2> QED BY <2>10, <2>11
<1> QED
  <2>1. \A v \in Window : v # w /\ form' = [form EXCEPT ![w] = Nil] => form'[v] = form[v]
    BY DEF Kinds
  <2> QED BY <1>2, <1>3, <2>1 DEF screen

\* A window done with what it was in the middle of, which it has torn or has to itself.
LEMMA Done ==
    ASSUME Kinds, Owed, Remembered, NEW w \in Window, NEW c \in Cred, c = pc[w].id, pc[w].at \in Under,
           Ranges', UNCHANGED <<cred, used>>, \A d \in Cred : d # c => keychain'[d] = keychain[d],
           Forget(w), pc'[w].at = "idle", \A v \in Window \ {w} : pc'[v] = pc[v] /\ form'[v] = form[v],
           torn \subseteq torn', torn' \subseteq torn \cup {c}
    PROVE  /\ Only(w, c) /\ Remembered'
           /\ c \notin torn' => /\ Shown[c] = was[c] /\ Shown'[c] = Entry(c)'
                                /\ c \in Given' <=> c \in used
                                /\ c \in Given <=> c \in used /\ (pc[w].at # "forget" => form[w].id # Nil)
<1>1. \A d \in Cred : d # c => was'[d] = was[d]
  BY DEF Forget
<1>2. Only(w, c)
  BY <1>1 DEF Only, Under, Remembered, Alone
<1>3. Remembered'
  <2>1. WasKept'
    BY DEF Forget, WasKept
  <2>2. Linked(w)'
    BY DEF Linked
  <2> QED BY <1>2, <2>1, <2>2, OthersRemember, InCred
<1>4. ASSUME c \notin torn'
      PROVE  /\ Shown[c] = was[c] /\ Shown'[c] = Entry(c)'
             /\ c \in Given' <=> c \in used
             /\ c \in Given <=> c \in used /\ (pc[w].at # "forget" => form[w].id # Nil)
  <2>1. \A v \in Window : pc'[v].at \in Under => pc'[v].id # c
    BY <1>4 DEF Remembered, Alone, Under
  <2>2. Shown'[c] = Entry(c)' /\ (c \in Given' <=> c \in used)
    BY <2>1, AfterNone
  <2>3. Shown[c] = was[c]
    BY ShownIs
  <2>4. c \in Given <=> c \in used /\ (pc[w].at # "forget" => form[w].id # Nil)
    BY <1>4, GivenIs1 DEF Remembered, Under
  <2> QED BY <2>2, <2>3, <2>4
<1> QED BY <1>2, <1>3, <1>4

\* Writing the secret, which ends a save.
LEMMA SetMaps ==
    ASSUME Kinds, Owed, Remembered, NEW w \in Window, Set(w)
    PROVE  Remembered' /\ Maps
<1> PICK c \in Cred : c = pc[w].id
  BY InCred DEF Set, Under
<1> PICK ok \in BOOLEAN :
         /\ keychain' = IF ok THEN [keychain EXCEPT ![pc[w].id] = form[w].pw] ELSE keychain
         /\ UNCHANGED <<cred, used>> /\ Forget(w) /\ Tears(Crossed(w, pc[w].id)) /\ Back(w, Outcome(ok))
  BY DEF Set
<1>1. pc[w].at = "set" /\ c \in Cred /\ form[w].kind = "password" /\ form[w].pw \in Password /\ form[w].pw # Nil
  BY CredentialAssumption DEF Set, Owed, InHand, Kinds, Form
<1>2. /\ \A v \in Window \ {w} : pc'[v] = pc[v] /\ form'[v] = form[v]
      /\ pc'[w].at = "idle"
  BY DEF Kinds, Back, Goes
<1>3. Ranges' /\ \A d \in Cred : d # c => keychain'[d] = keychain[d]
  BY <1>1 DEF Remembered, Ranges
<1>4. torn \subseteq torn' /\ torn' \subseteq torn \cup {c}
  BY DEF Tears, Crossed
<1>5. /\ Only(w, c) /\ Remembered'
      /\ c \notin torn' => /\ Shown[c] = was[c] /\ Shown'[c] = Entry(c)'
                           /\ c \in Given' <=> c \in used
                           /\ c \in Given <=> c \in used /\ form[w].id # Nil
  BY <1>1, <1>2, <1>3, <1>4, Done DEF Under
<1>6. CASE c \in torn'
  BY <1>1, <1>5, <1>6, ToTear
<1>7. CASE c \notin torn'
  <2>1. /\ keychain[c] = KeptOf(was[c]) /\ cred[c] = "password" /\ c \in used
        /\ form[w].id # Nil => was[c] # Nil
    BY <1>1, <1>4, <1>7 DEF Remembered, Linked
  <2>2. Entry(c)' = [kind |-> "password", password |-> keychain'[c]]
    BY <2>1, CredentialAssumption DEF Entry, Kind
  <2>3. CASE ok
    <3>1. keychain'[c] = form[w].pw
      BY <1>1, <2>3 DEF Kinds
    <3> QED BY <1>1, <1>5, <1>7, <2>1, <2>2, <3>1, ToSave DEF Kind
  <2>4. CASE ~ ok
    <3>1. keychain'[c] = KeptOf(Shown[c])
      BY <1>5, <1>7, <2>1, <2>4
    <3> QED BY <1>1, <1>5, <1>7, <2>1, <2>2, <3>1, ToSave DEF Kind
  <2> QED BY <2>3, <2>4
<1> QED BY <1>5, <1>6, <1>7

\* Removing it, which ends the save of a kind that keeps none, or a deletion.
LEMMA EraseMaps ==
    ASSUME Kinds, Owed, Remembered, NEW w \in Window, Erase(w)
    PROVE  Remembered' /\ Maps
<1> PICK c \in Cred : c = pc[w].id
  BY InCred DEF Erase, Under
<1> PICK ok \in BOOLEAN :
         /\ keychain' = IF ok THEN [keychain EXCEPT ![pc[w].id] = Nil] ELSE keychain
         /\ Tears(Crossed(w, pc[w].id) \cup IF ok THEN {} ELSE {pc[w].id})
  BY DEF Erase
<1>1. pc[w].at \in {"erase", "forget"} /\ c \in Cred /\ UNCHANGED <<cred, used>> /\ Forget(w)
  BY DEF Erase, Owed, InHand
<1>2. /\ \A v \in Window \ {w} : pc'[v] = pc[v] /\ form'[v] = form[v]
      /\ pc'[w].at = "idle"
  BY DEF Erase, Kinds, Back, Goes
<1>3. Ranges' /\ \A d \in Cred : d # c => keychain'[d] = keychain[d]
  BY <1>1 DEF Remembered, Ranges
<1>4. torn \subseteq torn' /\ torn' \subseteq torn \cup {c}
  BY DEF Tears, Crossed
<1>5. /\ Only(w, c) /\ Remembered'
      /\ c \notin torn' => /\ Shown[c] = was[c] /\ Shown'[c] = Entry(c)'
                           /\ c \in Given' <=> c \in used
                           /\ c \in Given <=> c \in used /\ (pc[w].at # "forget" => form[w].id # Nil)
  BY <1>1, <1>2, <1>3, <1>4, Done DEF Under
<1>6. CASE c \in torn'
  BY <1>1, <1>5, <1>6, ToTear
<1>7. CASE c \notin torn'
  <2>1. keychain'[c] = Nil
    BY <1>1, <1>7 DEF Kinds, Tears
  <2>2. CASE pc[w].at = "erase"
    <3>1. /\ cred[c] = form[w].kind /\ c \in used /\ (form[w].id # Nil => was[c] # Nil)
          /\ form[w].kind # "password" /\ form[w].kind \in Kind
      BY <1>4, <1>7, <2>2 DEF Remembered, Linked, Owed, InHand
    <3>2. Entry(c)' = [kind |-> form[w].kind, password |-> Nil]
      BY <1>1, <2>1, <3>1, CredentialAssumption DEF Entry
    <3> QED BY <1>1, <1>5, <1>7, <2>2, <3>1, <3>2, ToSave
  <2>3. CASE pc[w].at = "forget"
    <3>1. cred[c] = Nil
      BY <1>4, <1>7, <2>3 DEF Remembered, Linked
    <3>2. Entry(c)' = Nil
      BY <1>1, <2>1, <3>1 DEF Entry
    <3> QED BY <1>1, <1>5, <1>7, <2>3, <3>2, ToDelete
  <2> QED BY <1>1, <2>2, <2>3
<1> QED BY <1>5, <1>6, <1>7

\* Deleting the record, which is the first half of a deletion.
LEMMA DeleteMaps ==
    ASSUME Kinds, Owed, Remembered, NEW w \in Window, Delete(w)
    PROVE  Remembered' /\ Maps
<1> PICK c \in Cred : c = confirm[w]
  BY DEF Delete, Kinds
<1>1. pc[w].at = "idle" /\ UNCHANGED <<used, keychain, form>>
  BY DEF Delete, screen
<1>2. /\ cred'[c] = Nil /\ \A d \in Cred : d # c => cred'[d] = cred[d]
      /\ was'[c] = Entry(c) /\ \A d \in Cred : d # c => was'[d] = was[d]
  BY DEF Delete, Kinds, Remember, Remembered, WasKept
<1>3. pc'[w].at = "forget" /\ pc'[w].id = c /\ \A v \in Window \ {w} : pc'[v] = pc[v]
  BY DEF Delete, Kinds, Goes, AfterTheRecord
<1>4. torn' = torn \cup Crossed(w, c) /\ Crossed(w, c) \subseteq {c}
  BY DEF Delete, Tears, Crossed
<1>5. \A v \in Window \ {w} : pc[v].at # "idle" /\ pc[v].id = c => c \in torn'
  BY <1>4 DEF Crossed
<1>6. Only(w, c)
  BY <1>1, <1>2, <1>3, <1>4, <1>5 DEF Only, Under
<1>7. Remembered'
  <2>1. Ranges'
    BY <1>1, <1>2 DEF Delete, Remembered, Ranges
  <2>2. WasKept'
    BY DEF Delete, Remember, WasKept, Remembered
  <2>3. Linked(w)'
    BY <1>2, <1>3 DEF Linked
  <2> QED BY <1>6, <2>1, <2>2, <2>3, OthersRemember, InCred
<1>8. CASE c \in torn'
  BY <1>6, <1>7, <1>8, ToTear
<1>9. CASE c \notin torn'
  <2>1. c \notin torn /\ \A v \in Window : pc[v].at \in Under => pc[v].id # c
    BY <1>1, <1>4, <1>5, <1>9 DEF Under
  <2>2. Shown[c] = Entry(c) /\ (c \in Given <=> c \in used)
    BY <2>1, ShownIs, GivenIs DEF Under
  <2>3. Shown'[c] = Shown[c]
    BY <1>2, <1>3, <2>2, AfterMiddle DEF Under
  <2>4. c \notin NotYet'
    BY <1>3, <2>1 DEF NotYet, Under
  <2>5. c \in Given' <=> c \in Given
    BY <1>1, <2>2, <2>4 DEF Given
  <2> QED BY <1>6, <1>7, <1>9, <2>1, <2>3, <2>5, ToStutter
<1> QED BY <1>8, <1>9

\* A record imported, which knows no keychain.
LEMMA ImportMaps ==
    ASSUME Kinds, Owed, Remembered, Import
    PROVE  Remembered' /\ Maps
<1> PICK c \in Cred, k \in Kind :
         /\ c \notin used \/ cred[c] # Nil
         /\ cred' = [cred EXCEPT ![c] = k] /\ used' = used \cup {c}
         /\ Tears(Crossed(Nil, c) \cup IF k # "password" /\ keychain[c] # Nil THEN {c} ELSE {})
  BY DEF Import
<1>1. UNCHANGED <<keychain, form, pc, was>>
  BY DEF Import, screen
<1>2. cred'[c] = k /\ \A d \in Cred : d # c => cred'[d] = cred[d]
  BY DEF Kinds
<1>3. /\ torn \subseteq torn' /\ torn' \subseteq torn \cup {c}
      /\ k # "password" /\ keychain[c] # Nil => c \in torn'
  BY DEF Tears, Crossed
<1>4. \A v \in Window : pc[v].at # "idle" /\ pc[v].id = c => c \in torn'
  BY CredentialAssumption DEF Crossed, Tears
<1>5. Only(Nil, c)
  BY <1>1, <1>2, <1>3, <1>4, CredentialAssumption DEF Only, Under
<1>6. Remembered'
  <2>1. Ranges'
    BY <1>1, <1>2 DEF Remembered, Ranges
  <2>2. WasKept'
    BY <1>1 DEF WasKept, Remembered
  <2> QED BY <1>5, <2>1, <2>2, OthersRemember, InCred, CredentialAssumption
<1>7. CASE c \in torn'
  BY <1>5, <1>6, <1>7, ToTear
<1>8. CASE c \notin torn'
  <2>1. c \notin torn /\ \A v \in Window : pc[v].at \in Under => pc[v].id # c
    BY <1>3, <1>4, <1>8 DEF Under
  <2>2. Shown[c] = Entry(c) /\ (c \in Given <=> c \in used)
    BY <2>1, ShownIs, GivenIs DEF Under
  <2>3. Shown'[c] = Entry(c)' /\ c \in Given'
    BY <1>1, <2>1, AfterNone
  <2>4. Entry(c)' = [kind |-> k, password |-> keychain[c]]
    BY <1>1, <1>2, CredentialAssumption DEF Entry
  <2>5. KeptOf(Shown[c]) = keychain[c] /\ (c \in Given => Shown[c] # Nil)
    BY <2>2, EntryIs DEF Remembered
  <2>6. CASE k = "password"
    BY <1>5, <1>6, <1>8, <2>3, <2>4, <2>5, <2>6, ToSave
  <2>7. CASE k # "password"
    BY <1>3, <1>5, <1>6, <1>8, <2>3, <2>4, <2>5, <2>7, ToSave
  <2> QED BY <2>6, <2>7
<1> QED BY <1>7, <1>8

\* A window killed: before anything was written, in the middle of a save whose
\* secret is not written, or of one whose secret is to go.
LEMMA KillMaps ==
    ASSUME Kinds, Owed, Remembered, NEW w \in Window, Kill(w)
    PROVE  Remembered' /\ Maps
<1>1. /\ \A v \in Window \ {w} : pc'[v] = pc[v] /\ form'[v] = form[v]
      /\ pc'[w].at = "idle" /\ UNCHANGED <<cred, used, keychain>>
  BY DEF Kill, Kinds, Back, Goes, disk
<1>2. pc[w].at \in {"put", "set", "erase", "forget"}
  BY DEF Kill, Kinds, Step
<1>3. CASE pc[w].at = "put"
  <2>1. was' = was /\ torn' = torn
    BY <1>3 DEF Kill, Tears
  <2> QED BY <1>1, <1>3, <2>1, Quiet DEF Under
<1>4. CASE pc[w].at \in Under
  <2> PICK c \in Cred : c = pc[w].id
    BY <1>4, InCred
  <2>1. torn \subseteq torn' /\ torn' \subseteq torn \cup {c} /\ (pc[w].at # "set" => c \in torn') /\ Forget(w)
    BY <1>4 DEF Kill, Tears, Under
  <2>2. Ranges'
    BY <1>1 DEF Remembered, Ranges
  <2>3. /\ Only(w, c) /\ Remembered'
        /\ c \notin torn' => /\ Shown[c] = was[c] /\ Shown'[c] = Entry(c)'
                             /\ c \in Given' <=> c \in used
                             /\ c \in Given <=> c \in used /\ (pc[w].at # "forget" => form[w].id # Nil)
    BY <1>1, <1>4, <2>1, <2>2, Done
  <2>4. CASE c \in torn'
    BY <2>3, <2>4, ToTear
  <2>5. CASE c \notin torn'
    <3>1. pc[w].at = "set"
      BY <1>4, <2>1, <2>5 DEF Under
    <3>2. /\ keychain[c] = KeptOf(was[c]) /\ cred[c] = "password" /\ c \in used
          /\ form[w].id # Nil => was[c] # Nil
      BY <2>1, <2>5, <3>1 DEF Remembered, Linked, Owed, InHand
    <3>3. Entry(c)' = [kind |-> "password", password |-> keychain[c]]
      BY <1>1, <3>2, CredentialAssumption DEF Entry, Kind
    <3>4. Shown'[c] = [kind |-> "password", password |-> KeptOf(Shown[c])]
      BY <2>3, <2>5, <3>2, <3>3
    <3> QED BY <2>3, <2>5, <3>1, <3>2, <3>4, ToSave DEF Kind
  <2> QED BY <2>3, <2>4, <2>5
<1> QED BY <1>2, <1>3, <1>4 DEF Under

-----------------------------------------------------------------------------
(* The refinement.                                                         *)

\* Whatever the keychain refuses, and however windows, imports and kills
\* interleave, a credential that is not torn is one entry, a kind and a
\* password, saved and deleted at once (saveCredentialForm, askDelete;
\* credential.go:193, :289).
THEOREM IsAVaultAlways == Spec => IsAVault
<1>1. Init => Remembered /\ Abstract!Init
  <2> SUFFICES ASSUME Init PROVE Remembered /\ Abstract!Init
    OBVIOUS
  <2>1. \A w \in Window : pc[w].at = "idle"
    BY DEF Init, Idle
  <2>2. Remembered
    BY <2>1 DEF Init, Remembered, Ranges, WasKept, Alone, Linked, Under
  <2>3. \A c \in Cred : Shown[c] = Nil
    BY <2>1 DEF Init, Shown, Changing, Entry
  <2>4. Given = {} /\ torn = {}
    BY DEF Init, Given
  <2>5. Shown = [c \in Cred |-> Nil]
    BY <2>3 DEF Shown
  <2>6. Abstract!Init
    BY <2>4, <2>5 DEF Abstract!Init, Shown, Given, NotYet
  <2> QED BY <2>2, <2>6
<1>2. Kinds /\ Owed /\ Remembered /\ [Next]_vars => Remembered' /\ Maps
  <2> SUFFICES ASSUME Kinds, Owed, Remembered, [Next]_vars PROVE Remembered' /\ Maps
    OBVIOUS
  <2>1. ASSUME NEW w \in Window, OpenForm(w) \/ Cancel(w) \/ AskDelete(w) \/ Submit(w) PROVE Remembered' /\ Maps
    <3>1. /\ UNCHANGED <<cred, used, keychain, was, torn>> /\ pc[w].at = "idle"
          /\ \A v \in Window \ {w} : form'[v] = form[v]
      BY <2>1 DEF OpenForm, Cancel, AskDelete, Submit, Kinds, disk, ghost, screen
    <3>2. UNCHANGED pc \/ Goes(w, "put", form[w].id)
      BY <2>1 DEF OpenForm, Cancel, AskDelete, Submit
    <3>3. (\A v \in Window \ {w} : pc'[v] = pc[v]) /\ pc'[w].at \in {"idle", "put"}
      <4>1. CASE UNCHANGED pc
        BY <3>1, <4>1
      <4>2. CASE Goes(w, "put", form[w].id)
        BY <4>2 DEF Kinds, Goes
      <4> QED BY <3>2, <4>1, <4>2
    <3> QED BY <3>1, <3>3, Quiet DEF Under
  <2>2. CASE UNCHANGED vars
    <3>1. UNCHANGED <<cred, used, keychain, was, torn, pc, form>>
      BY <2>2 DEF vars, disk, ghost, screen
    <3> QED BY <3>1, Quiet, CredentialAssumption
  <2> QED BY <2>1, <2>2, PutMaps, SetMaps, EraseMaps, DeleteMaps, ImportMaps, KillMaps DEF Next
<1>3. Maps => [Abstract!Next]_<<Shown, Given, torn>>
  BY DEF Maps
<1> QED BY <1>1, <1>2, <1>3, KindsKept, OwedAlways, PTL
        DEF Spec, IsAVault, Abstract!Spec, Shown, Given, NotYet
=============================================================================
