----------------------------- MODULE ThemeProofs -----------------------------
(***************************************************************************)
(* The two files omassh writes that are not its own.  What holds of the    *)
(* theme picker, the watch of Omarchy's theme and the config file, for     *)
(* every set of palettes and however often anything is changed, edited or  *)
(* killed; and what holds of OpenSSH's config (SSHConfig), for every file, *)
(* list of hosts and order of exports and edits.                           *)
(***************************************************************************)
EXTENDS Theme, SSHConfig, FiniteSetTheorems, FunctionTheorems, SequenceTheorems, WellFoundedInduction, TLAPS

\* Everything a step may be.
LEMMA Steps ==
    ASSUME [Next]_vars
    PROVE  \/ OpenPicker \/ Move \/ Esc \/ KeepTheme \/ Tick
           \/ Read \/ Create \/ Write \/ Rename
           \/ Start \/ Begin \/ Quit \/ Crash
           \/ SetsToken \/ Repoints \/ Removed \/ Edit \/ UNCHANGED vars
BY DEF Next, Key, Save, Outside

-----------------------------------------------------------------------------
(* What the variables hold.                                                *)

Kinds ==
    /\ file \in Texts \cup {Gone} /\ saving \in Saves \cup {Gone}
    /\ picker \in Pickers \cup {Gone} /\ theme \in Every
    /\ saving # Gone /\ saving.at # "read" => saving.body \in Texts /\ saving.body.theme = saving.name

\* A file, a save and a picker are what they should be, whatever fails; in
\* particular the file is never half of one.
LEMMA KindsKept == Spec => []Kinds
<1>a. /\ \A t \in Every \cup {Gone}, n \in BOOLEAN, r \in 0..MaxEdits :
            [theme |-> t, note |-> n, rest |-> r] \in Texts
      /\ \A f \in Texts : f.theme \in Every \cup {Gone} /\ f.note \in BOOLEAN /\ f.rest \in 0..MaxEdits
      /\ \A f \in Texts, t \in Every : [f EXCEPT !.theme = t] \in Texts /\ [f EXCEPT !.theme = t].theme = t
  BY DEF Texts
<1>b. 0 \in 0..MaxEdits /\ Names \cup Own \subseteq Every
  BY ThemeAssumption DEF Every
<1>1. Init => Kinds
  <2> SUFFICES ASSUME Init PROVE Kinds
    OBVIOUS
  <2>1. file \in Texts \cup {Gone}
    <3>1. Builtin \cup Aliases \cup {Gone} \subseteq Every \cup {Gone}
      BY DEF Every, Names
    <3>2. [theme : Builtin \cup Aliases \cup {Gone}, note : {FALSE}, rest : {0}] \subseteq Texts
      BY <3>1, <1>b DEF Texts
    <3> QED BY <3>2 DEF Init
  <2> QED BY <2>1, ThemeAssumption DEF Init, Kinds, Every, Names
<1>2. Kinds /\ [Next]_vars => Kinds'
  <2> SUFFICES ASSUME Kinds, [Next]_vars PROVE Kinds'
    OBVIOUS
  <2> USE DEF Kinds
  <2>1. CASE OpenPicker
    <3>1. PICK first \in Offered :
            picker' = [names |-> Offered, was |-> theme, at |-> IF theme \in Offered THEN theme ELSE first]
      BY <2>1 DEF OpenPicker
    <3>2. Offered \subseteq Names \cup Own
      BY DEF Offered, Names
    <3>3. picker' \in Pickers
      BY <3>1, <3>2 DEF Pickers
    <3> QED BY <2>1, <3>3 DEF OpenPicker, disk
  <2>2. CASE Move
    <3>1. PICK n \in picker.names : picker' = [picker EXCEPT !.at = n]
      BY <2>2 DEF Move
    <3>2. picker \in Pickers
      BY <2>2 DEF Move
    <3>3. picker' \in Pickers
      BY <3>1, <3>2 DEF Pickers
    <3> QED BY <2>2, <3>3 DEF Move, disk
  <2>3. CASE Esc
    BY <2>3 DEF Esc, disk
  <2>4. CASE KeepTheme
    <3>1. picker \in Pickers
      BY <2>4 DEF KeepTheme
    <3>2. picker.at \in Names \cup Own
      BY <3>1 DEF Pickers
    <3>3. saving' = [at |-> "read", name |-> picker.at, body |-> Gone]
      BY <2>4 DEF KeepTheme
    <3>4. saving' \in Saves /\ saving'.at = "read"
      BY <3>2, <3>3 DEF Saves
    <3> QED BY <2>4, <3>2, <3>4, <1>b DEF KeepTheme
  <2>5. CASE Tick
    BY <2>5 DEF Tick, disk
  <2>6. CASE Read
    <3>1. saving \in Saves /\ saving.name \in Names \cup Own
      BY <2>6 DEF Read, Saves
    <3>2. Rewritten(file, saving.name) \in Texts /\ Rewritten(file, saving.name).theme = saving.name
      <4>1. CASE file = Gone
        BY <4>1, <3>1, <1>a, <1>b DEF Rewritten
      <4>2. CASE file # Gone
        BY <4>2, <3>1, <1>a, <1>b DEF Rewritten
      <4> QED BY <4>1, <4>2
    <3>3. CASE saving' = [saving EXCEPT !.at = "create", !.body = Rewritten(file, saving.name)]
      <4> HIDE DEF Kinds
      <4>1. saving' \in Saves /\ saving'.body = Rewritten(file, saving.name) /\ saving'.name = saving.name
        BY <3>1, <3>2, <3>3 DEF Saves
      <4> QED BY <2>6, <3>2, <4>1 DEF Read, window, Kinds
    <3> QED BY <2>6, <3>3 DEF Read, window
  <2>7. ASSUME NEW at \in {"write", "rename"}, saving # Gone, saving.at # "read",
               saving' = [saving EXCEPT !.at = at]
        PROVE  saving' \in Saves /\ saving'.body = saving.body /\ saving'.name = saving.name
    <3>1. saving \in Saves
      BY <2>7
    <3> QED BY <2>7, <3>1 DEF Saves
  <2>8. CASE Create
    BY <2>8, <2>7 DEF Create, window, Beside
  <2>9. CASE Write
    BY <2>9, <2>7 DEF Write, window, Beside
  <2>10. CASE Rename
    BY <2>10 DEF Rename, window
  <2>11. CASE Start
    <3>1. theme' \in Every
      <4>1. CASE file = Gone
        BY <4>1, <2>11, ThemeAssumption DEF Start, Every, Names
      <4>2. CASE file # Gone
        BY <4>2, <2>11, <1>a, ThemeAssumption DEF Start, Every, Names
      <4> QED BY <4>1, <4>2
    <3> QED BY <2>11, <3>1 DEF Start, disk
  <2>12. CASE Begin \/ Quit \/ Crash
    BY <2>12 DEF Begin, Quit, Crash, Close, disk
  <2>13. CASE Edit
    <3>1. PICK t \in Every \cup {Gone}, n \in BOOLEAN :
            LET r == IF file \in {Gone, Half} THEN 0 ELSE file.rest
            IN  r < MaxEdits /\ file' = [theme |-> t, note |-> n, rest |-> r + 1]
      BY <2>13 DEF Edit, Every
    <3>2. ASSUME NEW r \in Nat, r < MaxEdits, file' = [theme |-> t, note |-> n, rest |-> r + 1]
          PROVE  file' \in Texts
      <4>1. r + 1 \in 0..MaxEdits
        BY <3>2, ThemeAssumption
      <4> QED BY <3>2, <4>1, <1>a
    <3>3. CASE file = Gone
      BY <3>1, <3>2, <3>3, <2>13 DEF Edit, window
    <3>4. CASE file # Gone
      <4>1. file \in Texts /\ file \notin {Gone, Half} /\ file.rest \in Nat
        BY <3>4, <1>a, ThemeTexts, ThemeAssumption
      <4> QED BY <3>1, <3>2, <4>1, <2>13 DEF Edit, window
    <3> QED BY <3>3, <3>4
  <2>14. CASE SetsToken \/ Repoints \/ Removed \/ UNCHANGED vars
    BY <2>14 DEF SetsToken, Repoints, Removed, window, disk, vars
  <2> QED BY Steps, <2>1, <2>2, <2>3, <2>4, <2>5, <2>6, <2>8, <2>9, <2>10, <2>11, <2>12, <2>13, <2>14
<1> QED BY <1>1, <1>2, PTL DEF Spec

-----------------------------------------------------------------------------
(* What is worn.                                                           *)

Wears(n) == shown.name = Lookup(n) /\ (n \in Own \ {Omarchy} => shown.of = "own")

\* With the picker open it is the palette under the cursor that is worn, and the
\* theme in effect is the one esc would put back.
Worn ==
    running # "off" =>
        IF picker = Gone THEN ~ unpainted => Wears(theme)
        ELSE picker.was = theme /\ (~ unpainted => Wears(picker.at))

\* A palette that is painted is worn.
LEMMA Painted ==
    ASSUME NEW n, shown' = Palette(n)
    PROVE  Wears(n)'
BY DEF Palette, Wears, Lookup

\* For any palettes of the user's own and however Omarchy changes, closing the
\* picker leaves the theme in effect worn (Esc, KeepTheme, Tick; themes.go:197).
THEOREM KeptIsShownAlways == Spec => []KeptIsShown
<1>1. Init => Worn
  BY DEF Init, Worn
<1>2. Kinds /\ Worn /\ [Next]_vars => Worn'
  <2> SUFFICES ASSUME Kinds, Worn, [Next]_vars PROVE Worn'
    OBVIOUS
  <2>1. CASE OpenPicker
    <3>1. PICK first \in Offered :
            /\ picker' = [names |-> Offered, was |-> theme, at |-> IF theme \in Offered THEN theme ELSE first]
            /\ unpainted' = (unpainted \/ picker'.at # theme)
      BY <2>1 DEF OpenPicker
    <3>2. picker'.was = theme
      BY <3>1
    <3>3. ~ unpainted' => ~ unpainted /\ picker'.at = theme
      BY <3>1
    <3>4. running = "on" /\ picker = Gone /\ UNCHANGED <<theme, shown>>
      BY <2>1 DEF OpenPicker, Idle
    <3>5. ~ unpainted' => Wears(theme)
      BY <3>3, <3>4 DEF Worn
    <3> QED BY <3>2, <3>3, <3>4, <3>5 DEF Worn, Wears
  <2>2. CASE Move
    <3>1. PICK n \in picker.names \ {picker.at} :
             picker' = [picker EXCEPT !.at = n] /\ shown' = Palette(n)
      BY <2>2 DEF Move, Paint
    <3>2. picker \in Pickers
      BY <2>2 DEF Move, Kinds
    <3>3. n \in Names \cup Own /\ picker' \in Pickers /\ picker'.at = n /\ picker'.was = picker.was
      BY <3>1, <3>2 DEF Pickers
    <3>4. Wears(n)'
      BY <3>1, Painted
    <3>5. picker' # Gone /\ picker # Gone /\ theme' = theme /\ running = "on"
      BY <2>2, <3>3, ThemeTexts DEF Move, Idle
    <3>6. Wears(picker.at)'
      BY <3>3, <3>4 DEF Wears, Lookup
    <3> QED BY <3>3, <3>5, <3>6 DEF Worn, Wears
  <2>3. CASE Esc
    BY <2>3, Painted DEF Esc, PutBack, Paint, Worn, Idle
  <2>4. CASE KeepTheme
    BY <2>4 DEF KeepTheme, Worn, Wears, Idle
  <2>5. CASE Tick
    <3>1. running = "on" /\ UNCHANGED <<running, theme, picker>>
      BY <2>5 DEF Tick, Idle
    <3>2. CASE UNCHANGED <<shown, unpainted>>
      BY <3>1, <3>2 DEF Worn, Wears
    <3>3. CASE /\ theme = Omarchy /\ shown' = [name |-> Omarchy, of |-> colours]
               /\ unpainted' = IF picker = Gone THEN FALSE ELSE picker.at # Omarchy
      <4>1. Wears(Omarchy)'
        BY <3>3, ThemeAssumption DEF Wears, Lookup
      <4>2. CASE picker = Gone
        BY <3>1, <3>3, <4>1, <4>2 DEF Worn, Wears
      <4>3. CASE picker # Gone
        BY <3>1, <3>3, <4>1, <4>3 DEF Worn, Wears
      <4> QED BY <4>2, <4>3
    <3> QED BY <2>5, <3>2, <3>3 DEF Tick
  <2>6. CASE Start
    BY <2>6, Painted DEF Start, Paint, Worn
  <2>7. CASE Begin
    BY <2>7 DEF Begin, Worn, Wears
  <2>8. CASE Quit \/ Crash
    BY <2>8 DEF Quit, Crash, Worn
  <2>9. CASE UNCHANGED window
    BY <2>9 DEF window, Worn, Wears
  <2> QED BY Steps, <2>1, <2>2, <2>3, <2>4, <2>5, <2>6, <2>7, <2>8, <2>9
          DEF Read, Create, Write, Rename, SetsToken, Repoints, Removed, Edit, vars, window
<1>3. Worn => KeptIsShown
  BY DEF Worn, KeptIsShown, Wears
<1> QED BY <1>1, <1>2, <1>3, KindsKept, PTL DEF Spec

-----------------------------------------------------------------------------
(* The watch.                                                              *)

\* Omarchy is watched by as many ticks as there are watches, and by one wherever
\* its theme is in effect, however often the picker goes to it and away again
\* within a tick (WatchOmarchy, Tick; themes.go:109).
THEOREM OneWatchAlways == Spec => []OneWatch
<1> DEFINE Watched == OneWatch /\ watching \in BOOLEAN /\ (running = "starting" => ~ watching /\ ticks = 0)
<1>1. Init => Watched
  BY DEF Init, OneWatch
<1>2. Watched /\ [Next]_vars => Watched'
  <2> SUFFICES ASSUME Watched, [Next]_vars PROVE Watched'
    OBVIOUS
  <2>1. ASSUME running' = "on", WatchOmarchy(theme') PROVE Watched'
    <3>1. CASE ~ watching /\ theme' = Omarchy
      <4>1. watching' = TRUE /\ ticks' = ticks + 1 /\ ticks = 0
        BY <2>1, <3>1 DEF WatchOmarchy, Follows, OneWatch
      <4> QED BY <2>1, <4>1 DEF OneWatch
    <3>2. CASE watching \/ theme' # Omarchy
      <4>1. watching' = watching /\ ticks' = ticks
        BY <2>1, <3>2 DEF WatchOmarchy, Follows
      <4> QED BY <2>1, <3>2, <4>1 DEF OneWatch
    <3> QED BY <3>1, <3>2
  <2>2. CASE KeepTheme
    <3>1. running' = "on"
      BY <2>2 DEF KeepTheme, Idle
    <3>2. WatchOmarchy(theme')
      BY <2>2 DEF KeepTheme, WatchOmarchy, Follows
    <3> QED BY <2>1, <3>1, <3>2
  <2>3. CASE Tick
    <3>1. running = "on" /\ running' = "on" /\ theme' = theme /\ ticks > 0
      BY <2>3 DEF Tick, Idle
    <3>2. watching /\ ticks = 1
      BY <3>1 DEF OneWatch
    <3>3. CASE theme # Omarchy
      <4>1. watching' = FALSE /\ ticks' = ticks - 1
        BY <2>3, <3>3 DEF Tick, Unfollow
      <4>2. ticks' = 0
        BY <3>2, <4>1
      <4>3. running' # "starting" /\ theme' # Omarchy
        BY <3>1, <3>3
      <4> QED BY <4>1, <4>2, <4>3 DEF OneWatch
    <3>4. CASE theme = Omarchy
      <4>1. watching' = watching /\ ticks' = ticks
        BY <2>3, <3>4 DEF Tick
      <4> QED BY <3>1, <3>2, <4>1 DEF OneWatch
    <3> QED BY <3>3, <3>4
  <2>6. CASE Begin
    <3>1. running' = "on" /\ theme' = theme /\ WatchOmarchy(theme)
      BY <2>6 DEF Begin
    <3>2. WatchOmarchy(theme')
      BY <3>1 DEF WatchOmarchy, Follows
    <3> QED BY <2>1, <3>1, <3>2
  <2>4. CASE Start \/ Quit \/ Crash
    BY <2>4 DEF Start, Quit, Crash, Close, OneWatch
  <2>5. CASE UNCHANGED <<running, theme, watching, ticks>>
    BY <2>5 DEF OneWatch
  <2> QED BY Steps, <2>2, <2>3, <2>4, <2>5, <2>6
          DEF OpenPicker, Move, Esc, Read, Create, Write, Rename, SetsToken, Repoints, Removed,
              Edit, vars, window
<1>3. Watched => OneWatch
  OBVIOUS
<1> QED BY <1>1, <1>2, <1>3, PTL DEF Spec

-----------------------------------------------------------------------------
(* The file.                                                               *)

Writing == saving # Gone /\ saving.at \in {"write", "rename"}

\* One file beside it while a save is writing, or as many more as were killed
\* then; and what is about to become the file is the file that was read, of
\* another theme.
Disk ==
    /\ stranded \in Nat /\ tmp = stranded + IF Writing THEN 1 ELSE 0
    /\ told # Gone => file # Gone /\ file.theme = told
    /\ saving # Gone /\ saving.at # "read" /\ ~ edited => saving.body = Rewritten(file, saving.name)

\* However often it is saved, edited or killed: the file is whole, is the one
\* said to be saved, and nothing else of it is changed (Replace, SetTheme,
\* keepTheme; safefile.go:16, write.go:12, themes.go:222).
THEOREM FileIsAsSaidAlways == Spec => FileIsAsSaid
<1>1. Init => Disk
  BY DEF Init, Disk, Writing
<1>2. Kinds /\ Disk /\ [Next]_vars => Disk'
  <2> SUFFICES ASSUME Kinds, Disk, [Next]_vars PROVE Disk'
    OBVIOUS
  <2>1. ASSUME NEW at \in {"write", "rename"}, saving # Gone, saving.at # "read",
               saving' = [saving EXCEPT !.at = at]
        PROVE  saving' # Gone /\ saving'.at = at /\ saving'.body = saving.body /\ saving'.name = saving.name
    <3>1. saving \in Saves
      BY <2>1 DEF Kinds
    <3>2. saving' \in Saves /\ saving'.at = at /\ saving'.body = saving.body /\ saving'.name = saving.name
      BY <2>1, <3>1 DEF Saves
    <3> QED BY <3>2, ThemeTexts
  <2>2. CASE KeepTheme
    <3>1. saving' = [at |-> "read", name |-> picker.at, body |-> Gone]
      BY <2>2 DEF KeepTheme
    <3>2. saving'.at = "read"
      BY <3>1
    <3> QED BY <2>2, <3>2 DEF KeepTheme, Idle, Disk, Writing
  <2>3. CASE Read
    <3>1. CASE saving' = [saving EXCEPT !.at = "create", !.body = Rewritten(file, saving.name)] /\ told' = told
      <4>1. saving \in Saves
        BY <2>3 DEF Read, Kinds
      <4>2. saving'.at = "create" /\ saving'.body = Rewritten(file, saving.name) /\ saving'.name = saving.name
        BY <3>1, <4>1 DEF Saves
      <4> QED BY <2>3, <3>1, <4>2 DEF Read, Disk, Writing, Rewritten
    <3>2. CASE saving' = Gone /\ told' = Gone
      BY <2>3, <3>2 DEF Read, Disk, Writing
    <3> QED BY <2>3, <3>1, <3>2 DEF Read
  <2>4. CASE Create
    <3>1. CASE saving' = [saving EXCEPT !.at = "write"] /\ Beside(tmp + 1) /\ told' = told
      BY <2>1, <2>4, <3>1 DEF Create, Beside, Disk, Writing, Rewritten
    <3>2. CASE saving' = Gone /\ Beside(tmp) /\ told' = Gone
      BY <2>4, <3>2 DEF Create, Beside, Disk, Writing
    <3> QED BY <2>4, <3>1, <3>2 DEF Create
  <2>5. CASE Write
    <3>1. CASE saving' = [saving EXCEPT !.at = "rename"] /\ Beside(tmp) /\ told' = told
      BY <2>1, <2>5, <3>1 DEF Write, Beside, Disk, Writing, Rewritten
    <3>2. CASE saving' = Gone /\ file' = file /\ RemoveTmp /\ told' = Gone
      BY <2>5, <3>2 DEF Write, RemoveTmp, Disk, Writing
    <3> QED BY <2>5, <3>1, <3>2 DEF Write
  <2>6. CASE Rename
    <3>1. CASE file' = saving.body /\ tmp' = tmp - 1 /\ Said(TRUE)
      <4>1. saving.body \in Texts /\ saving.body.theme = saving.name /\ saving.body # Gone
        BY <2>6, ThemeTexts DEF Rename, Kinds
      <4> QED BY <2>6, <3>1, <4>1 DEF Rename, Said, Disk, Writing
    <3>2. CASE file' = file /\ RemoveTmp /\ Said(FALSE)
      BY <2>6, <3>2 DEF Rename, RemoveTmp, Said, Disk, Writing
    <3> QED BY <2>6, <3>1, <3>2 DEF Rename
  <2>7. CASE Crash
    BY <2>7 DEF Crash, Close, Disk, Writing
  <2>8. CASE Edit
    BY <2>8 DEF Edit, window, Disk, Writing
  <2>9. CASE UNCHANGED <<disk>>
    BY <2>9 DEF disk, Disk, Writing, Rewritten
  <2> QED BY Steps, <2>2, <2>3, <2>4, <2>5, <2>6, <2>7, <2>8, <2>9
          DEF OpenPicker, Move, Esc, Tick, Start, Begin, Quit, SetsToken, Repoints, Removed, vars, disk
<1>3. Kinds /\ Disk => FileIsWhole /\ SaidIsSaved
  BY ThemeTexts DEF Kinds, Disk, Writing, FileIsWhole, SaidIsSaved
<1>4. Kinds /\ Disk /\ [Next]_vars =>
        [saving # Gone /\ file' # file /\ file # Gone /\ ~ edited /\ ~ edited'
            => file' = [file EXCEPT !.theme = saving.name]]_vars
  <2> SUFFICES ASSUME Kinds, Disk, [Next]_vars, file' # file, saving # Gone, file # Gone, ~ edited, ~ edited'
               PROVE  file' = [file EXCEPT !.theme = saving.name]
    OBVIOUS
  <2>1. CASE Rename
    BY <2>1 DEF Rename, Disk, Rewritten
  <2>2. CASE Edit
    BY <2>2 DEF Edit
  <2> QED BY Steps, <2>1, <2>2
          DEF OpenPicker, Move, Esc, KeepTheme, Tick, Read, Create, Write, Start, Begin, Quit, Crash,
              SetsToken, Repoints, Removed, Beside, vars, disk
<1> QED BY <1>1, <1>2, <1>3, <1>4, KindsKept, PTL DEF Spec, FileIsAsSaid, OnlyTheThemeChanges

-----------------------------------------------------------------------------
(* Orders and counts.                                                      *)

\* A set of numbers has a least.
LEMMA LeastOf ==
    ASSUME NEW T \in SUBSET Nat, T # {}
    PROVE  \E n \in T : \A m \in T : n <= m
<1>1. PICK n \in T : \A m \in T : ~ (<<m, n>> \in OpToRel(<, Nat))
  BY NatLessThanWellFounded, WFMin
<1>2. \A m \in T : ~ m < n
  BY <1>1 DEF OpToRel
<1> QED BY <1>2

\* The order of places is total, and two are never each before the other.
LEMMA PlacesInOrder ==
    /\ \A p, q \in Nat \X Nat : Upto(p, q) \/ Upto(q, p)
    /\ \A p, q \in Nat \X Nat : Upto(p, q) /\ Upto(q, p) => p = q
    /\ \A p, q, r \in Nat \X Nat : Upto(p, q) /\ Upto(q, r) => Upto(p, r)
<1>1. \A p \in Nat \X Nat : p = <<p[1], p[2]>> /\ p[1] \in Nat /\ p[2] \in Nat
  OBVIOUS
<1>2. \A p, q \in Nat \X Nat : Upto(p, q) \/ Upto(q, p)
  BY <1>1 DEF Upto
<1>3. ASSUME NEW p \in Nat \X Nat, NEW q \in Nat \X Nat, Upto(p, q), Upto(q, p) PROVE p = q
  <2>1. p[1] = q[1] /\ p[2] = q[2]
    BY <1>1, <1>3 DEF Upto
  <2> QED BY <1>1, <2>1
<1>4. \A p, q, r \in Nat \X Nat : Upto(p, q) /\ Upto(q, r) => Upto(p, r)
  BY <1>1 DEF Upto
<1> QED BY <1>2, <1>3, <1>4

\* The first of a set of places is one of them.
LEMMA ForemostIs ==
    ASSUME NEW ps \in SUBSET (Nat \X Nat), ps # {}
    PROVE  Foremost(ps) \in ps /\ \A q \in ps : Upto(Foremost(ps), q)
<1> DEFINE I == {p[1] : p \in ps}
<1>1. I \in SUBSET Nat /\ I # {}
  OBVIOUS
<1>2. PICK i \in I : \A m \in I : i <= m
  BY <1>1, LeastOf
<1> DEFINE J == {p[2] : p \in {q \in ps : q[1] = i}}
<1>3. J \in SUBSET Nat /\ J # {}
  BY <1>2
<1>4. PICK j \in J : \A m \in J : j <= m
  BY <1>3, LeastOf
<1>5. PICK p \in ps : p[1] = i /\ p[2] = j
  BY <1>4
<1>6. \A q \in ps : i <= q[1] /\ (q[1] = i => j <= q[2])
  BY <1>2, <1>4
<1>7. \A q \in ps : q[1] \in Nat /\ q[2] \in Nat
  OBVIOUS
<1>8. \A q \in ps : Upto(p, q)
  BY <1>5, <1>6, <1>7 DEF Upto
<1> QED BY <1>8 DEF Foremost

\* So is the last of them, where there is no end of them.
LEMMA NearestIs ==
    ASSUME NEW p0 \in Nat \X Nat, NEW ps \in SUBSET (Nat \X Nat), ps # {}, \A q \in ps : Upto(q, p0),
           NEW m \in Nat, \A q \in ps : q[2] <= m
    PROVE  Nearest(ps) \in ps /\ \A q \in ps : Upto(q, Nearest(ps))
<1>0. \A q \in ps \cup {p0} : q[1] \in Nat /\ q[2] \in Nat
  OBVIOUS
<1>a. \A q \in ps : q[1] <= p0[1] /\ q[2] <= m
  BY <1>0 DEF Upto
<1> DEFINE I == {p0[1] - p[1] : p \in ps}
<1>1. I \in SUBSET Nat /\ I # {}
  BY <1>0, <1>a
<1>2. PICK i \in I : \A k \in I : i <= k
  BY <1>1, LeastOf
<1>b. PICK r \in ps : i = p0[1] - r[1]
  BY <1>2
<1> DEFINE J == {m - p[2] : p \in {q \in ps : q[1] = r[1]}}
<1>3. J \in SUBSET Nat /\ J # {}
  BY <1>0, <1>a, <1>b
<1>4. PICK j \in J : \A k \in J : j <= k
  BY <1>3, LeastOf
<1>5. PICK p \in ps : p[1] = r[1] /\ j = m - p[2]
  BY <1>4
<1>6. \A q \in ps : i <= p0[1] - q[1]
  BY <1>2
<1>7. \A q \in ps : q[1] = r[1] => j <= m - q[2]
  BY <1>4
<1>8. ASSUME NEW q \in ps PROVE Upto(q, p)
  <2>1. q[1] <= p[1]
    BY <1>0, <1>b, <1>5, <1>6
  <2>2. q[1] = p[1] => q[2] <= p[2]
    BY <1>0, <1>5, <1>7
  <2> QED BY <1>0, <2>1, <2>2 DEF Upto
<1> QED BY <1>8 DEF Nearest

\* The members of a set of numbers are numbered by how many come up to each.
Rank(S, i) == Cardinality({j \in S : j <= i})

LEMMA Ranks ==
    ASSUME NEW S \in SUBSET Nat, IsFiniteSet(S)
    PROVE  /\ Cardinality(S) \in Nat
           /\ \A n \in 1..Cardinality(S) : \E i \in S : Rank(S, i) = n
<1>1. Cardinality(S) \in Nat
  BY FS_CardinalityType
<1> DEFINE B(i) == {j \in S : j <= i}
<1>2. ASSUME NEW i \in S PROVE IsFiniteSet(B(i)) /\ Rank(S, i) \in 1..Cardinality(S)
  <2>1. B(i) \in SUBSET S /\ i \in B(i)
    OBVIOUS
  <2>2. IsFiniteSet(B(i)) /\ Cardinality(B(i)) <= Cardinality(S)
    BY <2>1, FS_Subset
  <2>3. Cardinality(B(i)) \in Nat /\ Cardinality(B(i)) # 0
    BY <2>1, <2>2, FS_CardinalityType, FS_EmptySet
  <2> QED BY <1>1, <2>2, <2>3 DEF Rank
<1>3. ASSUME NEW h \in S, NEW k \in S, h < k PROVE Rank(S, h) < Rank(S, k)
  <2>0. \A j \in S : (j <= h => j <= k) /\ ~ k <= h /\ k <= k
    BY <1>3
  <2>1. B(h) \in SUBSET B(k) /\ k \in B(k) /\ k \notin B(h)
    BY <2>0
  <2>2. Cardinality(B(h)) <= Cardinality(B(k)) /\ Cardinality(B(h)) # Cardinality(B(k))
    <3>1. IsFiniteSet(B(k))
      BY <1>2
    <3> HIDE DEF B
    <3> QED BY <2>1, <3>1, FS_Subset
  <2> QED BY <1>2, <2>2 DEF Rank
<1> DEFINE T == 1..Cardinality(S)
           f == [i \in S |-> Rank(S, i)]
<1>4. IsFiniteSet(T) /\ Cardinality(T) = Cardinality(S)
  BY <1>1, FS_Interval
<1>5. f \in [S -> T]
  BY <1>2
<1>6. ASSUME NEW h \in S, NEW k \in S, f[h] = f[k] PROVE h = k
  <2>0. f[h] = Rank(S, h) /\ f[k] = Rank(S, k)
    OBVIOUS
  <2>a. Rank(S, h) \in Nat /\ Rank(S, k) \in Nat
    <3>1. Rank(S, h) \in 1..Cardinality(S) /\ Rank(S, k) \in 1..Cardinality(S)
      BY <1>2
    <3> QED BY <1>1, <3>1
  <2>1. Rank(S, h) = Rank(S, k)
    BY <1>6, <2>0
  <2>2. ~ h < k /\ ~ k < h
    BY <1>3, <2>a, <2>1
  <2> QED BY <2>2
<1>7. f \in Injection(S, T)
  BY <1>5, <1>6 DEF Injection, IsInjective
<1>8. f \in Surjection(S, T)
  BY <1>4, <1>7, FS_Injection
<1> QED BY <1>1, <1>8 DEF Surjection

-----------------------------------------------------------------------------
(* The block, and what lies outside it.                                    *)

FileItems == Items \cup {BlockStart, BlockEnd} \cup {Entry(h) : h \in HostChoice}
Bodies    == Seq({x \in FileItems : ~ IsMark(x)})

LEMMA ItemKinds ==
    /\ \A x \in FileItems : Sets(x) \/ x.kind = "include" \/ x \in {BlockStart, BlockEnd}
    /\ \A x : Sets(x) => ~ IsMark(x) /\ x.kind # "include"
    /\ \A x : x.kind = "include" => ~ IsMark(x) /\ ~ Sets(x)
    /\ IsMark(BlockStart) /\ IsMark(BlockEnd) /\ BlockStart # BlockEnd
    /\ BlockStart.kind # "include" /\ BlockEnd.kind # "include"
    /\ ~ Sets(BlockStart) /\ ~ Sets(BlockEnd)
    /\ \A h : LET e == Entry(h) IN e.kind = "host" /\ e.on = {h.name} /\ e.not = {} /\ Sets(e) /\ IsLine(e)
<1>1. \A h : LET e == Entry(h) IN e.kind = "host" /\ e.on = {h.name} /\ e.not = {}
  BY DEF Entry
<1>2. \A h : Sets(Entry(h)) /\ IsLine(Entry(h))
  BY <1>1 DEF Sets, IsLine
<1>3. BlockStart.kind = "start" /\ BlockEnd.kind = "end"
  BY DEF BlockStart, BlockEnd
<1> QED BY <1>1, <1>2, <1>3, SSHConfigAssumption DEF FileItems, Sets, IsLine, IsMark

\* What lies outside the markers is of the file, and has no marker in it.
LEMMA StripIsOwn ==
    ASSUME NEW T, NEW f \in Seq(T)
    PROVE  StripBlock(f) \in Seq({x \in T : ~ IsMark(x)})
<1> DEFINE S == UsersOwn(f)
<1>0. Len(f) \in Nat /\ \A i \in 1..Len(f) : f[i] \in T
  BY LenProperties
<1>1. S \in SUBSET (1..Len(f)) /\ \A i \in S : f[i] \in {x \in T : ~ IsMark(x)}
  BY <1>0 DEF UsersOwn
<1>2. S \in SUBSET Nat /\ IsFiniteSet(S)
  <2>1. IsFiniteSet(1..Len(f)) /\ 1..Len(f) \in SUBSET Nat
    BY <1>0, FS_Interval
  <2> QED BY <1>1, <2>1, FS_Subset
<1>3. Cardinality(S) \in Nat /\ \A n \in 1..Cardinality(S) : \E i \in S : Rank(S, i) = n
  <2> HIDE DEF S
  <2> QED BY <1>2, Ranks
<1> DEFINE e(n) == f[CHOOSE i \in S : Cardinality({j \in S : j <= i}) = n]
<1>4. \A n \in 1..Cardinality(S) : e(n) \in {x \in T : ~ IsMark(x)}
  <2> TAKE n \in 1..Cardinality(S)
  <2>1. \E i \in S : Cardinality({j \in S : j <= i}) = n
    BY <1>3 DEF Rank
  <2>2. (CHOOSE i \in S : Cardinality({j \in S : j <= i}) = n) \in S
    BY <2>1
  <2> HIDE DEF S
  <2> QED BY <1>1, <2>2
<1>5. [n \in 1..Cardinality(S) |-> e(n)] \in Seq({x \in T : ~ IsMark(x)})
  <2> HIDE DEF S, e
  <2> QED BY <1>3, <1>4, IsASeq
<1> QED BY <1>5 DEF StripBlock

\* Where everything is in a file that was exported.
LEMMA Layout ==
    ASSUME NEW T, BlockStart \in T, BlockEnd \in T,
           NEW kept \in Seq(HostChoice), \A h \in HostChoice : Entry(h) \in T, NEW body \in Seq(T)
    PROVE  LET c == Composed(kept, body) IN
           /\ Len(kept) \in Nat /\ Len(body) \in Nat
           /\ c \in Seq(T) /\ Len(c) = Len(kept) + 2 + Len(body)
           /\ c[1] = BlockStart /\ c[Len(kept) + 2] = BlockEnd
           /\ \A i \in 1..Len(kept) : kept[i] \in HostChoice /\ c[i + 1] = Entry(kept[i])
           /\ \A j \in 1..Len(body) : c[Len(kept) + 2 + j] = body[j]
<1> DEFINE k == Len(kept)
           es == [i \in 1..k |-> Entry(kept[i])]
           a == <<BlockStart>> \o es
           b == a \o <<BlockEnd>>
           c == b \o body
<1>1. k \in Nat /\ Len(body) \in Nat /\ \A i \in 1..k : kept[i] \in HostChoice
  BY LenProperties
<1>2. es \in Seq(T) /\ Len(es) = k /\ \A i \in 1..k : es[i] = Entry(kept[i])
  <2>1. \A i \in 1..k : Entry(kept[i]) \in T
    BY <1>1
  <2>2. es \in Seq(T)
    BY <1>1, <2>1
  <2> QED BY <1>1, <2>2
<1>3. /\ <<BlockStart>> \in Seq(T) /\ Len(<<BlockStart>>) = 1 /\ <<BlockStart>>[1] = BlockStart
      /\ <<BlockEnd>> \in Seq(T) /\ Len(<<BlockEnd>>) = 1 /\ <<BlockEnd>>[1] = BlockEnd
  OBVIOUS
<1>4. /\ a \in Seq(T) /\ Len(a) = k + 1
      /\ \A i \in 1..(k + 1) : a[i] = IF i <= 1 THEN <<BlockStart>>[i] ELSE es[i - 1]
  <2> HIDE DEF es, k
  <2>1. /\ a \in Seq(T) /\ Len(a) = 1 + k
        /\ \A i \in 1..(1 + k) : a[i] = IF i <= 1 THEN <<BlockStart>>[i] ELSE es[i - 1]
    BY <1>2, <1>3, ConcatProperties
  <2> QED BY <1>1, <2>1
<1>5. /\ b \in Seq(T) /\ Len(b) = k + 2
      /\ \A i \in 1..(k + 2) : b[i] = IF i <= k + 1 THEN a[i] ELSE <<BlockEnd>>[i - (k + 1)]
  <2> HIDE DEF a, k
  <2>1. /\ b \in Seq(T) /\ Len(b) = k + 1 + 1
        /\ \A i \in 1..(k + 1 + 1) : b[i] = IF i <= k + 1 THEN a[i] ELSE <<BlockEnd>>[i - (k + 1)]
    BY <1>3, <1>4, ConcatProperties
  <2> QED BY <1>1, <2>1
<1>6. /\ c \in Seq(T) /\ Len(c) = k + 2 + Len(body)
      /\ \A i \in 1..(k + 2 + Len(body)) : c[i] = IF i <= k + 2 THEN b[i] ELSE body[i - (k + 2)]
  <2> HIDE DEF b, k
  <2> QED BY <1>5, ConcatProperties
<1>7. c = Composed(kept, body)
  BY DEF Composed, Block
<1> HIDE DEF a, b, c, es, k
<1>8. c[1] = BlockStart
  <2>1. 1 \in 1..(k + 2 + Len(body)) /\ 1 \in 1..(k + 2) /\ 1 \in 1..(k + 1) /\ 1 <= k + 1 /\ 1 <= k + 2
    BY <1>1
  <2>2. c[1] = b[1]
    BY <1>6, <2>1
  <2>3. b[1] = a[1]
    BY <1>5, <2>1
  <2>4. a[1] = <<BlockStart>>[1]
    BY <1>4, <2>1
  <2> QED BY <1>3, <2>2, <2>3, <2>4
<1>9. c[k + 2] = BlockEnd
  BY <1>1, <1>3, <1>5, <1>6
<1>10. ASSUME NEW i \in 1..k PROVE c[i + 1] = Entry(kept[i])
  <2>1. i + 1 \in 1..(k + 2 + Len(body)) /\ i + 1 \in 1..(k + 1) /\ i + 1 \in 1..(k + 2) /\ ~ i + 1 <= 1 /\ (i + 1) - 1 = i
    BY <1>1
  <2>2. c[i + 1] = b[i + 1] /\ b[i + 1] = a[i + 1] /\ a[i + 1] = es[i]
    BY <1>1, <1>4, <1>5, <1>6, <2>1
  <2> QED BY <1>2, <2>2
<1>11. ASSUME NEW j \in 1..Len(body) PROVE c[k + 2 + j] = body[j]
  <2>1. k + 2 + j \in 1..(k + 2 + Len(body)) /\ ~ k + 2 + j <= k + 2 /\ (k + 2 + j) - (k + 2) = j
    BY <1>1
  <2> QED BY <1>6, <2>1
<1> QED BY <1>1, <1>6, <1>7, <1>8, <1>9, <1>10, <1>11 DEF k

\* There are two markers in it, and what lies outside them is what was put there.
LEMMA ComposedHolds ==
    ASSUME NEW kept \in Seq(HostChoice), NEW body \in Bodies
    PROVE  LET c == Composed(kept, body) IN
           Paired(c) /\ MarksBefore(c, Len(c)) = 2 /\ StripBlock(c) = body /\ c \in Seq(FileItems)
<1> DEFINE c == Composed(kept, body)
           k == Len(kept)
           n == Len(body)
<1>0. /\ BlockStart \in FileItems /\ BlockEnd \in FileItems /\ \A h \in HostChoice : Entry(h) \in FileItems
      /\ body \in Seq(FileItems) /\ n \in Nat /\ \A j \in 1..n : ~ IsMark(body[j])
  BY DEF FileItems, Bodies
<1>1. /\ k \in Nat /\ n \in Nat /\ c \in Seq(FileItems) /\ Len(c) = k + 2 + n
      /\ c[1] = BlockStart /\ c[k + 2] = BlockEnd
      /\ \A i \in 1..k : c[i + 1] = Entry(kept[i])
      /\ \A j \in 1..n : c[k + 2 + j] = body[j]
  BY <1>0, Layout
<1> HIDE DEF c, k, n
<1>2. \A i \in 1..(k + 2 + n) : i = 1 \/ i = k + 2 \/ (\E j \in 1..k : i = j + 1) \/ (\E j \in 1..n : i = k + 2 + j)
  <2> TAKE i \in 1..(k + 2 + n)
  <2>1. CASE i <= k + 2
    <3>1. i = 1 \/ i = k + 2 \/ (i - 1 \in 1..k /\ i = (i - 1) + 1)
      BY <1>1, <2>1
    <3> QED BY <3>1
  <2>2. CASE ~ i <= k + 2
    <3>1. i - (k + 2) \in 1..n /\ i = k + 2 + (i - (k + 2))
      BY <1>1, <2>2
    <3> QED BY <3>1
  <2> QED BY <2>1, <2>2
<1>3. \A i \in 1..(k + 2 + n) : IsMark(c[i]) <=> i \in {1, k + 2}
  <2>1. ASSUME NEW j \in 1..k PROVE ~ IsMark(c[j + 1]) /\ j + 1 \notin {1, k + 2}
    <3>1. ~ IsMark(Entry(kept[j]))
      BY ItemKinds
    <3> QED BY <1>1, <3>1
  <2>2. ASSUME NEW j \in 1..n PROVE ~ IsMark(c[k + 2 + j]) /\ k + 2 + j \notin {1, k + 2}
    <3>1. ~ IsMark(body[j]) /\ c[k + 2 + j] = body[j]
      BY <1>0, <1>1
    <3>2. k + 2 + j # 1 /\ k + 2 + j # k + 2
      BY <1>1
    <3> QED BY <3>1, <3>2
  <2>3. IsMark(c[1]) /\ IsMark(c[k + 2])
    BY <1>1, ItemKinds
  <2> QED BY <1>2, <2>1, <2>2, <2>3
<1>4. \A i \in 1..(k + 2 + n) : MarksBefore(c, i) = IF i < k + 2 THEN 1 ELSE 2
  <2> TAKE i \in 1..(k + 2 + n)
  <2>1. CASE i < k + 2
    <3>1. {j \in 1..i : IsMark(c[j])} = {1}
      BY <1>1, <1>3, <2>1
    <3>2. Cardinality({1}) = 1
      BY FS_Singleton
    <3> QED BY <2>1, <3>1, <3>2 DEF MarksBefore
  <2>2. CASE ~ i < k + 2
    <3>1. {j \in 1..i : IsMark(c[j])} = {1} \cup {k + 2}
      BY <1>1, <1>3, <2>2
    <3>2. Cardinality({1} \cup {k + 2}) = 2
      <4>1. IsFiniteSet({1}) /\ Cardinality({1}) = 1
        BY FS_Singleton
      <4>2. k + 2 \notin {1} /\ 1 + 1 = 2
        BY <1>1
      <4> QED BY <4>1, <4>2, FS_AddElement
    <3> QED BY <2>2, <3>1, <3>2 DEF MarksBefore
  <2> QED BY <2>1, <2>2
<1>5. MarksBefore(c, Len(c)) = 2
  BY <1>1, <1>4
<1>6. Paired(c)
  <2>1. 1 % 2 = 1 /\ 2 % 2 = 0
    OBVIOUS
  <2>2. ASSUME NEW i \in 1..Len(c), IsMark(c[i])
        PROVE  (c[i] = BlockStart) = (MarksBefore(c, i) % 2 = 1)
    <3>1. i \in 1..(k + 2 + n) /\ i \in {1, k + 2}
      BY <1>1, <1>3, <2>2
    <3>2. CASE i = 1
      <4>1. MarksBefore(c, i) = 1
        BY <1>1, <1>4, <3>1, <3>2
      <4> QED BY <1>1, <2>1, <3>2, <4>1
    <3>3. CASE i = k + 2
      <4>1. MarksBefore(c, i) = 2
        BY <1>1, <1>4, <3>1, <3>3
      <4> QED BY <1>1, <2>1, <3>3, <4>1, ItemKinds
    <3> QED BY <3>1, <3>2, <3>3
  <2> QED BY <1>5, <2>1, <2>2 DEF Paired
<1> DEFINE S == UsersOwn(c)
<1>7. S = (k + 3)..(k + 2 + n)
  <2>1. 1 % 2 = 1 /\ 2 % 2 = 0
    OBVIOUS
  <2>2. \A i \in 1..(k + 2 + n) : (~ IsMark(c[i]) /\ MarksBefore(c, i) % 2 = 0) <=> i >= k + 3
    <3> TAKE i \in 1..(k + 2 + n)
    <3>1. CASE i < k + 2
      BY <1>1, <1>4, <2>1, <3>1
    <3>2. CASE i = k + 2
      BY <1>1, <1>3, <3>2
    <3>3. CASE i > k + 2
      <4>1. MarksBefore(c, i) = 2 /\ ~ IsMark(c[i])
        BY <1>1, <1>3, <1>4, <3>3
      <4> QED BY <1>1, <2>1, <3>3, <4>1
    <3> QED BY <1>1, <3>1, <3>2, <3>3
  <2> QED BY <1>1, <2>2 DEF UsersOwn
<1>8. Cardinality(S) = n
  <2>1. k + 3 \in Int /\ k + 2 + n \in Int
    BY <1>1
  <2>2. Cardinality((k + 3)..(k + 2 + n)) = IF k + 3 > k + 2 + n THEN 0 ELSE (k + 2 + n) - (k + 3) + 1
    BY <2>1, FS_Interval
  <2> QED BY <1>1, <1>7, <2>2
<1>9. \A i \in S : Cardinality({j \in S : j <= i}) = i - (k + 2)
  <2> TAKE i \in S
  <2>1. {j \in S : j <= i} = (k + 3)..i
    BY <1>1, <1>7
  <2>2. Cardinality((k + 3)..i) = i - (k + 2)
    BY <1>1, <1>7, FS_Interval
  <2> QED BY <2>1, <2>2
<1>10. ASSUME NEW m \in 1..n PROVE c[CHOOSE i \in S : Cardinality({j \in S : j <= i}) = m] = body[m]
  <2>1. k + 2 + m \in S /\ (k + 2 + m) - (k + 2) = m
    BY <1>1, <1>7
  <2>2. \E i \in S : Cardinality({j \in S : j <= i}) = m
    BY <1>9, <2>1
  <2> DEFINE i == CHOOSE i \in S : Cardinality({j \in S : j <= i}) = m
  <2>3. i \in S /\ Cardinality({j \in S : j <= i}) = m
    BY <2>2
  <2> HIDE DEF i
  <2>4. i - (k + 2) = m
    BY <1>9, <2>3
  <2>5. i \in Nat /\ m \in Nat
    BY <1>1, <1>7, <2>3
  <2>6. i = k + 2 + m
    BY <1>1, <2>4, <2>5
  <2> QED BY <1>1, <2>6 DEF i
<1>11. StripBlock(c) = body
  <2>1. StripBlock(c) = [m \in 1..n |-> body[m]]
    <3>1. StripBlock(c) = [m \in 1..n |-> c[CHOOSE i \in S : Cardinality({j \in S : j <= i}) = m]]
      BY <1>8 DEF StripBlock
    <3> HIDE DEF S
    <3> QED BY <1>10, <3>1
  <2>2. body \in [1..n -> FileItems]
    BY <1>0, LenProperties DEF n
  <2> QED BY <2>1, <2>2
<1> QED BY <1>1, <1>5, <1>6, <1>11 DEF c

-----------------------------------------------------------------------------
(* What is read where.                                                     *)

LEMMA PlacesAre ==
    ASSUME NEW f, Len(f) \in Nat
    PROVE  /\ Places(f) \in SUBSET (Nat \X Nat)
           /\ \A p \in Places(f) : p = <<p[1], p[2]>> /\ p[1] \in 1..Len(f) /\ p[2] \in 0..Len(Included)
           /\ \A i \in 1..Len(f) : f[i].kind # "include" => <<i, 0>> \in Places(f) /\ At(f, <<i, 0>>) = f[i]
           /\ \A p \in Places(f) : p[2] = 0 => At(f, p) = f[p[1]]
<1>1. Len(Included) \in Nat
  BY SSHConfigAssumption
<1>2. Places(f) \in SUBSET (Nat \X Nat)
  BY <1>1 DEF Places
<1>3. \A p \in Places(f) : p = <<p[1], p[2]>> /\ p[1] \in 1..Len(f) /\ p[2] \in 0..Len(Included)
  BY DEF Places
<1>4. \A i \in 1..Len(f) : f[i].kind # "include" => <<i, 0>> \in Places(f) /\ At(f, <<i, 0>>) = f[i]
  BY <1>1 DEF Places, At
<1>5. \A p \in Places(f) : p[2] = 0 => At(f, p) = f[p[1]]
  BY DEF At
<1> QED BY <1>2, <1>3, <1>4, <1>5

\* Of the lines above a place, any of them, there is a nearest.
LEMMA LinesAre ==
    ASSUME NEW f, Len(f) \in Nat, NEW p \in Places(f), NEW ls \in SUBSET LinesAbove(f, p), ls # {}
    PROVE  /\ ls \in SUBSET Places(f) /\ Nearest(ls) \in ls
           /\ \A q \in ls : Upto(q, Nearest(ls)) /\ IsLine(At(f, q)) /\ Upto(q, p)
<1>1. Places(f) \in SUBSET (Nat \X Nat) /\ \A q \in Places(f) : q[2] \in 0..Len(Included)
  BY PlacesAre
<1>2. Len(Included) \in Nat
  BY SSHConfigAssumption
<1>3. ls \in SUBSET Places(f) /\ \A q \in ls : IsLine(At(f, q)) /\ Upto(q, p)
  BY DEF LinesAbove
<1>4. ls \in SUBSET (Nat \X Nat) /\ p \in Nat \X Nat /\ \A q \in ls : q[2] <= Len(Included)
  BY <1>1, <1>2, <1>3
<1>5. Nearest(ls) \in ls /\ \A q \in ls : Upto(q, Nearest(ls))
  BY <1>2, <1>3, <1>4, NearestIs
<1> QED BY <1>3, <1>5

\* A line of the file itself is read for whom it is for.
LEMMA LinesAreRead ==
    ASSUME NEW f, Len(f) \in Nat, NEW i \in 1..Len(f), IsLine(f[i]), NEW a
    PROVE  /\ <<i, 0>> \in Places(f) /\ At(f, <<i, 0>>) = f[i]
           /\ SshReads(f, <<i, 0>>, a) <=> Matches(f[i], a)
<1> DEFINE p == <<i, 0>>
           ls == {q \in LinesAbove(f, p) : q[2] = 0}
           ms == {q \in LinesAbove(f, p) : q[2] # 0 /\ q[1] = p[1]}
<1>1. f[i].kind # "include" /\ Sets(f[i])
  BY DEF IsLine, Sets
<1>2. p \in Places(f) /\ At(f, p) = f[i] /\ p \in Nat \X Nat
  BY <1>1, PlacesAre
<1>3. p \in ls
  <2>1. Upto(p, p)
    BY DEF Upto
  <2> QED BY <1>2, <2>1 DEF LinesAbove
<1>4. Nearest(ls) = p
  <2>0. ls \in SUBSET LinesAbove(f, p) /\ ls # {}
    BY <1>3
  <2>a. /\ ls \in SUBSET Places(f) /\ Nearest(ls) \in ls
        /\ \A q \in ls : Upto(q, Nearest(ls)) /\ IsLine(At(f, q)) /\ Upto(q, p)
    <3> HIDE DEF ls, p
    <3> QED BY <1>2, <2>0, LinesAre
  <2>1. Nearest(ls) \in ls /\ Upto(p, Nearest(ls)) /\ Upto(Nearest(ls), p) /\ ls \in SUBSET Places(f)
    BY <1>3, <2>a
  <2>2. Nearest(ls) \in Nat \X Nat
    BY <2>1, PlacesAre
  <2> HIDE DEF ls, p
  <2> QED BY <1>2, <2>1, <2>2, PlacesInOrder
<1>5. ms = {}
  <2>1. ASSUME NEW q \in ms PROVE FALSE
    <3>1. q \in Places(f) /\ Upto(q, p) /\ q[2] # 0 /\ q[1] = i
      BY DEF LinesAbove
    <3>2. q[2] \in 0..Len(Included) /\ q[1] \in 1..Len(f)
      BY <3>1, PlacesAre
    <3>3. q[2] <= 0
      BY <3>1, <3>2 DEF Upto
    <3> QED BY <3>1, <3>2, <3>3
  <2> QED BY <2>1
<1>6. Stands(f, ms, a)
  BY <1>5 DEF Stands
<1>7. Stands(f, ls, a) <=> Matches(f[i], a)
  <2> HIDE DEF ls, p
  <2> QED BY <1>2, <1>3, <1>4 DEF Stands
<1> QED BY <1>1, <1>2, <1>6, <1>7 DEF SshReads

\* What stands further down a file.
Moved(d, p)   == <<p[1] + d, p[2]>>
AllMoved(d, ps) == {Moved(d, p) : p \in ps}

LEMMA MovedIs ==
    ASSUME NEW d \in Nat
    PROVE  /\ \A p \in Nat \X Nat : Moved(d, p) \in Nat \X Nat /\ Moved(d, p)[1] = p[1] + d /\ Moved(d, p)[2] = p[2]
           /\ \A p, q \in Nat \X Nat : Upto(Moved(d, p), Moved(d, q)) <=> Upto(p, q)
           /\ \A p, q \in Nat \X Nat : Moved(d, p) = Moved(d, q) => p = q
<1>1. \A p \in Nat \X Nat : p = <<p[1], p[2]>> /\ p[1] \in Nat /\ p[2] \in Nat
  OBVIOUS
<1>2. \A p \in Nat \X Nat : Moved(d, p) \in Nat \X Nat /\ Moved(d, p)[1] = p[1] + d /\ Moved(d, p)[2] = p[2]
  BY <1>1 DEF Moved
<1>3. ASSUME NEW p \in Nat \X Nat, NEW q \in Nat \X Nat PROVE Upto(Moved(d, p), Moved(d, q)) <=> Upto(p, q)
  <2>1. (p[1] + d < q[1] + d <=> p[1] < q[1]) /\ (p[1] + d = q[1] + d <=> p[1] = q[1])
    BY <1>1
  <2> QED BY <1>2, <2>1 DEF Upto
<1>4. ASSUME NEW p \in Nat \X Nat, NEW q \in Nat \X Nat, Moved(d, p) = Moved(d, q) PROVE p = q
  <2>1. p[1] + d = q[1] + d /\ p[2] = q[2]
    BY <1>2, <1>4
  <2> QED BY <1>1, <2>1
<1> QED BY <1>2, <1>3, <1>4

LEMMA ForemostMoved ==
    ASSUME NEW d \in Nat, NEW ps \in SUBSET (Nat \X Nat), ps # {}
    PROVE  Foremost(AllMoved(d, ps)) = Moved(d, Foremost(ps))
<1> DEFINE qs == AllMoved(d, ps)
<1>1. qs \in SUBSET (Nat \X Nat) /\ qs # {}
  <2>1. \A p \in ps : Moved(d, p) \in Nat \X Nat
    BY MovedIs
  <2> QED BY <2>1 DEF AllMoved
<1>2. Foremost(ps) \in ps /\ \A q \in ps : Upto(Foremost(ps), q)
  BY ForemostIs
<1>3. Foremost(qs) \in qs /\ \A q \in qs : Upto(Foremost(qs), q)
  <2> HIDE DEF qs
  <2> QED BY <1>1, ForemostIs
<1>4. PICK r \in ps : Foremost(qs) = Moved(d, r)
  BY <1>3 DEF AllMoved
<1>5. Upto(Moved(d, r), Moved(d, Foremost(ps)))
  BY <1>2, <1>3, <1>4 DEF AllMoved
<1>6. Upto(r, Foremost(ps)) /\ Upto(Foremost(ps), r)
  BY <1>2, <1>5, MovedIs
<1>7. r = Foremost(ps)
  BY <1>2, <1>6, PlacesInOrder
<1> QED BY <1>4, <1>7

\* What is above them all does not come nearest.
LEMMA NearestMoved ==
    ASSUME NEW d \in Nat, NEW ps \in SUBSET (Nat \X Nat), NEW qs \in SUBSET (Nat \X Nat),
           ps # {}, Nearest(ps) \in ps, \A p \in ps : Upto(p, Nearest(ps)) /\ p[1] > 0,
           Nearest(qs) \in qs, \A q \in qs : Upto(q, Nearest(qs)),
           AllMoved(d, ps) \subseteq qs, \A q \in qs : q \in AllMoved(d, ps) \/ q[1] <= d
    PROVE  Nearest(qs) = Moved(d, Nearest(ps))
<1> DEFINE n == Nearest(ps)
           m == Nearest(qs)
<1>1. Moved(d, n) \in qs /\ Moved(d, n)[1] = n[1] + d /\ n[1] > 0 /\ n \in Nat \X Nat
  BY MovedIs DEF AllMoved
<1>2. Upto(Moved(d, n), m) /\ Moved(d, n) \in Nat \X Nat /\ m \in Nat \X Nat
  BY <1>1
<1>3. m[1] >= n[1] + d /\ m[1] \in Nat /\ n[1] \in Nat
  BY <1>1, <1>2 DEF Upto
<1>4. PICK r \in ps : m = Moved(d, r)
  <2>1. ~ m[1] <= d
    BY <1>1, <1>3
  <2> QED BY <2>1 DEF AllMoved
<1>5. Upto(n, r) /\ Upto(r, n)
  BY <1>1, <1>2, <1>4, MovedIs
<1>6. n = r
  BY <1>1, <1>5, PlacesInOrder
<1> QED BY <1>4, <1>6

-----------------------------------------------------------------------------
(* What is read of a file that was exported.                               *)

\* A file with nothing in it before its first line.
StartsWithALine(f) == f = <<>> \/ IsLine(f[1])

\* The places of the block, and those of the rest, further down.
LEMMA PlacesComposed ==
    ASSUME NEW kept \in Seq(HostChoice), NEW body \in Bodies
    PROVE  LET c == Composed(kept, body) d == Len(kept) + 2 IN
           /\ d \in Nat /\ d >= 2 /\ Len(c) \in Nat /\ Len(body) \in Nat /\ Len(kept) \in Nat
           /\ \A p \in Places(body) : Moved(d, p) \in Places(c) /\ At(c, Moved(d, p)) = At(body, p)
           /\ \A i \in 1..Len(kept) : /\ kept[i] \in HostChoice /\ <<i + 1, 0>> \in Places(c)
                                      /\ At(c, <<i + 1, 0>>) = Entry(kept[i])
           /\ \A q \in Places(c) : \/ q \in {<<1, 0>>, <<d, 0>>} /\ At(c, q) \in {BlockStart, BlockEnd}
                                   \/ \E i \in 1..Len(kept) : q = <<i + 1, 0>>
                                   \/ \E p \in Places(body) : q = Moved(d, p)
<1> DEFINE c == Composed(kept, body)
           k == Len(kept)
           n == Len(body)
           d == k + 2
<1>0. /\ BlockStart \in FileItems /\ BlockEnd \in FileItems /\ \A h \in HostChoice : Entry(h) \in FileItems
      /\ body \in Seq(FileItems)
  BY DEF FileItems, Bodies
<1>1. /\ k \in Nat /\ n \in Nat /\ Len(c) = k + 2 + n
      /\ c[1] = BlockStart /\ c[k + 2] = BlockEnd
      /\ \A i \in 1..k : kept[i] \in HostChoice /\ c[i + 1] = Entry(kept[i])
      /\ \A j \in 1..n : c[k + 2 + j] = body[j]
  BY <1>0, Layout
<1>2. d \in Nat /\ d >= 2 /\ Len(c) \in Nat
  BY <1>1
<1> HIDE DEF c, k, n
<1>3. ASSUME NEW p \in Places(body) PROVE Moved(d, p) \in Places(c) /\ At(c, Moved(d, p)) = At(body, p)
  <2>1. p[1] \in 1..n /\ p[2] \in 0..Len(Included) /\ (p[2] = 0) = (body[p[1]].kind # "include")
    BY DEF Places, n
  <2>2. p[1] + d \in 1..Len(c) /\ c[p[1] + d] = body[p[1]]
    <3>1. p[1] + d = k + 2 + p[1] /\ p[1] + d \in 1..(k + 2 + n)
      BY <1>1, <2>1
    <3> QED BY <1>1, <2>1, <3>1
  <2>3. Moved(d, p)[1] = p[1] + d /\ Moved(d, p)[2] = p[2]
    BY DEF Moved
  <2>4. Moved(d, p) \in Places(c)
    BY <2>1, <2>2 DEF Places, Moved
  <2> QED BY <2>2, <2>3, <2>4 DEF At
<1>4. ASSUME NEW i \in 1..k PROVE <<i + 1, 0>> \in Places(c) /\ At(c, <<i + 1, 0>>) = Entry(kept[i])
  <2>1. i + 1 \in 1..Len(c) /\ c[i + 1] = Entry(kept[i]) /\ Entry(kept[i]).kind # "include"
    BY <1>1, ItemKinds
  <2> QED BY <1>2, <2>1, PlacesAre
<1>5. ASSUME NEW q \in Places(c)
      PROVE  \/ q \in {<<1, 0>>, <<d, 0>>} /\ At(c, q) \in {BlockStart, BlockEnd}
             \/ \E i \in 1..k : q = <<i + 1, 0>>
             \/ \E p \in Places(body) : q = Moved(d, p)
  <2>1. q = <<q[1], q[2]>> /\ q[1] \in 1..Len(c) /\ q[2] \in 0..Len(Included) /\ (q[2] = 0) = (c[q[1]].kind # "include")
    BY <1>2, PlacesAre DEF Places
  <2>2. CASE q[1] = 1
    <3>1. q[2] = 0
      BY <1>1, <2>1, <2>2, ItemKinds
    <3> QED BY <1>1, <2>1, <2>2, <3>1 DEF At
  <2>3. CASE q[1] = d
    <3>1. q[2] = 0
      BY <1>1, <2>1, <2>3, ItemKinds
    <3> QED BY <1>1, <2>1, <2>3, <3>1 DEF At
  <2>4. CASE q[1] # 1 /\ q[1] < d
    <3>1. q[1] - 1 \in 1..k /\ (q[1] - 1) + 1 = q[1]
      BY <1>1, <2>1, <2>4
    <3>2. c[q[1]] = Entry(kept[q[1] - 1])
      BY <1>1, <3>1
    <3>3. q[2] = 0
      BY <2>1, <3>2, ItemKinds
    <3> QED BY <2>1, <3>1, <3>3
  <2>5. CASE q[1] > d
    <3>1. q[1] - d \in 1..n /\ k + 2 + (q[1] - d) = q[1] /\ (q[1] - d) + d = q[1]
      BY <1>1, <2>1, <2>5
    <3>2. c[q[1]] = body[q[1] - d]
      BY <1>1, <3>1
    <3>3. <<q[1] - d, q[2]>> \in Places(body)
      BY <2>1, <3>1, <3>2 DEF Places, n
    <3>4. q = Moved(d, <<q[1] - d, q[2]>>)
      BY <2>1, <3>1 DEF Moved
    <3> QED BY <3>3, <3>4
  <2> QED BY <1>1, <2>1, <2>2, <2>3, <2>4, <2>5
<1> QED BY <1>1, <1>2, <1>3, <1>4, <1>5 DEF c, k, n

\* Of the block, an entry is read for its own name, and the markers for nobody.
LEMMA BlockReads ==
    ASSUME NEW kept \in Seq(HostChoice), NEW body \in Bodies, NEW a
    PROVE  LET c == Composed(kept, body) d == Len(kept) + 2 IN
           /\ \A q \in Places(c) : At(c, q) \in {BlockStart, BlockEnd} => ~ SshReads(c, q, a)
           /\ \A i \in 1..Len(kept) : kept[i].name # Star
                 => (SshReads(c, <<i + 1, 0>>, a) <=> kept[i].name = a)
<1> DEFINE c == Composed(kept, body)
<1>1. ASSUME NEW i \in 1..Len(kept), kept[i].name # Star
      PROVE  SshReads(c, <<i + 1, 0>>, a) <=> kept[i].name = a
  <2> DEFINE e == Entry(kept[i])
  <2>0. BlockStart \in FileItems /\ BlockEnd \in FileItems /\ (\A h \in HostChoice : Entry(h) \in FileItems)
        /\ body \in Seq(FileItems)
    BY DEF FileItems, Bodies
  <2>1. Len(kept) \in Nat /\ Len(body) \in Nat /\ Len(c) = Len(kept) + 2 + Len(body) /\ c[i + 1] = e
    BY <2>0, Layout
  <2>2. e.kind = "host" /\ e.on = {kept[i].name} /\ e.not = {} /\ IsLine(e)
    BY ItemKinds
  <2>3. Matches(e, a) <=> kept[i].name = a
    <3> HIDE DEF e
    <3> QED BY <1>1, <2>2 DEF Matches
  <2>4. Len(c) \in Nat /\ i + 1 \in 1..Len(c)
    BY <2>1
  <2>5. SshReads(c, <<i + 1, 0>>, a) <=> Matches(e, a)
    <3> HIDE DEF c, e
    <3> QED BY <2>1, <2>2, <2>4, LinesAreRead
  <2> QED BY <2>3, <2>5
<1>2. \A q \in Places(c) : At(c, q) \in {BlockStart, BlockEnd} => ~ SshReads(c, q, a)
  BY ItemKinds DEF SshReads
<1> QED BY <1>1, <1>2

\* Below the block, what starts with a line of its own is read as it was without it.
LEMMA RestReads ==
    ASSUME NEW kept \in Seq(HostChoice), NEW body \in Bodies, StartsWithALine(body), NEW a, NEW p \in Places(body)
    PROVE  SshReads(Composed(kept, body), Moved(Len(kept) + 2, p), a) <=> SshReads(body, p, a)
<1> DEFINE c == Composed(kept, body)
           d == Len(kept) + 2
           r == Moved(d, p)
           L  == {q \in LinesAbove(body, p) : q[2] = 0}
           M  == {q \in LinesAbove(body, p) : q[2] # 0 /\ q[1] = p[1]}
           L_ == {q \in LinesAbove(c, r) : q[2] = 0}
           M_ == {q \in LinesAbove(c, r) : q[2] # 0 /\ q[1] = r[1]}
<1>1. /\ d \in Nat /\ d >= 2 /\ Len(c) \in Nat /\ Len(body) \in Nat /\ Len(kept) \in Nat
      /\ \A q \in Places(body) : Moved(d, q) \in Places(c) /\ At(c, Moved(d, q)) = At(body, q)
      /\ \A i \in 1..Len(kept) : <<i + 1, 0>> \in Places(c)
      /\ \A q \in Places(c) : q \in {<<1, 0>>, <<d, 0>>} \/ (\E i \in 1..Len(kept) : q = <<i + 1, 0>>)
                              \/ \E x \in Places(body) : q = Moved(d, x)
  BY PlacesComposed
<1> HIDE DEF c, d
<1>2. Places(body) \in SUBSET (Nat \X Nat) /\ Places(c) \in SUBSET (Nat \X Nat)
      /\ \A q \in Places(body) : q[1] \in 1..Len(body) /\ q[2] \in 0..Len(Included)
  BY <1>1, PlacesAre
<1>3. r \in Places(c) /\ At(c, r) = At(body, p) /\ r[1] = p[1] + d /\ r[2] = p[2] /\ p \in Nat \X Nat /\ r \in Nat \X Nat
  BY <1>1, <1>2, MovedIs
<1>4. \A q \in LinesAbove(body, p) : Moved(d, q) \in LinesAbove(c, r)
  BY <1>1, <1>2, MovedIs DEF LinesAbove
<1>5. ASSUME NEW q \in LinesAbove(c, r)
      PROVE  \/ q[1] <= d /\ q[2] = 0
             \/ \E x \in LinesAbove(body, p) : q = Moved(d, x) /\ q[2] = x[2] /\ q[1] = x[1] + d
  <2>1. q \in Places(c) /\ IsLine(At(c, q)) /\ Upto(q, r)
    BY DEF LinesAbove
  <2>2. CASE q \in {<<1, 0>>, <<d, 0>>}
    BY <1>1, <2>2
  <2>3. CASE \E i \in 1..Len(kept) : q = <<i + 1, 0>>
    <3>1. PICK i \in 1..Len(kept) : q = <<i + 1, 0>>
      BY <2>3
    <3>2. i + 1 <= d
      BY <1>1 DEF d
    <3> QED BY <3>1, <3>2
  <2>4. CASE \E x \in Places(body) : q = Moved(d, x)
    <3>1. PICK x \in Places(body) : q = Moved(d, x)
      BY <2>4
    <3>2. Upto(x, p) /\ IsLine(At(body, x)) /\ q[2] = x[2] /\ q[1] = x[1] + d
      BY <1>1, <1>2, <1>3, <2>1, <3>1, MovedIs
    <3> QED BY <3>1, <3>2 DEF LinesAbove
  <2> QED BY <1>1, <2>1, <2>2, <2>3, <2>4
<1>6. L \in SUBSET Places(body) /\ M \in SUBSET Places(body) /\ L_ \in SUBSET Places(c) /\ M_ \in SUBSET Places(c)
      /\ L \in SUBSET LinesAbove(body, p) /\ M \in SUBSET LinesAbove(body, p)
      /\ L_ \in SUBSET LinesAbove(c, r) /\ M_ \in SUBSET LinesAbove(c, r)
  BY DEF LinesAbove
<1>7. L # {}
  <2>1. body # <<>>
    <3>1. p[1] \in 1..Len(body)
      BY <1>2
    <3> QED BY <1>1, <3>1
  <2>2. IsLine(body[1]) /\ body[1].kind # "include" /\ 1 \in 1..Len(body)
    <3>1. p[1] \in 1..Len(body)
      BY <1>2
    <3> QED BY <1>1, <2>1, <3>1 DEF StartsWithALine, IsLine
  <2>3. <<1, 0>> \in Places(body) /\ IsLine(At(body, <<1, 0>>))
    BY <1>1, <2>2, PlacesAre
  <2>4. Upto(<<1, 0>>, p)
    <3>1. p[1] \in 1..Len(body) /\ p[2] \in 0..Len(Included)
      BY <1>2
    <3>2. (1 < p[1] \/ (1 = p[1] /\ 0 <= p[2]))
      BY <1>1, <3>1, SSHConfigAssumption
    <3> QED BY <3>2 DEF Upto
  <2> QED BY <2>3, <2>4 DEF LinesAbove
<1>8. AllMoved(d, L) \subseteq L_ /\ \A q \in L_ : q \in AllMoved(d, L) \/ q[1] <= d
  <2>1. \A q \in L : Moved(d, q) \in L_
    BY <1>2, <1>4, <1>6, <1>1, MovedIs
  <2>2. \A q \in L_ : q \in AllMoved(d, L) \/ q[1] <= d
    BY <1>5 DEF AllMoved
  <2> QED BY <2>1, <2>2 DEF AllMoved
<1>9. M_ = AllMoved(d, M)
  <2>1. ASSUME NEW q \in M PROVE Moved(d, q) \in M_
    <3>1. q \in Nat \X Nat /\ q \in LinesAbove(body, p) /\ q[1] = p[1] /\ q[2] # 0
      BY <1>2, <1>6
    <3>2. Moved(d, q)[1] = q[1] + d /\ Moved(d, q)[2] = q[2]
      BY <1>1, <3>1, MovedIs
    <3>3. Moved(d, q)[1] = r[1] /\ Moved(d, q)[2] # 0
      BY <1>3, <3>1, <3>2
    <3>4. Moved(d, q) \in LinesAbove(c, r)
      BY <1>4, <3>1
    <3> QED BY <3>3, <3>4
  <2>2. ASSUME NEW q \in M_ PROVE q \in AllMoved(d, M)
    <3>1. PICK x \in LinesAbove(body, p) : q = Moved(d, x) /\ q[2] = x[2] /\ q[1] = x[1] + d
      BY <1>5
    <3>2. x[1] = p[1]
      <4>1. x[1] \in Nat /\ p[1] \in Nat /\ x[1] + d = p[1] + d
        BY <1>2, <1>3, <3>1 DEF LinesAbove
      <4> QED BY <1>1, <4>1
    <3> QED BY <3>1, <3>2 DEF AllMoved
  <2> QED BY <2>1, <2>2 DEF AllMoved
<1> HIDE DEF L, M, L_, M_, r
<1>10. Nearest(L) \in L /\ \A q \in L : Upto(q, Nearest(L)) /\ q[1] > 0
  <2>1. Nearest(L) \in L /\ \A q \in L : Upto(q, Nearest(L))
    BY <1>1, <1>6, <1>7, LinesAre
  <2> QED BY <1>1, <1>2, <1>6, <2>1
<1>11. Stands(c, L_, a) <=> Stands(body, L, a)
  <2>1. L_ # {}
    BY <1>7, <1>8 DEF AllMoved
  <2>2. Nearest(L_) \in L_ /\ \A q \in L_ : Upto(q, Nearest(L_))
    BY <1>1, <1>3, <1>6, <2>1, LinesAre
  <2>3. Nearest(L_) = Moved(d, Nearest(L))
    <3>1. L \in SUBSET (Nat \X Nat) /\ L_ \in SUBSET (Nat \X Nat)
      BY <1>2, <1>6
    <3> QED BY <1>1, <1>7, <1>8, <1>10, <2>2, <3>1, NearestMoved
  <2>4. At(c, Nearest(L_)) = At(body, Nearest(L))
    BY <1>1, <1>6, <1>10, <2>3
  <2> QED BY <1>7, <2>1, <2>4 DEF Stands
<1>12. Stands(c, M_, a) <=> Stands(body, M, a)
  <2>1. CASE M = {}
    <3>1. M_ = {}
      BY <1>9, <2>1 DEF AllMoved
    <3> QED BY <2>1, <3>1 DEF Stands
  <2>2. CASE M # {}
    <3>1. M_ # {}
      BY <1>9, <2>2 DEF AllMoved
    <3>2. Nearest(M) \in M /\ \A q \in M : Upto(q, Nearest(M))
      BY <1>1, <1>6, <2>2, LinesAre
    <3>a. \A q \in M : q[1] > 0
      BY <1>1, <1>2, <1>6
    <3>3. Nearest(M_) \in M_ /\ \A q \in M_ : Upto(q, Nearest(M_))
      BY <1>1, <1>3, <1>6, <3>1, LinesAre
    <3>4. Nearest(M_) = Moved(d, Nearest(M))
      <4>1. M \in SUBSET (Nat \X Nat) /\ M_ \in SUBSET (Nat \X Nat)
        BY <1>2, <1>6
      <4> QED BY <1>1, <1>9, <2>2, <3>2, <3>a, <3>3, <4>1, NearestMoved
    <3>5. At(c, Nearest(M_)) = At(body, Nearest(M))
      BY <1>1, <1>6, <3>2, <3>4
    <3> QED BY <2>2, <3>1, <3>5 DEF Stands
  <2> QED BY <2>1, <2>2
<1> QED BY <1>3, <1>11, <1>12 DEF SshReads, L, M, L_, M_, r, c, d

\* A name none of the entries has is read for as it was without the block.
LEMMA OwnIsRead ==
    ASSUME NEW kept \in Seq(HostChoice), NEW body \in Bodies, StartsWithALine(body), NEW a,
           \A i \in 1..Len(kept) : kept[i].name # Star /\ kept[i].name # a
    PROVE  LET c == Composed(kept, body) IN
           /\ \A s : SshGet(c, a, s) = SshGet(body, a, s)
           /\ SshRoute(c, a) = SshRoute(body, a)
<1> DEFINE c == Composed(kept, body)
           d == Len(kept) + 2
<1>1. /\ d \in Nat /\ Len(c) \in Nat /\ Len(body) \in Nat
      /\ \A p \in Places(body) : Moved(d, p) \in Places(c) /\ At(c, Moved(d, p)) = At(body, p)
      /\ \A q \in Places(c) : \/ At(c, q) \in {BlockStart, BlockEnd}
                              \/ \E i \in 1..Len(kept) : q = <<i + 1, 0>>
                              \/ \E p \in Places(body) : q = Moved(d, p)
  BY PlacesComposed
<1>2. /\ \A q \in Places(c) : SshReads(c, q, a) => \E p \in Places(body) : q = Moved(d, p)
      /\ \A p \in Places(body) : SshReads(c, Moved(d, p), a) <=> SshReads(body, p, a)
  <2>1. \A p \in Places(body) : SshReads(c, Moved(d, p), a) <=> SshReads(body, p, a)
    BY RestReads
  <2>2. \A i \in 1..Len(kept) : ~ SshReads(c, <<i + 1, 0>>, a)
    BY BlockReads
  <2>3. \A q \in Places(c) : At(c, q) \in {BlockStart, BlockEnd} => ~ SshReads(c, q, a)
    BY BlockReads
  <2> HIDE DEF c, d
  <2> QED BY <1>1, <2>1, <2>2, <2>3
<1> HIDE DEF c, d
<1>3. ASSUME NEW ps \in SUBSET Places(body), NEW qs \in SUBSET Places(c), qs = AllMoved(d, ps)
      PROVE  ps # {} => qs # {} /\ At(c, Foremost(qs)) = At(body, Foremost(ps))
  <2> SUFFICES ASSUME ps # {} PROVE qs # {} /\ At(c, Foremost(qs)) = At(body, Foremost(ps))
    OBVIOUS
  <2>1. ps \in SUBSET (Nat \X Nat)
    BY <1>1, PlacesAre
  <2>2. Foremost(qs) = Moved(d, Foremost(ps)) /\ Foremost(ps) \in ps
    BY <1>1, <1>3, <2>1, ForemostMoved, ForemostIs
  <2> QED BY <1>1, <1>3, <2>2 DEF AllMoved
<1>4. ASSUME NEW s PROVE SshGet(c, a, s) = SshGet(body, a, s)
  <2> DEFINE ps == {p \in Places(body) : SshReads(body, p, a) /\ At(body, p).sets[s] # None}
             qs == {q \in Places(c) : SshReads(c, q, a) /\ At(c, q).sets[s] # None}
  <2>1. qs = AllMoved(d, ps)
    BY <1>1, <1>2 DEF AllMoved
  <2>2. ps \in SUBSET Places(body) /\ qs \in SUBSET Places(c)
    OBVIOUS
  <2>3. SshGet(c, a, s) = First(c, qs, s) /\ SshGet(body, a, s) = First(body, ps, s)
    BY DEF SshGet
  <2> HIDE DEF ps, qs
  <2>4. ps = {} => qs = {}
    BY <2>1 DEF AllMoved
  <2>5. ps # {} => qs # {} /\ At(c, Foremost(qs)) = At(body, Foremost(ps))
    BY <1>3, <2>1, <2>2
  <2> QED BY <2>3, <2>4, <2>5 DEF First
<1>5. SshRoute(c, a) = SshRoute(body, a)
  <2> DEFINE ps == {p \in Places(body) : SshReads(body, p, a) /\ \E s \in Routes : At(body, p).sets[s] # None}
             qs == {q \in Places(c) : SshReads(c, q, a) /\ \E s \in Routes : At(c, q).sets[s] # None}
  <2>1. qs = AllMoved(d, ps)
    BY <1>1, <1>2 DEF AllMoved
  <2>2. ps \in SUBSET Places(body) /\ qs \in SUBSET Places(c)
    OBVIOUS
  <2>3. SshRoute(c, a) = LET v == IF qs = {} THEN None ELSE RouteOf(At(c, Foremost(qs))) IN IF v = NoRoute THEN None ELSE v
    BY DEF SshRoute
  <2>4. SshRoute(body, a) = LET v == IF ps = {} THEN None ELSE RouteOf(At(body, Foremost(ps))) IN IF v = NoRoute THEN None ELSE v
    BY DEF SshRoute
  <2> HIDE DEF ps, qs
  <2>5. ps = {} => qs = {}
    BY <2>1 DEF AllMoved
  <2>6. ps # {} => qs # {} /\ At(c, Foremost(qs)) = At(body, Foremost(ps))
    BY <1>3, <2>1, <2>2
  <2> QED BY <2>3, <2>4, <2>5, <2>6
<1> QED BY <1>4, <1>5 DEF c

\* An entry comes before all else that is read for its name.
LEMMA EntryIsFirst ==
    ASSUME NEW kept \in Seq(HostChoice), NEW body \in Bodies, NEW i \in 1..Len(kept),
           \A j \in 1..Len(kept) : kept[j].name # Star /\ (kept[j].name = kept[i].name => j = i)
    PROVE  LET c == Composed(kept, body) h == kept[i] e == Entry(h) IN
           /\ \A s : e.sets[s] # None => SshGet(c, h.name, s) = e.sets[s]
           /\ (\E s \in Routes : e.sets[s] # None) /\ RouteOf(e) # NoRoute => SshRoute(c, h.name) = RouteOf(e)
<1> DEFINE c == Composed(kept, body)
           d == Len(kept) + 2
           a == kept[i].name
           e == Entry(kept[i])
           p0 == <<i + 1, 0>>
<1>1. /\ d \in Nat /\ Len(c) \in Nat /\ Len(kept) \in Nat /\ Len(body) \in Nat
      /\ p0 \in Places(c) /\ At(c, p0) = e
      /\ \A q \in Places(c) : \/ At(c, q) \in {BlockStart, BlockEnd}
                              \/ \E j \in 1..Len(kept) : q = <<j + 1, 0>>
                              \/ \E p \in Places(body) : q = Moved(d, p)
  BY PlacesComposed
<1>2. /\ \A q \in Places(c) : At(c, q) \in {BlockStart, BlockEnd} => ~ SshReads(c, q, a)
      /\ \A j \in 1..Len(kept) : SshReads(c, <<j + 1, 0>>, a) <=> j = i
  <2>1. \A j \in 1..Len(kept) : SshReads(c, <<j + 1, 0>>, a) <=> kept[j].name = a
    BY BlockReads
  <2>2. \A q \in Places(c) : At(c, q) \in {BlockStart, BlockEnd} => ~ SshReads(c, q, a)
    BY BlockReads
  <2> QED BY <2>1, <2>2
<1> HIDE DEF c
<1>3. p0 \in Nat \X Nat /\ Places(c) \in SUBSET (Nat \X Nat) /\ Places(body) \in SUBSET (Nat \X Nat)
      /\ \A p \in Places(body) : p[1] \in 1..Len(body)
  BY <1>1, PlacesAre
<1>4. ASSUME NEW q \in Places(c), SshReads(c, q, a) PROVE Upto(p0, q)
  <2>1. CASE \E j \in 1..Len(kept) : q = <<j + 1, 0>>
    BY <1>1, <1>2, <1>4, <2>1 DEF Upto
  <2>2. CASE \E p \in Places(body) : q = Moved(d, p)
    <3>1. PICK p \in Places(body) : q = Moved(d, p)
      BY <2>2
    <3>2. q[1] = p[1] + d /\ p[1] \in 1..Len(body)
      BY <1>1, <1>3, <3>1, MovedIs
    <3>3. i + 1 < q[1]
      BY <1>1, <3>2
    <3> QED BY <3>3 DEF Upto
  <2> QED BY <1>1, <1>2, <1>4, <2>1, <2>2
<1>5. ASSUME NEW ps \in SUBSET Places(c), p0 \in ps, \A q \in ps : SshReads(c, q, a)
      PROVE  ps # {} /\ At(c, Foremost(ps)) = e
  <2>1. ps \in SUBSET (Nat \X Nat) /\ ps # {}
    BY <1>3, <1>5
  <2>2. Foremost(ps) \in ps /\ Upto(Foremost(ps), p0) /\ Upto(p0, Foremost(ps))
    BY <1>4, <1>5, <2>1, ForemostIs
  <2>3. Foremost(ps) = p0
    BY <1>3, <2>1, <2>2, PlacesInOrder
  <2> QED BY <1>1, <2>1, <2>3
<1> HIDE DEF e, p0, a
<1>6. SshReads(c, p0, a)
  BY <1>2 DEF p0
<1>7. ASSUME NEW s, e.sets[s] # None PROVE SshGet(c, a, s) = e.sets[s]
  <2> DEFINE ps == {p \in Places(c) : SshReads(c, p, a) /\ At(c, p).sets[s] # None}
  <2>1. ps \in SUBSET Places(c) /\ p0 \in ps /\ \A q \in ps : SshReads(c, q, a)
    BY <1>1, <1>6, <1>7
  <2>2. SshGet(c, a, s) = First(c, ps, s)
    BY DEF SshGet
  <2> HIDE DEF ps
  <2> QED BY <1>5, <2>1, <2>2 DEF First
<1>8. ASSUME \E s \in Routes : e.sets[s] # None, RouteOf(e) # NoRoute PROVE SshRoute(c, a) = RouteOf(e)
  <2> DEFINE ps == {p \in Places(c) : SshReads(c, p, a) /\ \E s \in Routes : At(c, p).sets[s] # None}
  <2>1. ps \in SUBSET Places(c) /\ p0 \in ps /\ \A q \in ps : SshReads(c, q, a)
    BY <1>1, <1>6, <1>8
  <2>2. SshRoute(c, a) = LET v == IF ps = {} THEN None ELSE RouteOf(At(c, Foremost(ps))) IN IF v = NoRoute THEN None ELSE v
    BY DEF SshRoute
  <2> HIDE DEF ps
  <2>3. ps # {} /\ At(c, Foremost(ps)) = e
    BY <1>5, <2>1
  <2> QED BY <1>8, <2>2, <2>3
<1> QED BY <1>7, <1>8 DEF c, e, a

-----------------------------------------------------------------------------
(* What an export knows, and what it has left.                             *)

Sound ==
    /\ SSHTypes
    /\ export # None /\ export.read # None => export.read \in Seq(FileItems)
    /\ export # None /\ ~ touched => /\ Paired(config) /\ export.declared = Declared(config)
                                     /\ export.read # None => export.read = config
    /\ written # None => /\ written = Kept(Declared(config), hosts)
                         /\ config = Composed(SetToSeq(written), StripBlock(config))

\* A finite set, listed.
LEMMA ListedOnce ==
    ASSUME NEW S, IsFiniteSet(S)
    PROVE  LET s == SetToSeq(S) IN
           /\ s \in Seq(S) /\ Len(s) \in Nat
           /\ \A i \in 1..Len(s) : s[i] \in S
           /\ \A x \in S : \E i \in 1..Len(s) : s[i] = x
           /\ \A i, j \in 1..Len(s) : s[i] = s[j] => i = j
<1> DEFINE n == Cardinality(S)
           s == SetToSeq(S)
<1>1. n \in Nat /\ ExistsBijection(1..n, S)
  BY FS_CardinalityType
<1>2. \E f \in [1..n -> S] : IsInjective(f)
  BY <1>1 DEF ExistsBijection, Bijection, Injection
<1>3. s \in [1..n -> S] /\ IsInjective(s)
  BY <1>2 DEF SetToSeq
<1>4. s \in Surjection(1..n, S)
  <2>1. s \in Injection(1..n, S)
    BY <1>3 DEF Injection
  <2>2. Cardinality(1..n) = n
    BY <1>1, FS_Interval
  <2> HIDE DEF s
  <2>3. s \in Injection(1..n, S) /\ Cardinality(1..n) = Cardinality(S)
    BY <2>1, <2>2 DEF n
  <2> QED BY <2>3, FS_Injection
<1> HIDE DEF s
<1>5. s \in Seq(S) /\ Len(s) = n
  BY <1>1, <1>3
<1>6. \A x \in S : \E i \in 1..n : s[i] = x
  BY <1>4 DEF Surjection
<1>7. \A i, j \in 1..n : s[i] = s[j] => i = j
  BY <1>3 DEF IsInjective
<1> QED BY <1>1, <1>3, <1>5, <1>6, <1>7 DEF s

\* What is kept of a list is of the list, may be written, and names no jump host left out.
LEMMA KeptIs ==
    ASSUME NEW hs \in Lists, NEW declared
    PROVE  LET kept == Kept(declared, hs) s == SetToSeq(kept) IN
           /\ kept \in SUBSET hs /\ IsFiniteSet(kept) /\ hs \in SUBSET HostChoice
           /\ \A h \in kept : Usable(h, declared) /\ Known(kept, declared, hs, h.jump)
           /\ \A x, y \in kept : x.name = y.name => x = y
           /\ s \in Seq(HostChoice) /\ Len(s) \in Nat
           /\ \A i \in 1..Len(s) : s[i] \in kept
           /\ \A x \in kept : \E i \in 1..Len(s) : s[i] = x
           /\ \A i, j \in 1..Len(s) : s[i].name = s[j].name => i = j
<1> DEFINE kept == Kept(declared, hs)
           s == SetToSeq(kept)
           us == {h \in hs : Usable(h, declared)}
<1>1. hs \in SUBSET HostChoice /\ IsFiniteSet(hs) /\ \A x, y \in hs : key(x.name) = key(y.name) => x = y
  BY DEF Lists
<1>2. kept = UNION {S \in SUBSET us : \A h \in S : Known(S, declared, hs, h.jump)}
  BY DEF Kept, Settled
<1> HIDE DEF kept
<1>3. \A h \in kept : Usable(h, declared) /\ h \in hs
  BY <1>2
<1>4. ASSUME NEW h \in kept PROVE Known(kept, declared, hs, h.jump)
  <2>1. PICK S \in SUBSET us : h \in S /\ \A x \in S : Known(S, declared, hs, x.jump)
    BY <1>2
  <2>2. S \subseteq kept
    BY <1>2, <2>1
  <2>3. Known(S, declared, hs, h.jump)
    BY <2>1
  <2> QED BY <2>2, <2>3 DEF Known
<1>5. kept \in SUBSET hs /\ IsFiniteSet(kept)
  BY <1>1, <1>3, FS_Subset
<1>6. /\ s \in Seq(kept) /\ Len(s) \in Nat
      /\ \A i \in 1..Len(s) : s[i] \in kept
      /\ \A x \in kept : \E i \in 1..Len(s) : s[i] = x
      /\ \A i, j \in 1..Len(s) : s[i] = s[j] => i = j
  BY <1>5, ListedOnce
<1> HIDE DEF s
<1>7. s \in Seq(HostChoice)
  <2>1. kept \subseteq HostChoice
    BY <1>1, <1>5
  <2> QED BY <1>6, <2>1
<1>8. \A x, y \in kept : x.name = y.name => x = y
  BY <1>1, <1>5
<1> QED BY <1>1, <1>3, <1>4, <1>5, <1>6, <1>7, <1>8 DEF kept, s

LEMMA StripIsBody ==
    ASSUME NEW f \in Seq(FileItems)
    PROVE  StripBlock(f) \in Bodies
BY StripIsOwn DEF Bodies

\* What an export writes: the user's part as it was, under a block of its own.
LEMMA ExportedIs ==
    ASSUME NEW f \in Seq(FileItems), NEW hs \in Lists, NEW declared
    PROVE  LET c == Exported(f, declared, hs) IN
           /\ c \in Seq(FileItems) /\ Paired(c) /\ MarksBefore(c, Len(c)) = 2
           /\ StripBlock(c) = StripBlock(f)
           /\ c = Composed(SetToSeq(Kept(declared, hs)), StripBlock(c))
<1>1. SetToSeq(Kept(declared, hs)) \in Seq(HostChoice)
  BY KeptIs
<1>2. StripBlock(f) \in Bodies
  BY StripIsBody
<1> QED BY <1>1, <1>2, ComposedHolds DEF Exported

\* A step that edits the file leaves items in it.
LEMMA EditsAreItems ==
    ASSUME config \in Seq(FileItems), EditFile
    PROVE  config' \in Seq(FileItems)
<1>1. Len(config) \in Nat /\ \A i \in 1..Len(config) : config[i] \in FileItems
  BY LenProperties
<1>2. ASSUME NEW x \in Items, NEW i \in 1..(Len(config) + 1), config' = InsertAt(config, i, x)
      PROVE  config' \in Seq(FileItems)
  <2>1. i \in Int /\ i - 1 \in Int /\ Len(config) \in Int
    BY <1>1
  <2>2. \A j \in 1..(i - 1) : config[j] \in FileItems
    BY <1>1
  <2>3. \A j \in i..Len(config) : config[j] \in FileItems
    BY <1>1
  <2>4. SubSeq(config, 1, i - 1) \in Seq(FileItems)
    BY <2>1, <2>2, SubSeqProperties
  <2>5. SubSeq(config, i, Len(config)) \in Seq(FileItems)
    BY <2>1, <2>3, SubSeqProperties
  <2>6. <<x>> \in Seq(FileItems)
    BY DEF FileItems
  <2> QED BY <1>2, <2>4, <2>5, <2>6, ConcatProperties DEF InsertAt
<1>3. ASSUME NEW i \in 1..Len(config), config' = RemoveAt(config, i)
      PROVE  config' \in Seq(FileItems)
  <2>1. i + 1 \in Int /\ i - 1 \in Int /\ Len(config) \in Int
    BY <1>1
  <2>2. \A j \in 1..(i - 1) : config[j] \in FileItems
    BY <1>1
  <2>3. \A j \in (i + 1)..Len(config) : config[j] \in FileItems
    BY <1>1
  <2>4. SubSeq(config, 1, i - 1) \in Seq(FileItems)
    BY <2>1, <2>2, SubSeqProperties
  <2>5. SubSeq(config, i + 1, Len(config)) \in Seq(FileItems)
    BY <2>1, <2>3, SubSeqProperties
  <2> QED BY <1>3, <2>4, <2>5, ConcatProperties DEF RemoveAt
<1> QED BY <1>2, <1>3 DEF EditFile

LEMMA SoundAtFirst == SSHInit => Sound
<1> SUFFICES ASSUME SSHInit PROVE Sound
  OBVIOUS
<1>1. config \in Seq(FileItems)
  <2>1. PICK n \in 0..MaxItems : config \in [1..n -> Items]
    BY DEF SSHInit, SeqOf
  <2>2. n \in Nat
    BY SSHConfigAssumption
  <2>3. config \in [1..n -> FileItems]
    BY <2>1 DEF FileItems
  <2> QED BY <2>2, <2>3
<1>2. config \in Seq(Items \cup {BlockStart, BlockEnd} \cup {Entry(h) : h \in HostChoice})
  BY <1>1 DEF FileItems
<1>3. hosts \in Lists /\ export = None /\ touched = FALSE /\ written = None
  BY DEF SSHInit
<1>4. changes \in 0..MaxChanges /\ exports \in 0..MaxExports
  BY SSHConfigAssumption DEF SSHInit
<1> QED BY <1>2, <1>3, <1>4 DEF Sound, SSHTypes

LEMMA SoundIsKept == Sound /\ [SSHNext]_sshVars => Sound'
<1> SUFFICES ASSUME Sound, [SSHNext]_sshVars PROVE Sound'
  OBVIOUS
<1>0. config \in Seq(FileItems) /\ hosts \in Lists
  BY DEF Sound, SSHTypes, FileItems
<1>1. CASE BeginExport
  <2>1. /\ export' = [hosts |-> hosts, declared |-> Declared(config), read |-> None]
        /\ touched' = FALSE /\ written' = None /\ Paired(config) /\ UNCHANGED <<config, hosts, changes>>
    BY <1>1 DEF BeginExport
  <2>2. export'.hosts = hosts /\ export'.declared = Declared(config) /\ export'.read = None
    BY <2>1
  <2>3. exports' \in 0..MaxExports
    BY <1>1, SSHConfigAssumption DEF Sound, SSHTypes, BeginExport
  <2>4. SSHTypes'
    BY <2>1, <2>2, <2>3 DEF Sound, SSHTypes
  <2>5. Paired(config)' /\ export'.declared = Declared(config)'
    BY <2>1, <2>2 DEF Declared
  <2> QED BY <2>1, <2>2, <2>4, <2>5 DEF Sound
<1>2. CASE ReadFile
  <2>1. CASE Paired(config)
    <3>1. /\ export' = [hosts |-> export.hosts, declared |-> export.declared, read |-> config]
          /\ export # None /\ UNCHANGED <<config, hosts, changes, exports, touched, written>>
      BY <1>2, <2>1 DEF ReadFile
    <3>2. export'.hosts = export.hosts /\ export'.declared = export.declared /\ export'.read = config
      BY <3>1
    <3>3. SSHTypes'
      BY <3>1, <3>2 DEF Sound, SSHTypes
    <3>4. export'.read \in Seq(FileItems)
      BY <1>0, <3>2
    <3>5. ~ touched' => Paired(config)' /\ export'.declared = Declared(config)' /\ export'.read = config'
      BY <3>1, <3>2 DEF Sound, Declared
    <3>6. written' # None => /\ written' = Kept(Declared(config'), hosts')
                             /\ config' = Composed(SetToSeq(written'), StripBlock(config'))
      BY <3>1 DEF Sound
    <3> QED BY <3>3, <3>4, <3>5, <3>6 DEF Sound
  <2>2. CASE ~ Paired(config)
    BY <1>2, <2>2 DEF Sound, SSHTypes, ReadFile
  <2> QED BY <2>1, <2>2
<1>3. CASE ReplaceFile
  <2>1. export.read \in Seq(FileItems) /\ export.hosts \in Lists
    BY <1>3 DEF Sound, SSHTypes, ReplaceFile
  <2> DEFINE c == Exported(export.read, export.declared, export.hosts)
  <2>2. /\ c \in Seq(FileItems) /\ Paired(c) /\ StripBlock(c) = StripBlock(export.read)
        /\ c = Composed(SetToSeq(Kept(export.declared, export.hosts)), StripBlock(c))
    BY <2>1, ExportedIs
  <2>3. config' = c /\ export' = None /\ hosts' = hosts
    BY <1>3 DEF ReplaceFile
  <2> HIDE DEF c
  <2>4. SSHTypes'
    BY <1>3, <2>2, <2>3 DEF Sound, SSHTypes, ReplaceFile, FileItems
  <2>5. ASSUME written' # None
        PROVE  written' = Kept(Declared(config'), hosts') /\ config' = Composed(SetToSeq(written'), StripBlock(config'))
    <3>1. hosts = export.hosts /\ ~ touched /\ written' = Kept(export.declared, export.hosts)
      BY <1>3, <2>5 DEF ReplaceFile
    <3>2. export.declared = Declared(config) /\ export.read = config
      BY <1>3, <3>1 DEF Sound, ReplaceFile
    <3>3. Declared(c) = Declared(config)
      BY <2>2, <3>2 DEF Declared
    <3> QED BY <2>2, <2>3, <3>1, <3>2, <3>3
  <2> QED BY <2>3, <2>4, <2>5 DEF Sound
<1>4. CASE EditFile
  <2>1. config' \in Seq(FileItems)
    BY <1>0, <1>4, EditsAreItems
  <2>2. changes' \in 0..MaxChanges
    BY <1>4, SSHConfigAssumption DEF Sound, SSHTypes, EditFile
  <2>3. touched' = TRUE /\ written' = None /\ UNCHANGED <<hosts, export, exports>>
    BY <1>4 DEF EditFile
  <2> QED BY <2>1, <2>2, <2>3 DEF Sound, SSHTypes, FileItems
<1>5. CASE SaveHost
  BY <1>5, SSHConfigAssumption DEF Sound, SSHTypes, SaveHost
<1>6. CASE UNCHANGED sshVars
  BY <1>6 DEF Sound, SSHTypes, sshVars
<1> QED BY <1>1, <1>2, <1>3, <1>4, <1>5, <1>6 DEF SSHNext, Export

LEMMA SoundAlways == SSHSpec => []Sound
BY SoundAtFirst, SoundIsKept, PTL DEF SSHSpec

-----------------------------------------------------------------------------
(* The theorems of the config.                                             *)

\* Type correctness: whatever is exported, edited or saved, the file holds items and the list
\* hosts, no two of one name.
THEOREM SSHTypesAlways == SSHSpec => []SSHTypes
<1>1. Sound => SSHTypes
  BY DEF Sound
<1> QED BY <1>1, SoundAlways, PTL

\* A file that was replaced, and not edited meanwhile, is the block over what was the user's.
LEMMA ReplacedIs ==
    ASSUME Sound, [SSHNext]_sshVars, Replaced, ~ touched
    PROVE  LET kept == SetToSeq(Kept(Declared(config), export.hosts)) body == StripBlock(config) IN
           /\ export.hosts \in Lists /\ kept \in Seq(HostChoice) /\ body \in Bodies
           /\ config' = Composed(kept, body) /\ StripBlock(config') = body
           /\ MarksBefore(config', Len(config')) = 2
<1>1. ReplaceFile
  <2>1. ~ BeginExport /\ ~ ReadFile
    BY DEF Replaced, BeginExport, ReadFile
  <2>2. ~ EditFile /\ ~ SaveHost /\ ~ UNCHANGED sshVars
    BY DEF Replaced, EditFile, SaveHost, sshVars
  <2> QED BY <2>1, <2>2 DEF SSHNext, Export
<1>2. /\ export.read = config /\ export.declared = Declared(config) /\ export.hosts \in Lists
      /\ config \in Seq(FileItems)
  BY <1>1 DEF Sound, SSHTypes, ReplaceFile, Replaced
<1>3. config' = Exported(config, Declared(config), export.hosts)
  BY <1>1, <1>2 DEF ReplaceFile
<1>4. MarksBefore(config', Len(config')) = 2 /\ StripBlock(config') = StripBlock(config)
  BY <1>2, <1>3, ExportedIs
<1>5. StripBlock(config) \in Bodies /\ SetToSeq(Kept(Declared(config), export.hosts)) \in Seq(HostChoice)
  BY <1>2, StripIsBody, KeptIs
<1> QED BY <1>2, <1>3, <1>4, <1>5 DEF Exported

\* Whatever list is exported to whatever file, and however often, the user's lines are as they
\* were and in their order, below one block of omassh's.
THEOREM OwnLinesStay == SSHSpec => OwnLinesKept
<1>1. Sound /\ [SSHNext]_sshVars
      => [Replaced /\ ~ touched
          => StripBlock(config') = StripBlock(config) /\ MarksBefore(config', Len(config')) = 2]_sshVars
  BY ReplacedIs
<1> QED BY <1>1, SoundAlways, PTL DEF SSHSpec, OwnLinesKept

\* What a name that the file declares is read as stays, for no host kept has that name.
LEMMA KeptAreNotOwn ==
    ASSUME Sound, [SSHNext]_sshVars, Replaced, ~ touched, StartsWithALine(StripBlock(config)),
           NEW a \in NamedIn(StripBlock(config))
    PROVE  /\ \A s : SshGet(config', a, s) = SshGet(StripBlock(config), a, s)
           /\ SshRoute(config', a) = SshRoute(StripBlock(config), a)
<1> DEFINE kept == SetToSeq(Kept(Declared(config), export.hosts))
           body == StripBlock(config)
<1>1. /\ export.hosts \in Lists /\ kept \in Seq(HostChoice) /\ body \in Bodies
      /\ config' = Composed(kept, body)
  BY ReplacedIs
<1>2. \A i \in 1..Len(kept) : Usable(kept[i], Declared(config))
  BY <1>1, KeptIs
<1>3. key(a) \in Declared(config)
  BY DEF Declared
<1>4. \A i \in 1..Len(kept) : kept[i].name # Star /\ kept[i].name # a
  BY <1>2, <1>3 DEF Usable
<1> HIDE DEF kept, body
<1>5. StartsWithALine(body)
  BY DEF body
<1> QED BY <1>1, <1>4, <1>5, OwnIsRead DEF body

\* As long as the user's part of the file has nothing above its first line, a name it declares
\* also goes where it went: to the same machine, as the same user, with the same key and by the
\* same route.
THEOREM OwnStays == SSHSpec /\ []StartsWithALine(StripBlock(config)) => OwnIsKept
<1>1. /\ Sound /\ StartsWithALine(StripBlock(config)) /\ [SSHNext]_sshVars
      => [Replaced /\ ~ touched
          => \A a \in NamedIn(StripBlock(config)) :
                /\ \A s \in Settings \ Routes : SshGet(config', a, s) = SshGet(StripBlock(config), a, s)
                /\ SshRoute(config', a) = SshRoute(StripBlock(config), a)]_sshVars
  BY KeptAreNotOwn
<1>2. SSHSpec /\ []StartsWithALine(StripBlock(config)) => OwnAliasesKept
  BY <1>1, SoundAlways, PTL DEF SSHSpec, OwnAliasesKept
<1> QED BY <1>2, OwnLinesStay, PTL DEF OwnIsKept

\* The entry of a host that was written is the first that ssh reads for its name.
LEMMA WrittenAreReached == Sound => WrittenIsReached
<1> SUFFICES ASSUME Sound, written # None, NEW h \in written
             PROVE  /\ SshGet(config, h.name, "HostName") = h.addr
                    /\ h.port \notin {None, 22} => SshGet(config, h.name, "Port") = h.port
                    /\ h.user # None => SshGet(config, h.name, "User") = h.user
                    /\ h.key # None => SshGet(config, h.name, "IdentityFile") = h.key
                    /\ h.jump # None => SshRoute(config, h.name) = h.jump
  BY DEF WrittenIsReached
<1> DEFINE s == SetToSeq(written)
           body == StripBlock(config)
           e == Entry(h)
<1>1. /\ written = Kept(Declared(config), hosts) /\ config = Composed(s, body) /\ hosts \in Lists
      /\ body \in Bodies
  BY StripIsBody DEF Sound, SSHTypes, FileItems
<1>2. /\ s \in Seq(HostChoice) /\ written \in SUBSET HostChoice
      /\ \A i \in 1..Len(s) : s[i] \in written
      /\ \A x \in written : \E i \in 1..Len(s) : s[i] = x
      /\ \A i, j \in 1..Len(s) : s[i].name = s[j].name => i = j
      /\ \A x \in written : Usable(x, Declared(config))
  BY <1>1, KeptIs
<1>3. \A x \in written : x.name # Star
  BY <1>2 DEF Usable
<1>4. h.addr # None /\ h.jump # NoRoute
  BY <1>2, SSHConfigAssumption
<1>5. PICK i \in 1..Len(s) : s[i] = h
  BY <1>2
<1>6. \A j \in 1..Len(s) : s[j].name # Star /\ (s[j].name = s[i].name => j = i)
  BY <1>2, <1>3
<1> HIDE DEF s, body
<1>7. /\ \A t : e.sets[t] # None => SshGet(config, h.name, t) = e.sets[t]
      /\ (\E t \in Routes : e.sets[t] # None) /\ RouteOf(e) # NoRoute => SshRoute(config, h.name) = RouteOf(e)
  BY <1>1, <1>2, <1>5, <1>6, EntryIsFirst
<1>8. /\ e.sets["HostName"] = h.addr /\ e.sets["Port"] = IF h.port = 22 THEN None ELSE h.port
      /\ e.sets["User"] = h.user /\ e.sets["IdentityFile"] = h.key /\ e.sets["ProxyJump"] = h.jump
  BY DEF Entry, Unset, Settings
<1> HIDE DEF e
<1>9. h.jump # None => RouteOf(e) = h.jump
  BY <1>8 DEF RouteOf
<1> QED BY <1>4, <1>7, <1>8, <1>9 DEF Routes

\* A jump host of ours that a written host names is written, or the file's own.
LEMMA JumpsAreWritten == Sound => JumpsAreThere
<1> SUFFICES ASSUME Sound, written # None, NEW h \in written, h.jump # None,
                    key(h.jump) \in {key(x.name) : x \in hosts}
             PROVE  key(h.jump) \in {key(a) : a \in NamedIn(config)}
  BY DEF JumpsAreThere
<1> DEFINE s == SetToSeq(written)
           body == StripBlock(config)
<1>1. /\ written = Kept(Declared(config), hosts) /\ config = Composed(s, body) /\ hosts \in Lists
      /\ body \in Bodies
  BY StripIsBody DEF Sound, SSHTypes, FileItems
<1>2. /\ s \in Seq(HostChoice)
      /\ \A x \in written : \E i \in 1..Len(s) : s[i] = x
      /\ \A x \in written : Usable(x, Declared(config)) /\ Known(written, Declared(config), hosts, x.jump)
  BY <1>1, KeptIs
<1>3. \A x \in written : x.name # Star
  BY <1>2 DEF Usable
<1> HIDE DEF s
<1>4. /\ \A p \in Places(body) : Moved(Len(s) + 2, p) \in Places(config)
                                 /\ At(config, Moved(Len(s) + 2, p)) = At(body, p)
      /\ \A i \in 1..Len(s) : <<i + 1, 0>> \in Places(config) /\ At(config, <<i + 1, 0>>) = Entry(s[i])
  BY <1>1, <1>2, PlacesComposed
<1>5. CASE key(h.jump) \in {key(x.name) : x \in written}
  <2>1. PICK x \in written : key(h.jump) = key(x.name)
    BY <1>5
  <2>2. PICK i \in 1..Len(s) : s[i] = x
    BY <1>2
  <2>3. Entry(x).kind = "host" /\ Entry(x).on = {x.name}
    BY ItemKinds
  <2>4. <<i + 1, 0>> \in Places(config) /\ At(config, <<i + 1, 0>>) = Entry(x)
    BY <1>4, <2>2
  <2> DEFINE p == <<i + 1, 0>>
  <2> HIDE DEF p
  <2>5. p \in {q \in Places(config) : At(config, q).kind = "host"} /\ x.name \in At(config, p).on \ {Star}
    BY <1>3, <2>3, <2>4 DEF p
  <2>6. x.name \in NamedIn(config)
    BY <2>5 DEF NamedIn
  <2> QED BY <2>1, <2>6
<1>6. CASE key(h.jump) \in Declared(config)
  <2>1. PICK a \in NamedIn(body) : key(h.jump) = key(a)
    BY <1>6 DEF Declared
  <2>2. PICK p \in Places(body) : At(body, p).kind = "host" /\ a \in At(body, p).on \ {Star}
    BY DEF NamedIn
  <2>3. a \in NamedIn(config)
    BY <1>4, <2>2 DEF NamedIn
  <2> QED BY <2>1, <2>3
<1> QED BY <1>2, <1>5, <1>6 DEF Known

\* The same hosts exported again make the file that is there.
LEMMA WrittenAgain == Sound => AgainTheSame
<1> SUFFICES ASSUME Sound, written # None
             PROVE  Paired(config) /\ Exported(config, Declared(config), hosts) = config
  BY DEF AgainTheSame
<1>1. /\ written = Kept(Declared(config), hosts) /\ config = Composed(SetToSeq(written), StripBlock(config))
      /\ hosts \in Lists /\ StripBlock(config) \in Bodies
  BY StripIsBody DEF Sound, SSHTypes, FileItems
<1>2. SetToSeq(written) \in Seq(HostChoice)
  BY <1>1, KeptIs
<1>3. Paired(config)
  BY <1>1, <1>2, ComposedHolds
<1> QED BY <1>1, <1>3 DEF Exported

\* A host that was written is reached by its name as omassh reaches it, its jump host is written
\* or the file's own, and the same export changes nothing: for every file, list and edit.
THEOREM WrittenAlways == SSHSpec => []WrittenHolds
<1>1. Sound => WrittenHolds
  BY WrittenAreReached, JumpsAreWritten, WrittenAgain DEF WrittenHolds
<1> QED BY <1>1, SoundAlways, PTL

-----------------------------------------------------------------------------
(* omassh's reading, and ssh's.                                            *)

\* Every Include is above the first Host or Match line, nothing hangs loose between, and the
\* file it names has nothing above its own first line.
IncludesFirst(f) ==
    \A i \in 1..Len(f) : f[i].kind = "include" =>
        /\ \A j \in 1..i : ~ IsLine(f[j])
        /\ \A j \in i..Len(f) : f[j].kind = "bare" => \E k \in i..j : IsLine(f[k])
        /\ StartsWithALine(Included)

\* Then the line a setting is under in omassh's reading is the one it is under in ssh's.
LEMMA SameStand ==
    ASSUME NEW f \in Bodies, IncludesFirst(f), NEW p \in Places(f), Sets(At(f, p)), NEW a
    PROVE  Stands(f, LinesAbove(f, p), a) <=> SshReads(f, p, a)
<1> DEFINE L == LinesAbove(f, p)
           ls == {q \in L : q[2] = 0}
           ms == {q \in L : q[2] # 0 /\ q[1] = p[1]}
<1>1. Len(f) \in Nat /\ Len(Included) \in Nat
  BY SSHConfigAssumption, LenProperties DEF Bodies
<1>2. /\ \A q \in Places(f) : q = <<q[1], q[2]>> /\ q[1] \in 1..Len(f) /\ q[2] \in 0..Len(Included)
      /\ Places(f) \in SUBSET (Nat \X Nat)
      /\ \A i \in 1..Len(f) : f[i].kind # "include" => <<i, 0>> \in Places(f) /\ At(f, <<i, 0>>) = f[i]
      /\ \A q \in Places(f) : q[2] = 0 => At(f, q) = f[q[1]]
  BY <1>1, PlacesAre
<1>3. \A q \in Places(f) : q[2] # 0 <=> f[q[1]].kind = "include"
  BY DEF Places
<1>4. L \in SUBSET Places(f) /\ \A q \in L : IsLine(At(f, q)) /\ Upto(q, p) /\ q[1] <= p[1]
  <2>1. L \in SUBSET Places(f) /\ \A q \in L : IsLine(At(f, q)) /\ Upto(q, p)
    BY DEF LinesAbove
  <2> HIDE DEF L
  <2>2. \A q \in L : q[1] <= p[1]
    BY <1>1, <1>2, <2>1 DEF Upto
  <2> QED BY <2>1, <2>2
<1>5. \A q \in Places(f) : IsLine(At(f, q)) /\ Upto(q, p) => q \in L
  BY DEF LinesAbove
<1>6. \A q, r \in Places(f) : q[2] = 0 /\ IsLine(At(f, q)) /\ r[2] # 0 => ~ Upto(q, r)
  <2> SUFFICES ASSUME NEW q \in Places(f), NEW r \in Places(f), q[2] = 0, IsLine(At(f, q)), r[2] # 0, Upto(q, r)
               PROVE  FALSE
    OBVIOUS
  <2>1. IsLine(f[q[1]]) /\ f[r[1]].kind = "include" /\ q[1] \in 1..Len(f) /\ r[1] \in 1..Len(f)
    BY <1>2, <1>3
  <2>2. q[1] \in 1..r[1]
    BY <1>1, <2>1 DEF Upto
  <2> QED BY <2>1, <2>2 DEF IncludesFirst
<1>7. ASSUME L # {} PROVE Nearest(L) \in L /\ \A q \in L : Upto(q, Nearest(L))
  BY <1>1, <1>7, LinesAre
<1>8. ASSUME NEW S \in SUBSET L, S # {} PROVE Nearest(S) \in S /\ \A q \in S : Upto(q, Nearest(S))
  BY <1>1, <1>8, LinesAre
<1>9. ASSUME NEW S \in SUBSET L, S # {}, Nearest(L) \in S PROVE Nearest(S) = Nearest(L)
  <2>1. L # {}
    BY <1>9
  <2>2. Nearest(S) \in S /\ Upto(Nearest(L), Nearest(S))
    BY <1>8, <1>9
  <2>3. Upto(Nearest(S), Nearest(L))
    BY <1>7, <2>1, <2>2
  <2>4. Nearest(S) \in Nat \X Nat /\ Nearest(L) \in Nat \X Nat
    BY <1>2, <1>4, <1>9, <2>2
  <2> QED BY <2>2, <2>3, <2>4, PlacesInOrder
<1>0. SshReads(f, p, a) <=> Stands(f, ls, a) /\ Stands(f, ms, a)
  BY DEF SshReads
<1>a. CASE p[2] = 0
  <2>1. ms = {}
    BY <1>2, <1>3, <1>4, <1>a
  <2>2. CASE ls = {}
    <3>1. ASSUME NEW q \in L PROVE FALSE
      <4>1. q \in Places(f) /\ q[2] # 0 /\ f[q[1]].kind = "include" /\ q[1] \in 1..Len(f) /\ q[1] <= p[1]
        BY <1>2, <1>3, <1>4, <2>2, <3>1
      <4>2. p[1] \in q[1]..Len(f) /\ p[1] \in 1..Len(f) /\ At(f, p) = f[p[1]]
        BY <1>1, <1>2, <1>a, <4>1
      <4>3. CASE IsLine(f[p[1]])
        <5>1. Upto(p, p)
          BY <1>1, <1>2 DEF Upto
        <5> QED BY <1>5, <1>a, <2>2, <4>2, <4>3, <5>1
      <4>4. CASE f[p[1]].kind = "bare"
        <5>1. PICK k \in q[1]..p[1] : IsLine(f[k])
          BY <4>1, <4>2, <4>4 DEF IncludesFirst
        <5>2. k \in 1..Len(f) /\ f[k].kind # "include"
          BY <1>1, <4>1, <4>2, <5>1 DEF IsLine
        <5>3. <<k, 0>> \in Places(f) /\ IsLine(At(f, <<k, 0>>))
          BY <1>2, <5>1, <5>2
        <5>4. Upto(<<k, 0>>, p)
          BY <1>a, <5>1, <5>2, <4>2 DEF Upto
        <5>5. <<k, 0>> \in L
          BY <1>5, <5>3, <5>4
        <5> QED BY <2>2, <5>5
      <4> QED BY <4>2, <4>3, <4>4 DEF Sets
    <3>2. L = {}
      BY <3>1
    <3> QED BY <1>0, <2>1, <2>2, <3>2 DEF Stands
  <2>3. CASE ls # {}
    <3>1. PICK l \in ls : TRUE
      BY <2>3
    <3>2. Nearest(L) \in L /\ Upto(l, Nearest(L))
      BY <1>7, <3>1
    <3>3. Nearest(L)[2] = 0
      BY <1>4, <1>6, <3>1, <3>2
    <3>4. Nearest(L) \in ls /\ ls \in SUBSET L
      BY <3>2, <3>3
    <3>5. Nearest(ls) = Nearest(L)
      BY <1>9, <2>3, <3>4
    <3>6. L # {}
      BY <3>2
    <3> QED BY <1>0, <2>1, <2>3, <3>5, <3>6 DEF Stands
  <2> QED BY <2>2, <2>3
<1>b. CASE p[2] # 0
  <2>1. ls = {}
    BY <1>4, <1>6, <1>b
  <2> DEFINE r == <<p[1], 1>>
  <2>2. StartsWithALine(Included) /\ Included # <<>>
    <3>1. f[p[1]].kind = "include" /\ p[1] \in 1..Len(f) /\ p[2] \in 1..Len(Included)
      BY <1>1, <1>2, <1>3, <1>b
    <3> QED BY <1>1, <3>1 DEF IncludesFirst
  <2>3. IsLine(Included[1]) /\ 1 \in 0..Len(Included)
    BY <1>1, <1>2, <1>b, <2>2 DEF StartsWithALine
  <2>4. r \in Places(f) /\ At(f, r) = Included[1]
    BY <1>2, <1>3, <1>b, <2>3 DEF Places, At
  <2>5. Upto(r, p) /\ r[1] = p[1] /\ r[2] = 1
    BY <1>1, <1>2, <1>b DEF Upto
  <2>6. r \in L
    BY <1>5, <2>3, <2>4, <2>5
  <2>7. r \in ms
    BY <2>5, <2>6
  <2> HIDE DEF r
  <2>8. Nearest(L) \in L /\ Upto(r, Nearest(L))
    BY <1>7, <2>6
  <2>9. Nearest(L)[1] = p[1] /\ Nearest(L)[2] # 0
    <3>1. Nearest(L) \in Places(f) /\ Nearest(L)[1] <= p[1]
      BY <1>4, <2>8
    <3>2. Nearest(L)[1] = p[1]
      BY <1>1, <1>2, <2>5, <2>8, <3>1 DEF Upto
    <3> QED BY <1>3, <1>b, <3>1, <3>2
  <2>10. Nearest(L) \in ms /\ ms \in SUBSET L
    BY <2>8, <2>9
  <2>11. Nearest(ms) = Nearest(L)
    BY <1>9, <2>7, <2>10
  <2> QED BY <1>0, <2>1, <2>6, <2>7, <2>11 DEF Stands
<1> QED BY <1>a, <1>b

\* The routes omassh finds for a name are the ones ssh does.
LEMMA ProxyIsRoute ==
    ASSUME NEW f \in Bodies, IncludesFirst(f), NEW a
    PROVE  Proxy(f, a) = SshRoute(f, a)
<1> DEFINE ps == UNION {Saying(f, a, s) : s \in Routes}
           qs == {p \in Places(f) : SshReads(f, p, a) /\ \E s \in Routes : At(f, p).sets[s] # None}
<1>1. \A p \in Places(f) : SshReads(f, p, a) => Sets(At(f, p))
  BY DEF SshReads
<1>2. \A p \in Places(f) : Sets(At(f, p)) => (Stands(f, LinesAbove(f, p), a) <=> SshReads(f, p, a))
  BY SameStand
<1>3. \A s : Saying(f, a, s) = {p \in Places(f) : SshReads(f, p, a) /\ At(f, p).sets[s] # None}
  BY <1>1, <1>2 DEF Saying
<1>4. ps = qs
  BY <1>3
<1>5. Proxy(f, a) = IF ps = {} \/ RouteOf(At(f, Foremost(ps))) = NoRoute THEN None ELSE RouteOf(At(f, Foremost(ps)))
  BY DEF Proxy
<1>6. SshRoute(f, a) = LET v == IF qs = {} THEN None ELSE RouteOf(At(f, Foremost(qs))) IN IF v = NoRoute THEN None ELSE v
  BY DEF SshRoute
<1> HIDE DEF ps, qs
<1> QED BY <1>4, <1>5, <1>6

\* A key under the machine's own name is taken before one of a pattern, of any file.
LEMMA OwnKeyIsTaken == config \in Seq(FileItems) => OwnKeyWins
<1> SUFFICES ASSUME config \in Seq(FileItems), NEW a \in NamedIn(config)
             PROVE  LET k == IdentityFor(config, a) ps == OutrightBy(config, a) IN
                    /\ ps # {} => \E p \in ps : At(config, p).sets["IdentityFile"] = k
                    /\ (k = None) = (ps = {} /\ Get(config, a, "IdentityFile") = None)
  BY DEF OwnKeyWins, FromSSHConfig
<1> DEFINE ps == OutrightBy(config, a)
<1>1. Places(config) \in SUBSET (Nat \X Nat)
  BY PlacesAre, LenProperties
<1>2. ps \in SUBSET Places(config) /\ \A p \in ps : At(config, p).sets["IdentityFile"] # None
  BY DEF OutrightBy
<1>3. IdentityFor(config, a) = IF ps # {} THEN First(config, ps, "IdentityFile") ELSE Get(config, a, "IdentityFile")
  BY DEF IdentityFor
<1> HIDE DEF ps
<1>4. CASE ps = {}
  BY <1>3, <1>4 DEF ps
<1>5. CASE ps # {}
  <2>1. Foremost(ps) \in ps
    BY <1>1, <1>2, <1>5, ForemostIs
  <2>2. IdentityFor(config, a) = At(config, Foremost(ps)).sets["IdentityFile"]
    BY <1>3, <1>5 DEF First
  <2> QED BY <1>2, <1>5, <2>1, <2>2 DEF ps
<1> QED BY <1>4, <1>5

\* As long as every Include of the user's is above the first Host line, omassh reads of the file
\* what ssh does: the key of each name, its own before a pattern's, and the route it takes.
THEOREM ReadAlike == SSHSpec /\ []IncludesFirst(StripBlock(config)) => []ReadAsSshReads
<1>1. Sound /\ IncludesFirst(StripBlock(config)) => ReadAsSshReads
  <2> SUFFICES ASSUME Sound, IncludesFirst(StripBlock(config)) PROVE ReadAsSshReads
    OBVIOUS
  <2>1. config \in Seq(FileItems)
    BY DEF Sound, SSHTypes, FileItems
  <2>2. StripBlock(config) \in Bodies
    BY <2>1, StripIsBody
  <2>3. ProxyIsSshs
    BY <2>2, ProxyIsRoute DEF ProxyIsSshs
  <2>4. OwnKeyWins
    BY <2>1, OwnKeyIsTaken
  <2> QED BY <2>3, <2>4 DEF ReadAsSshReads
<1> QED BY <1>1, SoundAlways, PTL

=============================================================================
