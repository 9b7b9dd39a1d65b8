---------------------------------- MODULE Theme ----------------------------------
(***************************************************************************)
(* The theme of a window: the picker that recolours the interface as its   *)
(* cursor moves, the watch that follows Omarchy's own theme                *)
(* (internal/ui/themes.go, internal/ui/theme/omarchy.go), and the line of  *)
(* the config file the choice is kept in (internal/config/write.go,        *)
(* internal/safefile).  The window runs beside Omarchy, which may change   *)
(* its theme at any moment, and beside an editor the file is open in.      *)
(*                                                                         *)
(* The handlers run one at a time; the one that saves is in steps, for the *)
(* disk may fail and the process be killed between any two of them.        *)
(***************************************************************************)
EXTENDS Integers

CONSTANTS
    Builtin,     \* the palettes built in,
    DefaultName, \* the one of a file that names none,
    Aliases,     \* names a palette used to have, all of the same one
    Own,         \* names of which the config file defines a palette itself
    Shades,      \* the colours Omarchy may be set to
    MaxSwitches, \* how often it is,
    MaxRemovals, \* how often its files are taken away
    MaxEdits,    \* how often the file is edited by hand,
    MaxCrashes,  \* and the process killed
    Omarchy,     \* theme.OmarchyName
    Gone,        \* no file; no picker; no save
    Half         \* a file half written

ASSUME ThemeAssumption == /\ DefaultName \in Builtin
                          /\ Omarchy \notin Builtin \cup Aliases
                          /\ {MaxSwitches, MaxRemovals, MaxEdits, MaxCrashes} \subseteq Nat

Names == Builtin \cup {Omarchy}

Every == Names \cup Aliases \cup Own

\* What the config file says, as far as this goes; a save of it; the picker.
Texts == [theme : Every \cup {Gone}, note : BOOLEAN, rest : 0..MaxEdits]
Saves == [at : {"read", "create", "write", "rename"}, name : Names \cup Own, body : Texts \cup {Gone}]
Pickers == [names : SUBSET (Names \cup Own), was : Every, at : Names \cup Own]

\* No text and half a text are not texts; nor is no save a save, or no picker one.
ASSUME ThemeTexts == Gone # Half /\ {Gone, Half} \cap Texts = {} /\ Gone \notin Saves \cup Pickers

VARIABLES
    token, colours, \* Omarchy: theme.generation and colors.toml,
    coming,         \* the theme the token has been written for already,
    removals,
    running,        \* the window: "off", "starting" (the palette read, nothing followed yet) or "on"
    theme,          \* m.opts.Theme
    shown,          \* what theme.Apply was last given
    picker,         \* m.themes: its list, its cursor, and what was in effect
    watching,       \* m.watchingOmarchy
    stamp,          \* m.omarchyStamp
    ticks,          \* the ticks on their way
    file,           \* the config file: the theme it names, a note beside that, and the rest
    saving,         \* SetTheme, and how far Replace is
    tmp,            \* the files .omassh-* beside it
    crashes,
    unpainted,      \* HISTORY: the cursor came to be on a palette that is not drawn
    late,           \* HISTORY: Omarchy changed when its palette had been read and its stamp had not
    stranded,       \* HISTORY: the saves that were killed halfway
    edited,         \* HISTORY: the file was edited since SetTheme read it
    told            \* HISTORY: the theme last said to be saved, with no edit since

omarchy == <<token, colours, coming, removals>>
window  == <<running, theme, shown, picker, watching, stamp, ticks, unpainted>>
disk    == <<file, saving, tmp, stranded, edited, told>>
vars    == <<token, colours, coming, removals, running, theme, shown, picker, watching, stamp, ticks,
             file, saving, tmp, crashes, unpainted, late, stranded, edited, told>>

\* The program is not inside a handler.
Idle == running = "on" /\ saving = Gone

-----------------------------------------------------------------------------
(* The palettes.                                                           *)

OmarchyAvailable == colours # Gone
\* A mistake: the token alone.
TokenAlone == <<token>>
\* What changes when Omarchy's theme does.
OmarchyStamp == <<token, colours>>

Lookup(name) == IF name \in Aliases THEN DefaultName ELSE name
\* Model.palette: the file's own before the built in; Omarchy's, where it can be read.
Palette(name) == [name |-> Lookup(name),
                  of   |-> IF name \in Own THEN "own" ELSE IF name = Omarchy THEN colours ELSE "built in"]
\* themeNames.
Offered == Builtin \cup Own \cup (IF OmarchyAvailable THEN {Omarchy} ELSE {})

Paint(palette) == shown' = palette /\ unpainted' = FALSE /\ late' = FALSE

-----------------------------------------------------------------------------
(* Following Omarchy.                                                      *)

\* A mistake: nothing asked of the flag.
MustFollow(name) == name = Omarchy
\* A mistake: the flag left standing when the watch ends.
StillWatching == watching' = watching
Follows(name) == ~ watching /\ name = Omarchy
Unfollow == watching' = FALSE

\* watchOmarchy.
WatchOmarchy(name) ==
    IF Follows(name)
    THEN watching' = TRUE /\ stamp' = OmarchyStamp /\ ticks' = ticks + 1
    ELSE UNCHANGED <<watching, stamp, ticks>>

\* handleOmarchyTick, whatever is open over the hosts.
Tick ==
    /\ Idle /\ ticks > 0
    /\ IF theme # Omarchy
       THEN Unfollow /\ ticks' = ticks - 1 /\ UNCHANGED <<stamp, shown, unpainted, late>>
       ELSE /\ stamp' = OmarchyStamp
            /\ UNCHANGED <<watching, ticks>>
            /\ IF OmarchyStamp = stamp \/ ~ OmarchyAvailable
               THEN UNCHANGED <<shown, unpainted, late>>
               ELSE /\ shown' = [name |-> Omarchy, of |-> colours]
                    /\ unpainted' = IF picker = Gone THEN FALSE ELSE picker.at # Omarchy
                    /\ late' = FALSE
    /\ UNCHANGED <<omarchy, running, theme, picker, disk, crashes>>

-----------------------------------------------------------------------------
(* The picker.                                                             *)

\* openThemePicker: the cursor on the theme in effect, or on the first of the list.
OpenPicker ==
    /\ Idle /\ picker = Gone
    /\ \E first \in Offered :
          /\ picker' = [names |-> Offered, was |-> theme, at |-> IF theme \in Offered THEN theme ELSE first]
          /\ unpainted' = (unpainted \/ picker'.at # theme)
    /\ UNCHANGED <<omarchy, running, theme, shown, watching, stamp, ticks, disk, crashes, late>>

\* handleThemeKey, the cursor up and down.
Move ==
    /\ Idle /\ picker # Gone
    /\ \E n \in picker.names \ {picker.at} : picker' = [picker EXCEPT !.at = n] /\ Paint(Palette(n))
    /\ UNCHANGED <<omarchy, running, theme, watching, stamp, ticks, disk, crashes>>

\* A mistake: the palette left as the cursor had it.
LeftAsIs == shown' = shown /\ unpainted' = FALSE /\ late' = FALSE
PutBack == Paint(Palette(picker.was))
\* ... esc and q.
Esc ==
    /\ Idle /\ picker # Gone
    /\ PutBack /\ picker' = Gone
    /\ UNCHANGED <<omarchy, running, theme, watching, stamp, ticks, disk, crashes>>

\* keepTheme, and with it SetTheme as far as it reads the file.
KeepTheme ==
    /\ Idle /\ picker # Gone
    /\ theme' = picker.at /\ picker' = Gone
    /\ WatchOmarchy(picker.at)
    /\ saving' = [at |-> "read", name |-> picker.at, body |-> Gone]
    /\ edited' = FALSE
    /\ UNCHANGED <<omarchy, running, shown, unpainted, file, tmp, crashes, late, stranded, told>>

-----------------------------------------------------------------------------
(* The config file: SetTheme and Replace.                                  *)

\* A mistake: the file written anew from the settings that were read.
Rendered(f, name) == [theme |-> name, note |-> FALSE, rest |-> IF f = Gone THEN 0 ELSE f.rest]
\* The line of the theme alone; at the top where there was none; a file of its own where there was no file.
Rewritten(f, name) == IF f = Gone THEN [theme |-> name, note |-> FALSE, rest |-> 0] ELSE [f EXCEPT !.theme = name]

\* A mistake: the file itself opened and written.
InPlace(to) == file' = (IF saving.at = "write" THEN Half ELSE file) /\ tmp' = tmp
\* os.CreateTemp's, and what becomes of it.
Beside(to) == file' = file /\ tmp' = to

\* A mistake: the file beside not removed.
LeftBeside == tmp' = tmp
\* A mistake: removed where it failed and once more by the defer.
RemovedTwice == tmp' = tmp - 2
\* The deferred os.Remove, after a failure.
RemoveTmp == tmp' = tmp - 1

Read == /\ running = "on" /\ saving # Gone /\ saving.at = "read"
        /\ \/ saving' = [saving EXCEPT !.at = "create", !.body = Rewritten(file, saving.name)] /\ told' = told
           \/ saving' = Gone /\ told' = Gone
        /\ UNCHANGED <<omarchy, window, file, tmp, crashes, late, stranded, edited>>

\* One step of Replace: it goes on to the next, or fails and the save with it.
Create == /\ running = "on" /\ saving # Gone /\ saving.at = "create"
          /\ \/ saving' = [saving EXCEPT !.at = "write"] /\ Beside(tmp + 1) /\ told' = told
             \/ saving' = Gone /\ Beside(tmp) /\ told' = Gone
          /\ UNCHANGED <<omarchy, window, crashes, late, stranded, edited>>
Write ==  /\ running = "on" /\ saving # Gone /\ saving.at = "write"
          /\ \/ saving' = [saving EXCEPT !.at = "rename"] /\ Beside(tmp) /\ told' = told
             \/ saving' = Gone /\ file' = file /\ RemoveTmp /\ told' = Gone
          /\ UNCHANGED <<omarchy, window, crashes, late, stranded, edited>>

\* A mistake: an error of os.Rename not looked at.
SaidAnyway(done) == told' = saving.name
\* What keepTheme says of it.
Said(done) == told' = IF done THEN saving.name ELSE Gone

Rename == /\ running = "on" /\ saving # Gone /\ saving.at = "rename"
          /\ \/ file' = saving.body /\ tmp' = tmp - 1 /\ Said(TRUE)
             \/ file' = file /\ RemoveTmp /\ Said(FALSE)
          /\ saving' = Gone
          /\ UNCHANGED <<omarchy, window, crashes, late, stranded, edited>>

-----------------------------------------------------------------------------
(* The process, Omarchy, and the editor.                                   *)

\* browse: config.Load, Config.Palette and theme.Apply, refused where the theme cannot be drawn.
Start ==
    /\ running = "off" /\ file # Half
    /\ theme' = IF file = Gone \/ file.theme = Gone THEN DefaultName ELSE file.theme
    /\ theme' # Omarchy \/ theme' \in Own \/ OmarchyAvailable
    /\ Paint(Palette(theme'))
    /\ running' = "starting" /\ picker' = Gone /\ watching' = FALSE /\ ticks' = 0 /\ stamp' = <<>>
    /\ UNCHANGED <<omarchy, disk, crashes>>

\* New, and Init, which sends the first tick.
Begin ==
    /\ running = "starting" /\ running' = "on"
    /\ WatchOmarchy(theme)
    /\ UNCHANGED <<omarchy, theme, shown, picker, unpainted, disk, crashes, late>>

Close == picker' = Gone /\ watching' = FALSE /\ ticks' = 0 /\ stamp' = <<>> /\ unpainted' = FALSE /\ late' = FALSE
Quit == /\ Idle /\ picker = Gone /\ running' = "off" /\ Close
        /\ UNCHANGED <<omarchy, theme, shown, disk, crashes>>
Crash == /\ running = "on" /\ crashes < MaxCrashes /\ crashes' = crashes + 1
         /\ running' = "off" /\ Close
         /\ saving' = Gone
         /\ stranded' = IF saving # Gone /\ saving.at \in {"write", "rename"} THEN stranded + 1 ELSE stranded
         /\ UNCHANGED <<omarchy, theme, shown, file, tmp, edited, told>>

\* Omarchy's palette is read, and its stamp is not taken yet.
Unstamped == \/ running = "starting" /\ theme = Omarchy
             \/ picker # Gone /\ theme # Omarchy /\ shown.name = Omarchy
Changes(c) == colours' = c /\ late' = (late \/ Unstamped)

\* omarchy-theme-set: the token, and then the link.
SetsToken == /\ coming = Gone /\ token < MaxSwitches /\ token' = token + 1
             /\ \E c \in Shades : coming' = c
             /\ UNCHANGED <<colours, removals, window, disk, crashes, late>>
Repoints == /\ coming # Gone /\ Changes(coming) /\ coming' = Gone
            /\ UNCHANGED <<token, removals, window, disk, crashes>>
Removed == /\ colours # Gone /\ coming = Gone /\ removals < MaxRemovals /\ removals' = removals + 1 /\ Changes(Gone)
           /\ UNCHANGED <<token, coming, window, disk, crashes>>

\* An editor saves the whole file: another theme, a note, the rest.
Edit == /\ \E t \in Names \cup Aliases \cup Own \cup {Gone}, note \in BOOLEAN :
              /\ note => t # Gone
              /\ LET r == IF file \in {Gone, Half} THEN 0 ELSE file.rest
                 IN  r < MaxEdits /\ file' = [theme |-> t, note |-> note, rest |-> r + 1]
        /\ edited' = TRUE /\ told' = Gone
        /\ UNCHANGED <<omarchy, window, saving, tmp, crashes, late, stranded>>

Init ==
    /\ token = 0 /\ colours \in Shades \cup {Gone} /\ coming = Gone /\ removals = 0
    /\ running = "off" /\ theme = DefaultName /\ shown = Palette(DefaultName)
    /\ picker = Gone /\ watching = FALSE /\ stamp = <<>> /\ ticks = 0
    /\ file \in {Gone} \cup [theme : Builtin \cup Aliases \cup {Gone}, note : {FALSE}, rest : {0}]
    /\ saving = Gone /\ tmp = 0 /\ crashes = 0
    /\ unpainted = FALSE /\ late = FALSE /\ stranded = 0 /\ edited = FALSE /\ told = Gone

Key == OpenPicker \/ Move \/ Esc \/ KeepTheme
Save == Read \/ Create \/ Write \/ Rename
Outside == SetsToken \/ Repoints \/ Removed \/ Edit
Next == Key \/ Tick \/ Save \/ Start \/ Begin \/ Quit \/ Crash \/ Outside

Spec == Init /\ [][Next]_vars /\ WF_vars(Tick) /\ WF_vars(Save) /\ WF_vars(Begin) /\ WF_vars(Repoints)

-----------------------------------------------------------------------------
(* Correctness.                                                            *)

Looks == [name : Builtin \cup Own \cup {Omarchy}, of : {"own", "built in", Gone} \cup Shades]

\* Type correctness: each variable holds what themes.go, write.go and safefile.go put in it.
TypeOK ==
    /\ token \in 0..MaxSwitches /\ {colours, coming} \subseteq Shades \cup {Gone} /\ removals \in 0..MaxRemovals
    /\ running \in {"off", "starting", "on"} /\ theme \in Every /\ shown \in Looks
    /\ picker = Gone \/ picker \in Pickers
    /\ watching \in BOOLEAN /\ ticks \in Nat
    /\ stamp = <<>> \/ stamp \in (0..MaxSwitches) \X (Shades \cup {Gone})
    /\ file = Gone \/ file \in Texts
    /\ saving = Gone \/ saving \in Saves
    /\ tmp \in Nat /\ stranded \in 0..MaxCrashes /\ crashes \in 0..MaxCrashes
    /\ {unpainted, late, edited} \subseteq BOOLEAN /\ told \in Names \cup Own \cup {Gone}

\* With the picker closed the interface wears the theme in effect, however the
\* cursor went and whatever Omarchy did, unless the cursor was on a palette that
\* had not been drawn (Esc, KeepTheme, Tick; themes.go:14).
KeptIsShown == running # "off" /\ picker = Gone /\ ~ unpainted
               => shown.name = Lookup(theme) /\ (theme \in Own \ {Omarchy} => shown.of = "own")

\* Omarchy is watched as long as its theme is in effect, by one tick and never
\* by two, however often the picker goes to it and away (WatchOmarchy, Tick; themes.go:102).
OneWatch == /\ ticks = IF watching THEN 1 ELSE 0
            /\ running = "on" /\ theme = Omarchy => watching

\* What is changed in the config file is the theme and nothing else: the notes
\* and the settings beside it stay, unless they were edited while the file was
\* being saved (SetTheme; write.go:12).
OnlyTheThemeChanges ==
    [][ saving # Gone /\ file' # file /\ file # Gone /\ ~ edited /\ ~ edited'
        => file' = [file EXCEPT !.theme = saving.name] ]_vars

\* The file is never half written, and nothing is left beside it but what a kill
\* left there (Replace; safefile.go:16).
FileIsWhole == file # Half /\ (saving = Gone => tmp = stranded)

\* A theme said to be saved is the one of the next start (keepTheme; themes.go:19).
SaidIsSaved == told # Gone => file \notin {Gone, Half} /\ file.theme = told

\* Omarchy's theme set is soon worn, also where the token is seen before the
\* colours, unless it changed just where its palette was being read
\* (handleOmarchyTick; omarchy.go:60).
FollowsOmarchy ==
    (running = "on" /\ theme = Omarchy /\ Omarchy \notin Own /\ OmarchyAvailable /\ ~ late)
        ~> (shown.of = colours \/ running # "on" \/ theme # Omarchy \/ picker # Gone \/ ~ OmarchyAvailable)

-----------------------------------------------------------------------------
(* What the docs and comments say and the code does not do.                *)

\* themes.go:219, "The colours are already applied": KeptIsShown of every cursor.
KeptIsAlwaysShown == running # "off" /\ picker = Gone => shown.name = Lookup(theme)
\* themes.go:49, "A custom palette sharing a built-in's name [...] wins": also Omarchy's, once it is watched.
OwnWins == running # "off" /\ picker = Gone /\ ~ unpainted /\ theme \in Own => shown.of = "own"
\* write.go:12, "leaving the rest of it exactly as it was": also an edit made meanwhile.
NoEditIsLost == [][saving # Gone /\ file' # file /\ file # Gone /\ file' # Gone => file'.rest >= file.rest]_vars
\* omarchy.go:63, "whoever is watching [...] lands on the right palette".
AlwaysFollows == (running = "on" /\ theme = Omarchy /\ OmarchyAvailable) ~>
        (shown.of = colours \/ running # "on" \/ theme # Omarchy \/ picker # Gone \/ ~ OmarchyAvailable)


\* The file is whole, is the one that was said to be saved, and keeps what is not the theme.
FileIsAsSaid == [](FileIsWhole /\ SaidIsSaved) /\ OnlyTheThemeChanges

\* Omarchy's theme is watched by one tick, and followed.
OmarchyIsFollowed == []OneWatch /\ FollowsOmarchy
=============================================================================
