------------------------------- MODULE SSHConfig -------------------------------
(***************************************************************************)
(* OpenSSH's client config, which omassh writes a block of its hosts into  *)
(* and reads its aliases and routes out of: internal/portable's            *)
(* sshexport.go and sshconfig.go, and the commands around them.            *)
(*                                                                         *)
(* The file is a sequence of items: a Host or Match line with the settings *)
(* under it, settings under no line of their own, an Include, and the      *)
(* markers of omassh's block.  A name is <<name, spelling>>, for ssh tells *)
(* the spellings apart and omassh does not.  Quoting, tokens and comments  *)
(* are left out; an Include names one file, that includes no other.        *)
(***************************************************************************)
EXTENDS Integers, Sequences, FiniteSets, SequencesExt

CONSTANTS
    Items,      \* what a user writes in the config, an Include among it
    Included,   \* the items of the file included
    HostChoice, \* the hosts omassh may have, resolved
    Unusable,   \* names ssh would not take as a destination
    MaxItems,   \* how long the user's own part of the file gets,
    MaxHosts,   \* and omassh's list
    MaxChanges, \* the edits of each
    MaxExports,
    None

\* The pattern of every name, and the route that is none.
Star == <<"*", "">>
NoRoute == <<"none", "">>
BlockStart == [kind |-> "start"]
BlockEnd == [kind |-> "end"]
IsMark(x) == x.kind \in {"start", "end"}
Settings == {"HostName", "Port", "User", "IdentityFile", "ProxyJump", "ProxyCommand"}
Routes == {"ProxyJump", "ProxyCommand"}
Unset == [s \in Settings |-> None]
key(a) == a[1]

\* Items that what follows stands under, and those that set something.
IsLine(x) == x.kind \in {"host", "match", "opaque"}
Sets(x) == IsLine(x) \/ x.kind = "bare"

\* A file is of lines, settings and Includes; one that is included includes no
\* other; a host has an address, and none is called "none".
ASSUME SSHConfigAssumption ==
    /\ \A x \in Items : Sets(x) \/ x.kind = "include"
    /\ Len(Included) \in Nat /\ \A j \in 1..Len(Included) : Sets(Included[j])
    /\ \A h \in HostChoice : h.addr # None /\ h.jump # NoRoute
    /\ MaxHosts \in Nat /\ MaxItems \in Nat /\ MaxChanges \in Nat /\ MaxExports \in Nat

VARIABLES
    config,    \* the file,
    hosts,     \* and omassh's hosts
    export,    \* an export under way: what it has read so far
    changes, exports,
    touched,   \* HISTORY: the file was edited since the export began
    written    \* HISTORY: the hosts just written, with no edit since

sshVars == <<config, hosts, export, changes, exports, touched, written>>

-----------------------------------------------------------------------------
(* The file's own part.                                                    *)

MarksBefore(f, i) == Cardinality({j \in 1..i : IsMark(f[j])})
\* The markers pair up; stripBlock refuses the file otherwise.
Paired(f) ==
    /\ \A i \in 1..Len(f) : IsMark(f[i]) => (f[i] = BlockStart) = (MarksBefore(f, i) % 2 = 1)
    /\ MarksBefore(f, Len(f)) % 2 = 0

\* A mistake: the file taken up to the marker, and nothing after it.
UpToTheBlock(f) == LET i == SelectInSeq(f, IsMark) IN IF i = 0 THEN f ELSE SubSeq(f, 1, i - 1)
\* stripBlock: what lies outside the markers.
UsersOwn(f) == {i \in 1..Len(f) : ~ IsMark(f[i]) /\ MarksBefore(f, i) % 2 = 0}
StripBlock(f) == [n \in 1..Cardinality(UsersOwn(f)) |->
                    f[CHOOSE i \in UsersOwn(f) : Cardinality({j \in UsersOwn(f) : j <= i}) = n]]

-----------------------------------------------------------------------------
(* Where things stand.                                                     *)

\* The places of a file: <<i, 0>> is its item i, <<i, j>> item j of the file it includes there.
At(f, p) == IF p[2] = 0 THEN f[p[1]] ELSE Included[p[2]]
Places(f) == {p \in (1..Len(f)) \X (0..Len(Included)) : (p[2] = 0) = (f[p[1]].kind # "include")}
Upto(p, q) == p[1] < q[1] \/ (p[1] = q[1] /\ p[2] <= q[2])
Foremost(ps) == CHOOSE p \in ps : \A q \in ps : Upto(p, q)
Nearest(ps) == CHOOSE p \in ps : \A q \in ps : Upto(q, p)

LinesAbove(f, p) == {q \in Places(f) : IsLine(At(f, q)) /\ Upto(q, p)}
\* A Host line, a Match originalhost, and inertMatches' Match that cannot be answered.
Matches(b, a) == b.kind # "opaque" /\ (Star \in b.on \/ a \in b.on) /\ a \notin b.not
\* The last of the lines is for a, or there is none.
Stands(f, ls, a) == ls = {} \/ Matches(At(f, Nearest(ls)), a)
\* The first value of a setting.
First(f, ps, s) == IF ps = {} THEN None ELSE At(f, Foremost(ps)).sets[s]

-----------------------------------------------------------------------------
(* Reading it.                                                             *)

\* expandIncludes and the blocks: a setting is of the last line before it, in whichever file.
Saying(f, a, s) == {p \in Places(f) : /\ Sets(At(f, p)) /\ At(f, p).sets[s] # None
                                      /\ Stands(f, LinesAbove(f, p), a)}
\* Config.Get.
Get(f, a, s) == First(f, Saying(f, a, s), s)

\* namesOutright.
OutrightBy(f, a) == {p \in Places(f) : /\ At(f, p).kind = "host"
                                       /\ key(a) \in {key(b) : b \in At(f, p).on \ {Star}}
                                       /\ At(f, p).sets["IdentityFile"] # None}
\* A mistake: the first that applies.
FirstKey(f, a) == Get(f, a, "IdentityFile")
\* identityFor: a key under the host's own name before one of a pattern.
IdentityFor(f, a) == IF OutrightBy(f, a) # {} THEN First(f, OutrightBy(f, a), "IdentityFile")
                     ELSE Get(f, a, "IdentityFile")

\* reaches.
Reaches(f, a) == <<LET h == Get(f, a, "HostName") IN IF h = None THEN a ELSE h,
                   LET p == Get(f, a, "Port") IN IF p = None THEN 22 ELSE p>>

NamedIn(f) == UNION {At(f, p).on \ {Star} : p \in {q \in Places(f) : At(f, q).kind = "host"}}
\* FromSSHConfig, of the spelling met first; of two, the file's order decides.
FromSSHConfig(f) ==
    [a \in NamedIn(f) |->
        [addr |-> Reaches(f, a)[1], port |-> IF Reaches(f, a)[2] = 22 THEN None ELSE Reaches(f, a)[2],
         user |-> Get(f, a, "User"), key |-> IdentityFor(f, a),
         jump |-> LET j == Get(f, a, "ProxyJump") IN IF j = NoRoute THEN None ELSE j]]

\* DeclaredAliases, of ownConfig.
Declared(f) == {key(a) : a \in NamedIn(StripBlock(f))}

\* The route an item gives.
RouteOf(x) == IF x.sets["ProxyJump"] # None THEN x.sets["ProxyJump"] ELSE x.sets["ProxyCommand"]
\* Proxy: the first of either, none included.
Proxy(f, a) == LET ps == UNION {Saying(f, a, s) : s \in Routes}
               IN  IF ps = {} \/ RouteOf(At(f, Foremost(ps))) = NoRoute THEN None
                   ELSE RouteOf(At(f, Foremost(ps)))

-----------------------------------------------------------------------------
(* What ssh makes of the file.                                             *)

\* What stands at p is read for a: its line, in its own file, is for a, and so is the one
\* that an Include stands under.
SshReads(f, p, a) ==
    /\ Sets(At(f, p))
    /\ Stands(f, {q \in LinesAbove(f, p) : q[2] = 0}, a)
    /\ Stands(f, {q \in LinesAbove(f, p) : q[2] # 0 /\ q[1] = p[1]}, a)
\* The first value of a setting.
SshGet(f, a, s) == First(f, {p \in Places(f) : SshReads(f, p, a) /\ At(f, p).sets[s] # None}, s)
\* The route ssh takes: ProxyJump and ProxyCommand each set only where neither is.
SshRoute(f, a) ==
    LET ps == {p \in Places(f) : SshReads(f, p, a) /\ \E s \in Routes : At(f, p).sets[s] # None}
        v  == IF ps = {} THEN None ELSE RouteOf(At(f, Foremost(ps)))
    IN  IF v = NoRoute THEN None ELSE v

-----------------------------------------------------------------------------
(* Writing it.                                                             *)

\* usableAlias, and a name the file does not declare.
Usable(h, declared) == h.name \notin Unusable \cup {Star} /\ key(h.name) \notin declared

Known(keep, declared, all, j) ==
    \/ j = None
    \/ key(j) \notin {key(h.name) : h \in all}
    \/ key(j) \in {key(h.name) : h \in keep} \cup declared
\* A mistake: looked through once.
Once(keep, declared, all) == {h \in keep : Known(keep, declared, all, h.jump)}
\* withReachableJumps: the most of them that name no jump host left out, which is where it settles.
Settled(keep, declared, all) ==
    UNION {S \in SUBSET keep : \A h \in S : Known(S, declared, all, h.jump)}

\* sshEntry.
Entry(h) == [kind |-> "host", on |-> {h.name}, not |-> {},
             sets |-> [Unset EXCEPT !["HostName"] = h.addr, !["Port"] = IF h.port = 22 THEN None ELSE h.port,
                                    !["User"] = h.user, !["IdentityFile"] = h.key, !["ProxyJump"] = h.jump]]

Kept(declared, hs) == Settled({h \in hs : Usable(h, declared)}, declared, hs)
Block(kept) == <<BlockStart>> \o [i \in 1..Len(kept) |-> Entry(kept[i])] \o <<BlockEnd>>
\* ExportSSHConfig: the block, and the rest under it.
Composed(kept, body) == Block(kept) \o body
Exported(f, declared, hs) == Composed(SetToSeq(Kept(declared, hs)), StripBlock(f))

-----------------------------------------------------------------------------
(* export-ssh-config, the user's editor, and omassh's list.                *)

\* A list of hosts, no two of one name.
Lists == {hs \in SUBSET HostChoice : /\ IsFiniteSet(hs) /\ Cardinality(hs) <= MaxHosts
                                     /\ \A x, y \in hs : key(x.name) = key(y.name) => x = y}

\* The hosts, and DeclaredAliases.
BeginExport ==
    /\ export = None /\ exports < MaxExports /\ exports' = exports + 1
    /\ Paired(config)
    /\ export' = [hosts |-> hosts, declared |-> Declared(config), read |-> None]
    /\ touched' = FALSE /\ written' = None
    /\ UNCHANGED <<config, hosts, changes>>
\* os.ReadFile, and ExportSSHConfig as far as it refuses.
ReadFile ==
    /\ export # None /\ export.read = None
    /\ export' = IF ~ Paired(config) THEN None
                 ELSE [hosts |-> export.hosts, declared |-> export.declared, read |-> config]
    /\ UNCHANGED <<config, hosts, changes, exports, touched, written>>
\* safefile.Replace.
ReplaceFile ==
    /\ export # None /\ export.read # None
    /\ config' = Exported(export.read, export.declared, export.hosts)
    /\ written' = IF hosts = export.hosts /\ ~ touched THEN Kept(export.declared, export.hosts) ELSE None
    /\ export' = None
    /\ UNCHANGED <<hosts, changes, exports, touched>>

\* The user writes an item, anywhere outside omassh's block, or strikes any line of the file.
EditFile ==
    /\ changes < MaxChanges /\ changes' = changes + 1
    /\ \/ /\ Paired(config) /\ Len(StripBlock(config)) < MaxItems
          /\ \E x \in Items, i \in 1..(Len(config) + 1) :
                MarksBefore(config, i - 1) % 2 = 0 /\ config' = InsertAt(config, i, x)
       \/ \E i \in 1..Len(config) : config' = RemoveAt(config, i)
    /\ touched' = TRUE /\ written' = None
    /\ UNCHANGED <<hosts, export, exports>>
\* A host saved in omassh.
SaveHost ==
    /\ changes < MaxChanges /\ changes' = changes + 1
    /\ \E h \in HostChoice \ hosts : hosts' = {x \in hosts : key(x.name) # key(h.name)} \cup {h}
    /\ hosts' \in Lists
    /\ written' = None
    /\ UNCHANGED <<config, export, exports, touched>>

SSHInit ==
    /\ config \in SeqOf(Items, MaxItems) /\ hosts \in Lists
    /\ export = None /\ changes = 0 /\ exports = 0 /\ touched = FALSE /\ written = None
Export == BeginExport \/ ReadFile \/ ReplaceFile
SSHNext == Export \/ EditFile \/ SaveHost
SSHSpec == SSHInit /\ [][SSHNext]_sshVars

-----------------------------------------------------------------------------
(* Correctness.                                                            *)

\* Type correctness: the file holds items, the list hosts, an export what it read.
SSHTypes ==
    /\ config \in Seq(Items \cup {BlockStart, BlockEnd} \cup {Entry(h) : h \in HostChoice})
    /\ hosts \in Lists
    /\ export # None => export.hosts \in Lists
    /\ changes \in 0..MaxChanges /\ exports \in 0..MaxExports /\ touched \in BOOLEAN

Replaced == export # None /\ export.read # None /\ export' = None

\* What the user wrote comes back as it was, in its order, below one block of
\* omassh's, however many were there and wherever they stood (ExportSSHConfig;
\* sshexport.go:14).
OwnLinesKept ==
    [][ Replaced /\ ~ touched
        => StripBlock(config') = StripBlock(config) /\ MarksBefore(config', Len(config')) = 2 ]_sshVars

\* A name the user's file declares goes where it went: to the same machine, as
\* the same user, with the same key and by the same route (ExportSSHConfig; sshexport.go:51).
OwnAliasesKept ==
    [][ Replaced /\ ~ touched
        => \A a \in NamedIn(StripBlock(config)) :
              /\ \A s \in Settings \ Routes : SshGet(config', a, s) = SshGet(StripBlock(config), a, s)
              /\ SshRoute(config', a) = SshRoute(StripBlock(config), a) ]_sshVars

\* A host that was written is reached by its name as omassh reaches it, whatever
\* the file says of a pattern it falls under (ExportSSHConfig; sshexport.go:30).
WrittenIsReached ==
    written # None => \A h \in written :
        /\ SshGet(config, h.name, "HostName") = h.addr
        /\ h.port \notin {None, 22} => SshGet(config, h.name, "Port") = h.port
        /\ h.user # None => SshGet(config, h.name, "User") = h.user
        /\ h.key # None => SshGet(config, h.name, "IdentityFile") = h.key
        /\ h.jump # None => SshRoute(config, h.name) = h.jump

\* No host is written that jumps through one of ours that is neither written nor
\* the file's own, at any depth (withReachableJumps; sshexport.go:95).
JumpsAreThere ==
    written # None => \A h \in written :
        h.jump # None /\ key(h.jump) \in {key(x.name) : x \in hosts}
           => key(h.jump) \in {key(a) : a \in NamedIn(config)}

\* A second export of the same hosts leaves the file as it is (ExportSSHConfig; sshexport.go:273).
AgainTheSame ==
    written # None => Paired(config) /\ Exported(config, Declared(config), hosts) = config

\* The key omassh takes for a machine the file names is one written under its
\* name, where there is one, and is always one ssh would offer it (identityFor; sshconfig.go:361).
OwnKeyWins ==
    \A a \in NamedIn(config) :
        LET k == FromSSHConfig(config)[a].key
        IN  /\ OutrightBy(config, a) # {} => \E p \in OutrightBy(config, a) : At(config, p).sets["IdentityFile"] = k
            /\ (k = None) = (OutrightBy(config, a) = {} /\ Get(config, a, "IdentityFile") = None)

\* The route omassh believes a name takes is the one ssh takes (Proxy; sshconfig.go:214).
ProxyIsSshs ==
    \A a \in NamedIn(StripBlock(config)) : Proxy(StripBlock(config), a) = SshRoute(StripBlock(config), a)

-----------------------------------------------------------------------------
(* What the comments say and the code does not do.                         *)

\* sshexport.go:95: a jump host is an alias of the file as it is spelled.
JumpsAreSpelled ==
    written # None => \A h \in written :
        h.jump # None /\ key(h.jump) \in {key(x.name) : x \in hosts} => h.jump \in NamedIn(config)
\* sshexport.go:204, "Port 22 is what ssh does anyway".
PortIsWritten ==
    written # None => \A h \in written :
        h.port # None => SshGet(config, h.name, "Port") \in {h.port} \cup (IF h.port = 22 THEN {None} ELSE {})
\* sshexport.go:14, "touches nothing else in the file": also an edit made meanwhile.
EditsAreKept == [][Replaced => StripBlock(config') = StripBlock(config)]_sshVars

\* What is the user's stays the user's: the lines, their order, and where each name goes.
OwnIsKept == OwnLinesKept /\ OwnAliasesKept

\* What was written is reached, jump hosts and all, and is the same written again.
WrittenHolds == WrittenIsReached /\ JumpsAreThere /\ AgainTheSame

\* omassh reads of the file what ssh reads of it: the key and the route of each name.
ReadAsSshReads == OwnKeyWins /\ ProxyIsSshs
=============================================================================
