------------------------------- MODULE Store --------------------------------
(***************************************************************************)
(* The database of internal/store: hosts, groups, credentials, forwarding  *)
(* rules, snippets and session counts, shared by every Omassh window.      *)
(*                                                                         *)
(* bbolt takes the file exclusively for the length of an operation, so     *)
(* each operation is one atomic step.  What a caller hands an operation    *)
(* was read earlier, by a window whose list may be out of date: an         *)
(* argument may name any id that was EVER minted, deleted ones included.   *)
(* An operation that is refused writes nothing and is not a step.          *)
(*                                                                         *)
(* A name stands for its folded form (foldName: lower case, trimmed).      *)
(* Fields no rule of the store looks at (address, port, user, key, tags,   *)
(* script, the two ends of a rule) are left out.                           *)
(***************************************************************************)
EXTENDS Integers, FiniteSets

CONSTANTS
    GroupId, HostId, CredId, ForwardId, SnippetId,  \* ids NewID can mint
    GroupNames, HostNames, CredNames, SnippetNames, \* folded names
    JumpNames,      \* what a jump host field may hold, besides nothing
    MaxJumpHops,    \* maxJumpHops, 8 in the code
    MaxSessions,    \* BOUND on the session count of a host
    Imports,        \* the plans an import may hand to PutAll
    Nil             \* the empty field, and the record that is not there

Ids == GroupId \cup HostId \cup CredId \cup ForwardId \cup SnippetId

Group      == [name: GroupNames, parent: GroupId \cup {Nil},
               jump: JumpNames \cup {Nil}, cred: CredId \cup {Nil}]
Host       == [name: HostNames, group: GroupId \cup {Nil},
               jump: JumpNames \cup {Nil}, cred: CredId \cup {Nil}]
Credential == [name: CredNames]
Snippet    == [name: SnippetNames]
Forward    == [host: HostId]

\* A bucket: a record for every id that has one.
Table(I, R) == [I -> R \cup {Nil}]

Plan == [groups: Table(GroupId, Group), hosts: Table(HostId, Host),
         forwards: Table(ForwardId, Forward), creds: Table(CredId, Credential),
         snippets: Table(SnippetId, Snippet)]

ASSUME StoreAssumption ==
    /\ MaxJumpHops \in Nat
    /\ MaxSessions \in Nat
    /\ Imports \subseteq Plan
    /\ Nil \notin Ids \cup JumpNames
    /\ Nil \notin Group \cup Host \cup Credential \cup Snippet \cup Forward

VARIABLES groups, hosts, creds, forwards, snippets,
          stats,    \* stats[h]: sessions recorded for h, kept when h is deleted
          minted    \* the ids handed out so far; NewID never repeats one

vars == <<groups, hosts, creds, forwards, snippets, stats, minted>>

-----------------------------------------------------------------------------
(* Reading a bucket.                                                       *)

Has(t, i) == t[i] # Nil

\* A mistake: the record taken to be there still.
NotVanishedUnchecked(t, i) == TRUE

\* An id coming in marks an edit, and an edit needs its record still there.
NotVanished(t, i) == i \in minted => Has(t, i)

\* A mistake: asking whether a name is free of new records only.
NameFreeWhenNew(t, i, name) ==
    i \in minted \/ \A j \in DOMAIN t : Has(t, j) => t[j].name # name

NameFree(t, i, name) ==
    \A j \in DOMAIN t : j # i /\ Has(t, j) => t[j].name # name

\* One record alone, and a bucket with incoming records written over it.
Only(t, i, r)       == [j \in DOMAIN t |-> IF j = i THEN r ELSE Nil]
Merged(t, incoming) == [j \in DOMAIN t |-> IF Has(incoming, j) THEN incoming[j]
                                                               ELSE t[j]]

-----------------------------------------------------------------------------
(* The tree of groups.                                                     *)

\* The walk up from g comes back to a group already on the way exactly when
\* g lies in a set of stored groups that every parent link stays inside.
AncestryLoop(gs, g) ==
    \E S \in SUBSET {x \in GroupId : Has(gs, x)} :
        g \in S /\ \A x \in S : gs[x].parent \in S

\* A mistake: judging the tree before the write instead of after it.
AcyclicBefore(gs, incoming) ==
    \A g \in GroupId : Has(incoming, g) => ~AncestryLoop(gs, g)

\* Only the incoming groups are walked, and one that looped before the write
\* is let through, since this write may be what mends it.
AcyclicIn(gs, incoming) ==
    \A g \in GroupId :
        Has(incoming, g) /\ ~AncestryLoop(gs, g)
            => ~AncestryLoop(Merged(gs, incoming), g)

\* Ancestors(gs, g)[n] is the n-th group on the walk up from g, itself the
\* 0-th; a parent that is not there ends the walk.
Ancestors(gs, g) ==
    LET up[n \in 0..Cardinality(GroupId)] ==
            IF n = 0 THEN IF g # Nil /\ Has(gs, g) THEN g ELSE Nil
            ELSE IF up[n-1] = Nil THEN Nil
            ELSE LET p == gs[up[n-1]].parent
                 IN  IF p # Nil /\ Has(gs, p) THEN p ELSE Nil
    IN  up

-----------------------------------------------------------------------------
(* Jump hosts.                                                             *)

\* inherit: the host's own jump host, else that of the nearest group with one.
JumpOf(gs, h) ==
    LET up      == Ancestors(gs, h.group)
        setters == {n \in DOMAIN up : up[n] # Nil /\ gs[up[n]].jump # Nil}
    IN  IF h.jump # Nil THEN h.jump
        ELSE IF setters = {} THEN Nil
        ELSE gs[up[CHOOSE n \in setters : \A m \in setters : n <= m]].jump

\* The resolver's byName.  Two hosts of one name leave it to the order the
\* map was filled in, which is no order at all: any of them may win.
Lookups(hs) ==
    LET named(n) == {i \in DOMAIN hs : Has(hs, i) /\ hs[i].name = n}
        held     == {n \in HostNames \cup JumpNames : named(n) # {}}
        sole(n)  == IF n \in held THEN CHOOSE i \in named(n) : TRUE ELSE Nil
    IN  IF \A n \in held : Cardinality(named(n)) = 1
        THEN {[n \in HostNames \cup JumpNames |-> sole(n)]}
        ELSE {f \in [HostNames \cup JumpNames -> HostId \cup {Nil}] :
                 \A n \in DOMAIN f : IF n \in held THEN f[n] \in named(n)
                                                   ELSE f[n] = Nil}

\* jumpChain: at most MaxJumpHops hops, ending at a name that is none of ours.
JumpChainLoops(gs, hs, byName, i) ==
    LET hop[k \in 0..MaxJumpHops] ==
            IF k = 0 THEN i
            ELSE IF hop[k-1] = Nil THEN Nil
            ELSE LET name == JumpOf(gs, hs[hop[k-1]])
                 IN  IF name = Nil THEN Nil ELSE byName[name]
    IN  \E k \in 1..MaxJumpHops :
            hop[k] # Nil /\ \E j \in 0..(k-1) : hop[j] = hop[k]

LoopingHosts(gs, hs, byName) ==
    {i \in DOMAIN hs : Has(hs, i) /\ JumpChainLoops(gs, hs, byName, i)}

\* A mistake: following only the jump hosts written on hosts themselves.
OwnJumpsOnly(gs, hs) ==
    \E after \in Lookups(hs) :
        LoopingHosts([g \in GroupId |-> Nil], hs, after) = {}

\* Refused is a loop the write would make; one already there is let through.
NoNewJumpLoop(gs, hs) ==
    \E before \in Lookups(hosts), after \in Lookups(hs) :
        LoopingHosts(gs, hs, after) \subseteq LoopingHosts(groups, hosts, before)

-----------------------------------------------------------------------------
(* Writing records.                                                        *)

PutGroup(i, g) ==
    /\ NotVanished(groups, i)
    /\ NameFree(groups, i, g.name)
    /\ AcyclicIn(groups, Only(groups, i, g))
    /\ NoNewJumpLoop([groups EXCEPT ![i] = g], hosts)
    /\ groups' = [groups EXCEPT ![i] = g]
    /\ minted' = minted \cup {i}
    /\ UNCHANGED <<hosts, creds, forwards, snippets, stats>>

PutHost(i, h) ==
    /\ NotVanished(hosts, i)
    /\ h.group # Nil => Has(groups, h.group)
    /\ NameFree(hosts, i, h.name)
    /\ NoNewJumpLoop(groups, [hosts EXCEPT ![i] = h])
    /\ hosts' = [hosts EXCEPT ![i] = h]
    /\ minted' = minted \cup {i}
    /\ UNCHANGED <<groups, creds, forwards, snippets, stats>>

PutCredential(i, c) ==
    /\ NotVanished(creds, i)
    /\ NameFree(creds, i, c.name)
    /\ creds' = [creds EXCEPT ![i] = c]
    /\ minted' = minted \cup {i}
    /\ UNCHANGED <<groups, hosts, forwards, snippets, stats>>

PutSnippet(i, s) ==
    /\ NotVanished(snippets, i)
    /\ NameFree(snippets, i, s.name)
    /\ snippets' = [snippets EXCEPT ![i] = s]
    /\ minted' = minted \cup {i}
    /\ UNCHANGED <<groups, hosts, creds, forwards, stats>>

\* A mistake: the rule's host taken to be there still.
RuleHostUnchecked(hs, f) == TRUE

\* A rule's host has to be there; whether the rule itself still is, is not asked.
RuleHostThere(hs, f)     == Has(hs, f.host)

PutForward(i, f) ==
    /\ RuleHostThere(hosts, f)
    /\ forwards' = [forwards EXCEPT ![i] = f]
    /\ minted' = minted \cup {i}
    /\ UNCHANGED <<groups, hosts, creds, snippets, stats>>

\* An import's plan in one transaction.  Names and the groups the hosts name
\* were settled by Merge when the plan was made, and are not asked again.
PutAll(p) ==
    /\ AcyclicIn(groups, p.groups)
    /\ NoNewJumpLoop(Merged(groups, p.groups), Merged(hosts, p.hosts))
    /\ \A f \in ForwardId : Has(p.forwards, f)
           => RuleHostThere(Merged(hosts, p.hosts), p.forwards[f])
    /\ groups'   = Merged(groups, p.groups)
    /\ hosts'    = Merged(hosts, p.hosts)
    /\ creds'    = Merged(creds, p.creds)
    /\ forwards' = Merged(forwards, p.forwards)
    /\ snippets' = Merged(snippets, p.snippets)
    /\ minted'   = minted \cup {i \in Ids : \/ i \in GroupId /\ Has(p.groups, i)
                                            \/ i \in HostId /\ Has(p.hosts, i)
                                            \/ i \in CredId /\ Has(p.creds, i)
                                            \/ i \in ForwardId /\ Has(p.forwards, i)
                                            \/ i \in SnippetId /\ Has(p.snippets, i)}
    /\ UNCHANGED stats

-----------------------------------------------------------------------------
(* Deleting records.  The id may be one another window has deleted already. *)

\* A mistake: the rules left behind.
RulesKept(fs, i) == fs

\* A host takes its rules with it.
RulesWithout(fs, i) ==
    [f \in ForwardId |-> IF Has(fs, f) /\ fs[f].host = i THEN Nil ELSE fs[f]]

DeleteHost(i) ==
    /\ forwards' = RulesWithout(forwards, i)
    /\ hosts' = [hosts EXCEPT ![i] = Nil]
    /\ UNCHANGED <<groups, creds, snippets, stats, minted>>

\* Mistakes: the parent forgotten, or noted by name.
ParentDropped(i) == Nil
ParentByName(i) == IF Has(groups, i) THEN groups[i].name ELSE Nil

\* What sat in the group moves up to its parent.
ParentAbove(i) == IF Has(groups, i) THEN groups[i].parent ELSE Nil

DeleteGroup(i) ==
    /\ groups' = [g \in GroupId |->
                    IF g = i THEN Nil
                    ELSE IF Has(groups, g) /\ groups[g].parent = i
                         THEN [groups[g] EXCEPT !.parent = ParentAbove(i)]
                         ELSE groups[g]]
    /\ hosts' = [h \in HostId |->
                    IF Has(hosts, h) /\ hosts[h].group = i
                    THEN [hosts[h] EXCEPT !.group = ParentAbove(i)]
                    ELSE hosts[h]]
    /\ UNCHANGED <<creds, forwards, snippets, stats, minted>>

\* A credential is taken off everything using it in the same transaction.
Unlinked(t, c) ==
    [i \in DOMAIN t |-> IF Has(t, i) /\ t[i].cred = c
                        THEN [t[i] EXCEPT !.cred = Nil] ELSE t[i]]

DeleteCredential(i) ==
    /\ groups' = Unlinked(groups, i)
    /\ hosts' = Unlinked(hosts, i)
    /\ creds' = [creds EXCEPT ![i] = Nil]
    /\ UNCHANGED <<forwards, snippets, stats, minted>>

DeleteForward(i) ==
    /\ forwards' = [forwards EXCEPT ![i] = Nil]
    /\ UNCHANGED <<groups, hosts, creds, snippets, stats, minted>>

DeleteSnippet(i) ==
    /\ snippets' = [snippets EXCEPT ![i] = Nil]
    /\ UNCHANGED <<groups, hosts, creds, forwards, stats, minted>>

\* Keyed by the host's id, which need not still be in the store.
RecordSession(i) ==
    /\ stats[i] < MaxSessions
    /\ stats' = [stats EXCEPT ![i] = @ + 1]
    /\ UNCHANGED <<groups, hosts, creds, forwards, snippets, minted>>

-----------------------------------------------------------------------------
(* The callers.  A form offers what its window last read, so a field that  *)
(* refers to a record names any id minted so far; the id written is one    *)
(* minted so far (an edit) or a fresh one.                                 *)

\* The open database of a first run.
Init ==
    /\ groups   = [i \in GroupId |-> Nil]
    /\ hosts    = [i \in HostId |-> Nil]
    /\ creds    = [i \in CredId |-> Nil]
    /\ forwards = [i \in ForwardId |-> Nil]
    /\ snippets = [i \in SnippetId |-> Nil]
    /\ stats    = [i \in HostId |-> 0]
    /\ minted   = {}

Seen(I) == (I \cap minted) \cup {Nil}

SaveGroup   == \E i \in GroupId, n \in GroupNames, p \in Seen(GroupId),
                  j \in JumpNames \cup {Nil}, c \in Seen(CredId) :
                  PutGroup(i, [name |-> n, parent |-> p, jump |-> j, cred |-> c])
SaveHost    == \E i \in HostId, n \in HostNames, g \in Seen(GroupId),
                  j \in JumpNames \cup {Nil}, c \in Seen(CredId) :
                  PutHost(i, [name |-> n, group |-> g, jump |-> j, cred |-> c])
SaveForward == \E i \in ForwardId, h \in HostId \cap minted :
                  PutForward(i, [host |-> h])
SaveOther   == \/ \E i \in CredId, n \in CredNames : PutCredential(i, [name |-> n])
               \/ \E i \in SnippetId, n \in SnippetNames : PutSnippet(i, [name |-> n])

Delete == \/ \E i \in HostId \cap minted : DeleteHost(i)
          \/ \E i \in GroupId \cap minted : DeleteGroup(i)
          \/ \E i \in CredId \cap minted : DeleteCredential(i)
          \/ \E i \in ForwardId \cap minted : DeleteForward(i)
          \/ \E i \in SnippetId \cap minted : DeleteSnippet(i)

Connect == \E i \in HostId \cap minted : RecordSession(i)
Import  == \E p \in Imports : PutAll(p)

Next == SaveGroup \/ SaveHost \/ SaveForward \/ SaveOther \/ Delete \/ Connect \/ Import

Spec == Init /\ [][Next]_vars

-----------------------------------------------------------------------------
(* Properties.                                                             *)

\* Every bucket holds records of its kind, and every field what the code could
\* have in it: an id where a record is named by id, a name where by name.
TypeOK ==
    /\ groups \in Table(GroupId, Group)
    /\ hosts \in Table(HostId, Host)
    /\ creds \in Table(CredId, Credential)
    /\ forwards \in Table(ForwardId, Forward)
    /\ snippets \in Table(SnippetId, Snippet)
    /\ stats \in [HostId -> 0..MaxSessions]
    /\ minted \subseteq Ids

\* No group is its own ancestor, whatever stale parents windows write and
\* whatever deletions re-parent: the tree walk and the resolver rely on it.
GroupsFormAForest == \A g \in GroupId : ~AncestryLoop(groups, g)

\* A forwarding rule belongs to a host that is there: one that did not would
\* show under no host and be reachable by nothing that could remove it.
RulesHaveHosts == \A f \in ForwardId : Has(forwards, f) => Has(hosts, forwards[f].host)

\* Two records of a kind never share a name: names are how import and the
\* resolver match records.  (With no import; PutAll trusts the plan.)
Distinct(t)  == \A i, j \in DOMAIN t :
                   Has(t, i) /\ Has(t, j) /\ t[i].name = t[j].name => i = j
NamesAreUnique == Distinct(groups) /\ Distinct(hosts) /\ Distinct(creds)
                    /\ Distinct(snippets)

\* A host, group, credential or snippet one window deleted does not come
\* back because another one still had it open.
StaysDeleted(t) == \A i \in DOMAIN t : i \in minted /\ ~Has(t, i) => ~Has(t, i)'
DeletedStaysDeleted ==
    [][StaysDeleted(groups) /\ StaysDeleted(hosts) /\ StaysDeleted(creds)
          /\ StaysDeleted(snippets)]_vars

\* Deleting a group takes that group out of every host's chain of ancestors
\* and nothing else: no host leaves the groups above, and none is deleted.
Above(gs, h) == {Ancestors(gs, h.group)[n] : n \in 0..Cardinality(GroupId)} \ {Nil}
Removed      == {g \in GroupId : Has(groups, g) /\ ~Has(groups, g)'}
DeletingAGroupKeepsTheRest ==
    [][Removed # {} =>
          \A h \in HostId : Has(hosts, h) =>
              /\ Has(hosts, h)'
              /\ Above(groups, hosts[h])' = Above(groups, hosts[h]) \ Removed]_vars

\* No host of the store is reached through itself, over however many hops and
\* whether the jump hosts are its own or its groups'.  What PutHost, PutGroup
\* and PutAll check at each write, stated here for every state.
NoHostJumpsThroughItself ==
    ~\E S \in SUBSET {h \in HostId : Has(hosts, h)} :
        /\ S # {}
        /\ \A h \in S : \E next \in S : hosts[next].name = JumpOf(groups, hosts[h])

\* A host or group names a credential that is there, or none.
CredentialsResolve ==
    /\ \A h \in HostId : Has(hosts, h) /\ hosts[h].cred # Nil => Has(creds, hosts[h].cred)
    /\ \A g \in GroupId : Has(groups, g) /\ groups[g].cred # Nil => Has(creds, groups[g].cred)

\* The group a host names is there.
HostsHaveGroups ==
    \A h \in HostId : Has(hosts, h) /\ hosts[h].group # Nil => Has(groups, hosts[h].group)

\* A rule one window deleted does not come back because another one still had
\* its form open.
RulesStayDeleted == [][StaysDeleted(forwards)]_vars

\* Saving a group that is not its own ancestor does not make it one, whatever
\* loops the store was opened with.
OwnAncestor(g) == \E n \in 1..Cardinality(GroupId) : Ancestors(groups, g)[n] = g
NoNewGroupCycle ==
    [][\A g \in GroupId : Has(groups, g) /\ ~OwnAncestor(g) /\ groups[g] # groups[g]'
          => ~OwnAncestor(g)']_vars
=============================================================================
