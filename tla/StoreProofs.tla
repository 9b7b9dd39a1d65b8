---------------------------- MODULE StoreProofs -----------------------------
(***************************************************************************)
(* What holds of the store for every set of ids, names and import plans,   *)
(* and of lists that machines exchange as a document (Import) for any      *)
(* names and however often anything is edited, exported and imported.      *)
(***************************************************************************)
EXTENDS Store, Import, FiniteSetTheorems, WellFoundedInduction, TLAPS

-----------------------------------------------------------------------------
(* The operations as the callers use them: each with arguments of its type. *)

\* Every step is one operation on records of the right kind, or a stutter.
LEMMA Steps ==
    ASSUME [Next]_vars
    PROVE  \/ \E i \in GroupId, g \in Group : PutGroup(i, g)
           \/ \E i \in HostId, h \in Host : PutHost(i, h)
           \/ \E i \in CredId, c \in Credential : PutCredential(i, c)
           \/ \E i \in SnippetId, s \in Snippet : PutSnippet(i, s)
           \/ \E i \in ForwardId, f \in Forward : PutForward(i, f)
           \/ \E i \in HostId : DeleteHost(i)
           \/ \E i \in GroupId : DeleteGroup(i)
           \/ \E i \in CredId : DeleteCredential(i)
           \/ \E i \in ForwardId : DeleteForward(i)
           \/ \E i \in SnippetId : DeleteSnippet(i)
           \/ \E i \in HostId : RecordSession(i)
           \/ \E p \in Imports : PutAll(p)
           \/ UNCHANGED vars
<1>1. CASE SaveGroup
  <2>1. PICK i \in GroupId, n \in GroupNames, p \in Seen(GroupId),
             j \in JumpNames \cup {Nil}, c \in Seen(CredId) :
             PutGroup(i, [name |-> n, parent |-> p, jump |-> j, cred |-> c])
    BY <1>1 DEF SaveGroup
  <2>2. [name |-> n, parent |-> p, jump |-> j, cred |-> c] \in Group
    BY DEF Group, Seen
  <2> QED BY <2>1, <2>2
<1>2. CASE SaveHost
  <2>1. PICK i \in HostId, n \in HostNames, g \in Seen(GroupId),
             j \in JumpNames \cup {Nil}, c \in Seen(CredId) :
             PutHost(i, [name |-> n, group |-> g, jump |-> j, cred |-> c])
    BY <1>2 DEF SaveHost
  <2>2. [name |-> n, group |-> g, jump |-> j, cred |-> c] \in Host
    BY DEF Host, Seen
  <2> QED BY <2>1, <2>2
<1>3. CASE SaveForward
  <2>1. PICK i \in ForwardId, h \in HostId \cap minted : PutForward(i, [host |-> h])
    BY <1>3 DEF SaveForward
  <2>2. [host |-> h] \in Forward
    BY DEF Forward
  <2> QED BY <2>1, <2>2
<1>4. CASE SaveOther
  <2>1. CASE \E i \in CredId, n \in CredNames : PutCredential(i, [name |-> n])
    <3>1. PICK i \in CredId, n \in CredNames : PutCredential(i, [name |-> n])
      BY <2>1
    <3>2. [name |-> n] \in Credential
      BY DEF Credential
    <3> QED BY <3>1, <3>2
  <2>2. CASE \E i \in SnippetId, n \in SnippetNames : PutSnippet(i, [name |-> n])
    <3>1. PICK i \in SnippetId, n \in SnippetNames : PutSnippet(i, [name |-> n])
      BY <2>2
    <3>2. [name |-> n] \in Snippet
      BY DEF Snippet
    <3> QED BY <3>1, <3>2
  <2> QED BY <1>4, <2>1, <2>2 DEF SaveOther
<1>5. CASE Delete
  BY <1>5 DEF Delete
<1>6. CASE Connect
  BY <1>6 DEF Connect
<1>7. CASE Import
  BY <1>7 DEF Import
<1> QED BY <1>1, <1>2, <1>3, <1>4, <1>5, <1>6, <1>7 DEF Next

-----------------------------------------------------------------------------
(* Buckets.                                                                *)

\* A record written into a bucket, a record taken out of one, and a bucket
\* with a plan's records written over it are still buckets.
LEMMA TableUpdate ==
    ASSUME NEW I, NEW R, NEW t \in Table(I, R), NEW i \in I, NEW r \in R \cup {Nil}
    PROVE  [t EXCEPT ![i] = r] \in Table(I, R)
BY DEF Table

LEMMA TableMerged ==
    ASSUME NEW I, NEW R, NEW t \in Table(I, R), NEW u \in Table(I, R)
    PROVE  Merged(t, u) \in Table(I, R)
BY DEF Table, Merged, Has

LEMMA RecordOf ==
    ASSUME NEW I, NEW R, NEW t \in Table(I, R), NEW i \in I, Has(t, i)
    PROVE  t[i] \in R
BY DEF Table, Has

\* Moving a record in the tree, or taking its credential off, keeps its kind.
LEMMA Edited ==
    /\ \A g \in Group, p \in GroupId \cup {Nil} : [g EXCEPT !.parent = p] \in Group
    /\ \A h \in Host, p \in GroupId \cup {Nil} : [h EXCEPT !.group = p] \in Host
    /\ \A g \in Group : [g EXCEPT !.cred = Nil] \in Group
    /\ \A h \in Host : [h EXCEPT !.cred = Nil] \in Host
BY DEF Group, Host

LEMMA ParentAboveType ==
    ASSUME TypeOK, NEW i \in GroupId
    PROVE  ParentAbove(i) \in GroupId \cup {Nil}
<1>1. Has(groups, i) => groups[i] \in Group
  BY RecordOf DEF TypeOK
<1> QED BY <1>1 DEF ParentAbove, Group

\* What deleting a group and deleting a credential leave of the other groups
\* and of the hosts: each is there as before, under the same name.
LEMMA DeleteGroupEffect ==
    ASSUME TypeOK, NEW i \in GroupId, DeleteGroup(i)
    PROVE  /\ \A g \in GroupId :
                /\ Has(groups', g) <=> g # i /\ Has(groups, g)
                /\ Has(groups', g) =>
                     /\ groups'[g].name = groups[g].name
                     /\ groups'[g].parent = IF groups[g].parent = i THEN ParentAbove(i)
                                                                   ELSE groups[g].parent
           /\ \A h \in HostId :
                /\ Has(hosts', h) <=> Has(hosts, h)
                /\ Has(hosts', h) =>
                     /\ hosts'[h].name = hosts[h].name
                     /\ hosts'[h].group = IF hosts[h].group = i THEN ParentAbove(i)
                                                               ELSE hosts[h].group
<1>1. \A g \in GroupId : Has(groups, g) => groups[g] \in Group
  BY RecordOf DEF TypeOK
<1>2. \A h \in HostId : Has(hosts, h) => hosts[h] \in Host
  BY RecordOf DEF TypeOK
<1>3. ParentAbove(i) \in GroupId \cup {Nil}
  BY ParentAboveType
<1>4. \A g \in GroupId : Has(groups, g) =>
          /\ [groups[g] EXCEPT !.parent = ParentAbove(i)] # Nil
          /\ [groups[g] EXCEPT !.parent = ParentAbove(i)].name = groups[g].name
          /\ [groups[g] EXCEPT !.parent = ParentAbove(i)].parent = ParentAbove(i)
  <2>1. \A g \in GroupId : Has(groups, g) =>
           [groups[g] EXCEPT !.parent = ParentAbove(i)] \in Group
    BY <1>1, <1>3, Edited
  <2> QED BY <2>1, <1>1, StoreAssumption DEF Group
<1>5. \A h \in HostId : Has(hosts, h) =>
          /\ [hosts[h] EXCEPT !.group = ParentAbove(i)] # Nil
          /\ [hosts[h] EXCEPT !.group = ParentAbove(i)].name = hosts[h].name
          /\ [hosts[h] EXCEPT !.group = ParentAbove(i)].group = ParentAbove(i)
  <2>1. \A h \in HostId : Has(hosts, h) =>
           [hosts[h] EXCEPT !.group = ParentAbove(i)] \in Host
    BY <1>2, <1>3, Edited
  <2> QED BY <2>1, <1>2, StoreAssumption DEF Host
<1>6. ASSUME NEW g \in GroupId
      PROVE  /\ Has(groups', g) <=> g # i /\ Has(groups, g)
             /\ Has(groups', g) =>
                  /\ groups'[g].name = groups[g].name
                  /\ groups'[g].parent = IF groups[g].parent = i THEN ParentAbove(i)
                                                                ELSE groups[g].parent
  <2>1. groups'[g] = IF g = i THEN Nil
                     ELSE IF Has(groups, g) /\ groups[g].parent = i
                          THEN [groups[g] EXCEPT !.parent = ParentAbove(i)]
                          ELSE groups[g]
    BY DEF DeleteGroup
  <2> QED BY <2>1, <1>4 DEF Has
<1>7. ASSUME NEW h \in HostId
      PROVE  /\ Has(hosts', h) <=> Has(hosts, h)
             /\ Has(hosts', h) =>
                  /\ hosts'[h].name = hosts[h].name
                  /\ hosts'[h].group = IF hosts[h].group = i THEN ParentAbove(i)
                                                            ELSE hosts[h].group
  <2>1. hosts'[h] = IF Has(hosts, h) /\ hosts[h].group = i
                    THEN [hosts[h] EXCEPT !.group = ParentAbove(i)]
                    ELSE hosts[h]
    BY DEF DeleteGroup
  <2> QED BY <2>1, <1>5 DEF Has
<1> QED BY <1>6, <1>7

LEMMA DeleteCredentialEffect ==
    ASSUME TypeOK, NEW i \in CredId, DeleteCredential(i)
    PROVE  /\ \A g \in GroupId :
                /\ Has(groups', g) <=> Has(groups, g)
                /\ Has(groups', g) => /\ groups'[g].name = groups[g].name
                                      /\ groups'[g].parent = groups[g].parent
           /\ \A h \in HostId :
                /\ Has(hosts', h) <=> Has(hosts, h)
                /\ Has(hosts', h) => hosts'[h].name = hosts[h].name
<1>1. \A g \in GroupId : Has(groups, g) => groups[g] \in Group
  BY RecordOf DEF TypeOK
<1>2. \A h \in HostId : Has(hosts, h) => hosts[h] \in Host
  BY RecordOf DEF TypeOK
<1>3. DOMAIN groups = GroupId /\ DOMAIN hosts = HostId
  BY DEF TypeOK, Table
<1>4. \A g \in GroupId : Has(groups, g) =>
          /\ [groups[g] EXCEPT !.cred = Nil] # Nil
          /\ [groups[g] EXCEPT !.cred = Nil].name = groups[g].name
          /\ [groups[g] EXCEPT !.cred = Nil].parent = groups[g].parent
  <2>1. \A g \in GroupId : Has(groups, g) => [groups[g] EXCEPT !.cred = Nil] \in Group
    BY <1>1, Edited
  <2> QED BY <2>1, <1>1, StoreAssumption DEF Group
<1>5. \A h \in HostId : Has(hosts, h) =>
          /\ [hosts[h] EXCEPT !.cred = Nil] # Nil
          /\ [hosts[h] EXCEPT !.cred = Nil].name = hosts[h].name
  <2>1. \A h \in HostId : Has(hosts, h) => [hosts[h] EXCEPT !.cred = Nil] \in Host
    BY <1>2, Edited
  <2> QED BY <2>1, <1>2, StoreAssumption DEF Host
<1>6. ASSUME NEW g \in GroupId
      PROVE  /\ Has(groups', g) <=> Has(groups, g)
             /\ Has(groups', g) => /\ groups'[g].name = groups[g].name
                                   /\ groups'[g].parent = groups[g].parent
  <2>1. groups'[g] = IF Has(groups, g) /\ groups[g].cred = i
                     THEN [groups[g] EXCEPT !.cred = Nil] ELSE groups[g]
    BY <1>3 DEF DeleteCredential, Unlinked
  <2> QED BY <2>1, <1>4 DEF Has
<1>7. ASSUME NEW h \in HostId
      PROVE  /\ Has(hosts', h) <=> Has(hosts, h)
             /\ Has(hosts', h) => hosts'[h].name = hosts[h].name
  <2>1. hosts'[h] = IF Has(hosts, h) /\ hosts[h].cred = i
                    THEN [hosts[h] EXCEPT !.cred = Nil] ELSE hosts[h]
    BY <1>3 DEF DeleteCredential, Unlinked
  <2> QED BY <2>1, <1>5 DEF Has
<1> QED BY <1>6, <1>7

\* The records of the store stay of their kinds through every operation and
\* every import.
THEOREM TypeCorrect == Spec => []TypeOK
<1>1. Init => TypeOK
  BY StoreAssumption DEF Init, TypeOK, Table
<1>2. TypeOK /\ [Next]_vars => TypeOK'
  <2> SUFFICES ASSUME TypeOK, [Next]_vars PROVE TypeOK'
    OBVIOUS
  <2> USE DEF TypeOK
  <2>1. ASSUME NEW i \in GroupId, NEW g \in Group, PutGroup(i, g) PROVE TypeOK'
    BY <2>1, TableUpdate DEF PutGroup, Ids
  <2>2. ASSUME NEW i \in HostId, NEW h \in Host, PutHost(i, h) PROVE TypeOK'
    BY <2>2, TableUpdate DEF PutHost, Ids
  <2>3. ASSUME NEW i \in CredId, NEW c \in Credential, PutCredential(i, c) PROVE TypeOK'
    BY <2>3, TableUpdate DEF PutCredential, Ids
  <2>4. ASSUME NEW i \in SnippetId, NEW s \in Snippet, PutSnippet(i, s) PROVE TypeOK'
    BY <2>4, TableUpdate DEF PutSnippet, Ids
  <2>5. ASSUME NEW i \in ForwardId, NEW f \in Forward, PutForward(i, f) PROVE TypeOK'
    BY <2>5, TableUpdate DEF PutForward, Ids
  <2>6. ASSUME NEW i \in HostId, DeleteHost(i) PROVE TypeOK'
    <3>1. hosts' \in Table(HostId, Host)
      BY <2>6, TableUpdate DEF DeleteHost
    <3>2. forwards' \in Table(ForwardId, Forward)
      BY <2>6 DEF DeleteHost, RulesWithout, Has, Table
    <3> QED BY <2>6, <3>1, <3>2 DEF DeleteHost
  <2>7. ASSUME NEW i \in GroupId, DeleteGroup(i) PROVE TypeOK'
    <3>1. ParentAbove(i) \in GroupId \cup {Nil}
      BY ParentAboveType
    <3>2. \A g \in GroupId : Has(groups, g) =>
             [groups[g] EXCEPT !.parent = ParentAbove(i)] \in Group
      BY <3>1, RecordOf, Edited
    <3>3. \A h \in HostId : Has(hosts, h) =>
             [hosts[h] EXCEPT !.group = ParentAbove(i)] \in Host
      BY <3>1, RecordOf, Edited
    <3>4. groups' \in Table(GroupId, Group)
      BY <2>7, <3>2 DEF DeleteGroup, Table
    <3>5. hosts' \in Table(HostId, Host)
      BY <2>7, <3>3 DEF DeleteGroup, Table
    <3> QED BY <2>7, <3>4, <3>5 DEF DeleteGroup
  <2>8. ASSUME NEW i \in CredId, DeleteCredential(i) PROVE TypeOK'
    <3>1. \A g \in GroupId : Has(groups, g) => [groups[g] EXCEPT !.cred = Nil] \in Group
      BY RecordOf, Edited
    <3>2. \A h \in HostId : Has(hosts, h) => [hosts[h] EXCEPT !.cred = Nil] \in Host
      BY RecordOf, Edited
    <3>3. groups' \in Table(GroupId, Group)
      BY <2>8, <3>1 DEF DeleteCredential, Unlinked, Table
    <3>4. hosts' \in Table(HostId, Host)
      BY <2>8, <3>2 DEF DeleteCredential, Unlinked, Table
    <3>5. creds' \in Table(CredId, Credential)
      BY <2>8, TableUpdate DEF DeleteCredential
    <3> QED BY <2>8, <3>3, <3>4, <3>5 DEF DeleteCredential
  <2>9. ASSUME NEW i \in ForwardId, DeleteForward(i) PROVE TypeOK'
    BY <2>9, TableUpdate DEF DeleteForward
  <2>10. ASSUME NEW i \in SnippetId, DeleteSnippet(i) PROVE TypeOK'
    BY <2>10, TableUpdate DEF DeleteSnippet
  <2>11. ASSUME NEW i \in HostId, RecordSession(i) PROVE TypeOK'
    BY <2>11, StoreAssumption DEF RecordSession
  <2>12. ASSUME NEW p \in Imports, PutAll(p) PROVE TypeOK'
    <3>1. p \in Plan
      BY StoreAssumption
    <3>2. /\ groups' \in Table(GroupId, Group)
          /\ hosts' \in Table(HostId, Host)
          /\ creds' \in Table(CredId, Credential)
          /\ forwards' \in Table(ForwardId, Forward)
          /\ snippets' \in Table(SnippetId, Snippet)
      BY <2>12, <3>1, TableMerged DEF PutAll, Plan
    <3> QED BY <2>12, <3>2 DEF PutAll
  <2>13. CASE UNCHANGED vars
    BY <2>13 DEF vars
  <2> QED BY Steps, <2>1, <2>2, <2>3, <2>4, <2>5, <2>6, <2>7, <2>8, <2>9, <2>10,
             <2>11, <2>12, <2>13
<1> QED BY <1>1, <1>2, PTL DEF Spec

-----------------------------------------------------------------------------
(* Rules and their hosts.                                                  *)

\* The bucket a plan leaves holds whatever it held before.
LEMMA MergedRecord ==
    ASSUME NEW I, NEW R, NEW t \in Table(I, R), NEW u \in Table(I, R), NEW i \in I
    PROVE  /\ Has(Merged(t, u), i) <=> Has(t, i) \/ Has(u, i)
           /\ Merged(t, u)[i] = IF Has(u, i) THEN u[i] ELSE t[i]
BY DEF Table, Merged, Has

\* Every forwarding rule belongs to a host that is there, whatever windows
\* delete hosts and save rules for them, and whatever an import brings.
THEOREM RulesHaveHostsAlways == Spec => []RulesHaveHosts
<1>1. Init => RulesHaveHosts
  BY DEF Init, RulesHaveHosts, Has
<1>2. TypeOK /\ RulesHaveHosts /\ [Next]_vars => RulesHaveHosts'
  <2> SUFFICES ASSUME TypeOK, RulesHaveHosts, [Next]_vars,
                      NEW r \in ForwardId, Has(forwards', r)
               PROVE  Has(hosts', forwards'[r].host)
    BY DEF RulesHaveHosts, Has
  <2>a. Has(forwards, r) => /\ forwards[r].host \in HostId
                            /\ Has(hosts, forwards[r].host)
    <3>1. Has(forwards, r) => forwards[r] \in Forward
      BY RecordOf DEF TypeOK
    <3> QED BY <3>1 DEF Forward, RulesHaveHosts
  <2>b. hosts \in [HostId -> Host \cup {Nil}] /\ forwards \in [ForwardId -> Forward \cup {Nil}]
    BY DEF TypeOK, Table
  <2>1. CASE UNCHANGED <<hosts, forwards>>
    BY <2>1, <2>a DEF Has
  <2>2. ASSUME NEW i \in HostId, NEW h \in Host, PutHost(i, h)
        PROVE  Has(hosts', forwards'[r].host)
    BY <2>2, <2>a, <2>b, StoreAssumption DEF PutHost, Has
  <2>3. ASSUME NEW i \in ForwardId, NEW f \in Forward, PutForward(i, f)
        PROVE  Has(hosts', forwards'[r].host)
    BY <2>3, <2>a, <2>b DEF PutForward, RuleHostThere, Has
  <2>4. ASSUME NEW i \in HostId, DeleteHost(i)
        PROVE  Has(hosts', forwards'[r].host)
    BY <2>4, <2>a, <2>b DEF DeleteHost, RulesWithout, Has
  <2>5. ASSUME NEW i \in GroupId, DeleteGroup(i)
        PROVE  Has(hosts', forwards'[r].host)
    <3>1. forwards' = forwards
      BY <2>5 DEF DeleteGroup
    <3> QED BY <2>5, <2>a, <3>1, DeleteGroupEffect DEF Has
  <2>6. ASSUME NEW i \in CredId, DeleteCredential(i)
        PROVE  Has(hosts', forwards'[r].host)
    <3>1. forwards' = forwards
      BY <2>6 DEF DeleteCredential
    <3> QED BY <2>6, <2>a, <3>1, DeleteCredentialEffect DEF Has
  <2>7. ASSUME NEW i \in ForwardId, DeleteForward(i)
        PROVE  Has(hosts', forwards'[r].host)
    BY <2>7, <2>a, <2>b DEF DeleteForward, Has
  <2>8. ASSUME NEW p \in Imports, PutAll(p)
        PROVE  Has(hosts', forwards'[r].host)
    <3>1. p.hosts \in Table(HostId, Host) /\ p.forwards \in Table(ForwardId, Forward)
      BY StoreAssumption DEF Plan
    <3>2. CASE Has(p.forwards, r)
      <4>1. forwards'[r] = p.forwards[r]
        BY <2>8, <3>1, <3>2, MergedRecord DEF PutAll, TypeOK
      <4> QED BY <2>8, <3>2, <4>1 DEF PutAll, RuleHostThere
    <3>3. CASE ~Has(p.forwards, r)
      <4>1. forwards'[r] = forwards[r]
        BY <2>8, <3>1, <3>3, MergedRecord DEF PutAll, TypeOK
      <4>2. Has(hosts', forwards[r].host)
        BY <2>8, <2>a, <3>1, <4>1, MergedRecord DEF PutAll, TypeOK, Has
      <4> QED BY <4>1, <4>2
    <3> QED BY <3>2, <3>3
  <2> QED BY Steps, <2>1, <2>2, <2>3, <2>4, <2>5, <2>6, <2>7, <2>8
             DEF PutGroup, PutCredential, PutSnippet, DeleteSnippet, RecordSession, vars
<1> QED BY <1>1, <1>2, TypeCorrect, PTL DEF Spec

-----------------------------------------------------------------------------
(* The tree of groups.                                                     *)

\* A set of groups every parent link stays inside, which is what a group that
\* loops lies in.
Closed(gs, S) == /\ S \subseteq GroupId
                 /\ \A x \in S : Has(gs, x) /\ gs[x].parent \in S

LEMMA LoopIsClosedSet ==
    ASSUME NEW gs, NEW g \in GroupId
    PROVE  AncestryLoop(gs, g) <=> \E S : Closed(gs, S) /\ g \in S
<1>1. ASSUME AncestryLoop(gs, g) PROVE \E S : Closed(gs, S) /\ g \in S
  BY <1>1 DEF AncestryLoop, Closed
<1>2. ASSUME NEW S, Closed(gs, S), g \in S PROVE AncestryLoop(gs, g)
  <2>1. S \in SUBSET {x \in GroupId : Has(gs, x)}
    BY <1>2 DEF Closed
  <2> QED BY <1>2, <2>1 DEF AncestryLoop, Closed
<1> QED BY <1>1, <1>2

\* A write that passes acyclicIn leaves a forest a forest: a loop in the tree
\* it makes holds an incoming group, which the check would have walked, or
\* was there before.
LEMMA CheckedWriteKeepsForest ==
    ASSUME NEW gs \in Table(GroupId, Group), NEW new \in Table(GroupId, Group),
           \A g \in GroupId : ~AncestryLoop(gs, g),
           AcyclicIn(gs, new)
    PROVE  \A g \in GroupId : ~AncestryLoop(Merged(gs, new), g)
<1> SUFFICES ASSUME NEW g \in GroupId, AncestryLoop(Merged(gs, new), g)
             PROVE  FALSE
  OBVIOUS
<1>1. PICK S : Closed(Merged(gs, new), S) /\ g \in S
  BY LoopIsClosedSet
<1>2. \A x \in S : ~Has(new, x)
  <2> SUFFICES ASSUME NEW x \in S, Has(new, x) PROVE FALSE
    OBVIOUS
  <2>1. x \in GroupId
    BY <1>1 DEF Closed
  <2>2. AncestryLoop(Merged(gs, new), x)
    BY <1>1, <2>1, LoopIsClosedSet
  <2> QED BY <2>1, <2>2 DEF AcyclicIn
<1>3. \A x \in S : Has(gs, x) /\ gs[x].parent \in S
  BY <1>1, <1>2, MergedRecord DEF Closed
<1>4. Closed(gs, S)
  BY <1>1, <1>3 DEF Closed
<1> QED BY <1>1, <1>4, LoopIsClosedSet

LEMMA OnlyIsMerge ==
    ASSUME NEW t \in Table(GroupId, Group), NEW i \in GroupId, NEW g \in Group
    PROVE  /\ Only(t, i, g) \in Table(GroupId, Group)
           /\ [t EXCEPT ![i] = g] = Merged(t, Only(t, i, g))
BY StoreAssumption DEF Table, Only, Merged, Has

\* The groups form a forest through every save, deletion and import, with
\* parents chosen from lists however old.  Inductive as it stands, given types.
THEOREM ForestAlways == Spec => []GroupsFormAForest
<1>1. Init => GroupsFormAForest
  BY DEF Init, GroupsFormAForest, AncestryLoop, Has
<1>2. TypeOK /\ GroupsFormAForest /\ [Next]_vars => GroupsFormAForest'
  <2> SUFFICES ASSUME TypeOK, GroupsFormAForest, [Next]_vars
               PROVE  \A g \in GroupId : ~AncestryLoop(groups', g)
    BY DEF GroupsFormAForest, AncestryLoop, Has
  <2>1. CASE groups' = groups
    BY <2>1 DEF GroupsFormAForest
  <2>2. ASSUME NEW i \in GroupId, NEW g \in Group, PutGroup(i, g)
        PROVE  \A x \in GroupId : ~AncestryLoop(groups', x)
    <3>1. AcyclicIn(groups, Only(groups, i, g)) /\ groups' = [groups EXCEPT ![i] = g]
      BY <2>2 DEF PutGroup
    <3>2. groups \in Table(GroupId, Group)
      BY DEF TypeOK
    <3>3. /\ Only(groups, i, g) \in Table(GroupId, Group)
          /\ groups' = Merged(groups, Only(groups, i, g))
      BY <3>1, <3>2, OnlyIsMerge
    <3> QED BY <3>1, <3>2, <3>3, CheckedWriteKeepsForest DEF GroupsFormAForest
  <2>3. ASSUME NEW p \in Imports, PutAll(p)
        PROVE  \A x \in GroupId : ~AncestryLoop(groups', x)
    <3>1. /\ p.groups \in Table(GroupId, Group) /\ groups \in Table(GroupId, Group)
          /\ AcyclicIn(groups, p.groups) /\ groups' = Merged(groups, p.groups)
      BY <2>3, StoreAssumption DEF Plan, PutAll, TypeOK
    <3> QED BY <3>1, CheckedWriteKeepsForest DEF GroupsFormAForest
  <2>4. ASSUME NEW i \in GroupId, DeleteGroup(i)
        PROVE  \A x \in GroupId : ~AncestryLoop(groups', x)
    <3> SUFFICES ASSUME NEW x \in GroupId, NEW S, Closed(groups', S), x \in S
                 PROVE  FALSE
      BY LoopIsClosedSet
    <3>1. \A y \in S : /\ Has(groups, y)
                       /\ groups[y].parent # i => groups[y].parent \in S
                       /\ groups[y].parent = i => ParentAbove(i) \in S
      BY <2>4, DeleteGroupEffect DEF Closed
    \* Either no group of S was moved, and S was closed already, or one was,
    \* and S with the deleted group was.
    <3>2. CASE \A y \in S : groups[y].parent # i
      <4>1. Closed(groups, S)
        BY <3>1, <3>2 DEF Closed
      <4> QED BY <4>1, LoopIsClosedSet DEF GroupsFormAForest
    <3>3. CASE \E y \in S : groups[y].parent = i
      <4>1. ParentAbove(i) \in S
        BY <3>1, <3>3
      <4>2. ParentAbove(i) # Nil
        BY <4>1, StoreAssumption DEF Closed, Ids
      <4>3. Has(groups, i) /\ groups[i].parent \in S
        BY <4>1, <4>2 DEF ParentAbove
      <4>4. Closed(groups, S \cup {i})
        BY <3>1, <4>3 DEF Closed
      <4> QED BY <4>4, LoopIsClosedSet DEF GroupsFormAForest
    <3> QED BY <3>2, <3>3
  <2>5. ASSUME NEW i \in CredId, DeleteCredential(i)
        PROVE  \A x \in GroupId : ~AncestryLoop(groups', x)
    <3> SUFFICES ASSUME NEW x \in GroupId, NEW S, Closed(groups', S), x \in S
                 PROVE  FALSE
      BY LoopIsClosedSet
    <3>1. Closed(groups, S)
      BY <2>5, DeleteCredentialEffect DEF Closed
    <3> QED BY <3>1, LoopIsClosedSet DEF GroupsFormAForest
  <2> QED BY Steps, <2>1, <2>2, <2>3, <2>4, <2>5
          DEF PutHost, PutCredential, PutSnippet, PutForward, DeleteHost,
              DeleteForward, DeleteSnippet, RecordSession, vars
<1> QED BY <1>1, <1>2, TypeCorrect, PTL DEF Spec

-----------------------------------------------------------------------------
(* Names and deleted records, among windows alone: an import writes what   *)
(* Merge settled against an earlier reading, and is kept out here.         *)

\* A record saved under a free name, and a record taken out, leave the names
\* of a bucket distinct.
LEMMA SavedNamesDistinct ==
    ASSUME NEW I, NEW R, NEW t \in Table(I, R), NEW i \in I, NEW r \in R,
           Distinct(t), NameFree(t, i, r.name)
    PROVE  Distinct([t EXCEPT ![i] = r])
BY DEF Distinct, NameFree, Table, Has

LEMMA RemovedNamesDistinct ==
    ASSUME NEW I, NEW R, NEW t \in Table(I, R), NEW i \in I, Distinct(t)
    PROVE  Distinct([t EXCEPT ![i] = Nil])
BY DEF Distinct, Table, Has

LEMMA SameNamesDistinct ==
    ASSUME NEW I, NEW R, NEW t \in Table(I, R), NEW u \in Table(I, R), Distinct(t),
           \A i \in I : Has(u, i) => Has(t, i) /\ u[i].name = t[i].name
    PROVE  Distinct(u)
BY DEF Distinct, Table

\* Two hosts, groups, credentials or snippets never share a name, however
\* many windows save and rename them.
THEOREM NamesStayUnique ==
    ASSUME Imports = {}
    PROVE  Spec => []NamesAreUnique
<1>1. Init => NamesAreUnique
  BY DEF Init, NamesAreUnique, Distinct, Has
<1>2. TypeOK /\ TypeOK' /\ NamesAreUnique /\ [Next]_vars => NamesAreUnique'
  <2> SUFFICES ASSUME TypeOK, TypeOK', NamesAreUnique, [Next]_vars
               PROVE  /\ Distinct(groups') /\ Distinct(hosts')
                      /\ Distinct(creds') /\ Distinct(snippets')
    BY DEF NamesAreUnique, Distinct, Has
  <2> DEFINE D == /\ Distinct(groups') /\ Distinct(hosts')
                  /\ Distinct(creds') /\ Distinct(snippets')
  <2>a. /\ groups \in Table(GroupId, Group)      /\ groups' \in Table(GroupId, Group)
        /\ hosts \in Table(HostId, Host)         /\ hosts' \in Table(HostId, Host)
        /\ creds \in Table(CredId, Credential)
        /\ snippets \in Table(SnippetId, Snippet)
    BY DEF TypeOK
  <2>b. Distinct(groups) /\ Distinct(hosts) /\ Distinct(creds) /\ Distinct(snippets)
    BY DEF NamesAreUnique
  <2>1. CASE UNCHANGED <<groups, hosts, creds, snippets>>
    BY <2>1, <2>b
  <2>2. ASSUME NEW i \in GroupId, NEW g \in Group, PutGroup(i, g) PROVE D
    BY <2>2, <2>a, <2>b, SavedNamesDistinct DEF PutGroup
  <2>3. ASSUME NEW i \in HostId, NEW h \in Host, PutHost(i, h) PROVE D
    BY <2>3, <2>a, <2>b, SavedNamesDistinct DEF PutHost
  <2>4. ASSUME NEW i \in CredId, NEW c \in Credential, PutCredential(i, c) PROVE D
    BY <2>4, <2>a, <2>b, SavedNamesDistinct DEF PutCredential
  <2>5. ASSUME NEW i \in SnippetId, NEW s \in Snippet, PutSnippet(i, s) PROVE D
    BY <2>5, <2>a, <2>b, SavedNamesDistinct DEF PutSnippet
  <2>6. ASSUME NEW i \in HostId, DeleteHost(i) PROVE D
    BY <2>6, <2>a, <2>b, RemovedNamesDistinct DEF DeleteHost
  <2>7. ASSUME NEW i \in GroupId, DeleteGroup(i) PROVE D
    <3>1. Distinct(groups')
      BY <2>7, <2>a, <2>b, DeleteGroupEffect, SameNamesDistinct
    <3>2. Distinct(hosts')
      BY <2>7, <2>a, <2>b, DeleteGroupEffect, SameNamesDistinct
    <3> QED BY <2>7, <2>b, <3>1, <3>2 DEF DeleteGroup
  <2>8. ASSUME NEW i \in CredId, DeleteCredential(i) PROVE D
    <3>1. Distinct(groups')
      BY <2>8, <2>a, <2>b, DeleteCredentialEffect, SameNamesDistinct
    <3>2. Distinct(hosts')
      BY <2>8, <2>a, <2>b, DeleteCredentialEffect, SameNamesDistinct
    <3> QED BY <2>8, <2>a, <2>b, <3>1, <3>2, RemovedNamesDistinct DEF DeleteCredential
  <2>9. ASSUME NEW i \in SnippetId, DeleteSnippet(i) PROVE D
    BY <2>9, <2>a, <2>b, RemovedNamesDistinct DEF DeleteSnippet
  <2> QED BY Steps, <2>1, <2>2, <2>3, <2>4, <2>5, <2>6, <2>7, <2>8, <2>9
          DEF PutForward, DeleteForward, RecordSession, vars
<1> QED BY <1>1, <1>2, TypeCorrect, PTL DEF Spec

\* A record of these kinds that one window deleted is not brought back by
\* another that still had it open in a form.
THEOREM DeletedRecordsStayDeleted ==
    ASSUME Imports = {}
    PROVE  Spec => DeletedStaysDeleted
<1> DEFINE Kept == StaysDeleted(groups) /\ StaysDeleted(hosts) /\ StaysDeleted(creds)
                     /\ StaysDeleted(snippets)
<1>1. TypeOK /\ [Next]_vars => [Kept]_vars
  <2> SUFFICES ASSUME TypeOK, [Next]_vars PROVE Kept
    OBVIOUS
  <2>a. /\ groups \in [GroupId -> Group \cup {Nil}]
        /\ hosts \in [HostId -> Host \cup {Nil}]
        /\ creds \in [CredId -> Credential \cup {Nil}]
        /\ snippets \in [SnippetId -> Snippet \cup {Nil}]
    BY DEF TypeOK, Table
  <2> USE DEF StaysDeleted, Has
  <2>1. CASE UNCHANGED <<groups, hosts, creds, snippets>>
    BY <2>1
  <2>2. ASSUME NEW i \in GroupId, NEW g \in Group, PutGroup(i, g) PROVE Kept
    BY <2>2, <2>a DEF PutGroup, NotVanished
  <2>3. ASSUME NEW i \in HostId, NEW h \in Host, PutHost(i, h) PROVE Kept
    BY <2>3, <2>a DEF PutHost, NotVanished
  <2>4. ASSUME NEW i \in CredId, NEW c \in Credential, PutCredential(i, c) PROVE Kept
    BY <2>4, <2>a DEF PutCredential, NotVanished
  <2>5. ASSUME NEW i \in SnippetId, NEW s \in Snippet, PutSnippet(i, s) PROVE Kept
    BY <2>5, <2>a DEF PutSnippet, NotVanished
  <2>6. ASSUME NEW i \in HostId, DeleteHost(i) PROVE Kept
    BY <2>6, <2>a DEF DeleteHost
  <2>7. ASSUME NEW i \in GroupId, DeleteGroup(i) PROVE Kept
    BY <2>7, <2>a, DeleteGroupEffect DEF DeleteGroup
  <2>8. ASSUME NEW i \in CredId, DeleteCredential(i) PROVE Kept
    BY <2>8, <2>a, DeleteCredentialEffect DEF DeleteCredential
  <2>9. ASSUME NEW i \in SnippetId, DeleteSnippet(i) PROVE Kept
    BY <2>9, <2>a DEF DeleteSnippet
  <2> QED BY Steps, <2>1, <2>2, <2>3, <2>4, <2>5, <2>6, <2>7, <2>8, <2>9
          DEF PutForward, DeleteForward, RecordSession, vars
<1> QED BY <1>1, TypeCorrect, PTL DEF Spec, DeletedStaysDeleted

-----------------------------------------------------------------------------
(* The chain of ancestors.  Ancestors is defined by recursion on how far   *)
(* up the walk is; what is used of it is that its groups are the smallest  *)
(* set that holds the first and, with a group, the one above it.           *)

LEMMA Least ==
    ASSUME NEW T \in SUBSET Nat, T # {}
    PROVE  \E n \in T : n = 0 \/ n - 1 \in Nat \ T
<1>1. PICK n \in T : \A m \in T : ~ (<<m, n>> \in OpToRel(<, Nat))
  BY NatLessThanWellFounded, WFMin
<1>2. \A m \in T : ~ m < n
  BY <1>1 DEF OpToRel
<1>3. n \in Nat /\ (n # 0 => n - 1 \in Nat /\ n - 1 < n)
  OBVIOUS
<1> QED BY <1>2, <1>3

FirstOf(gs, g) == IF g # Nil /\ Has(gs, g) THEN g ELSE Nil
Up(gs, x)      == IF x = Nil THEN Nil
                  ELSE LET p == gs[x].parent IN IF p # Nil /\ Has(gs, p) THEN p ELSE Nil
Walk(gs, g, k, f) == f = [n \in 0..k |-> IF n = 0 THEN FirstOf(gs, g) ELSE Up(gs, f[n-1])]

LEMMA WalksThere ==
    ASSUME NEW gs, NEW g, NEW k \in Nat
    PROVE  \E f : Walk(gs, g, k, f)
<1> DEFINE T == {n \in Nat : ~ \E f : Walk(gs, g, n, f)}
<1>1. ASSUME T # {} PROVE FALSE
  <2>1. PICK n \in T : n = 0 \/ n - 1 \in Nat \ T
    BY <1>1, Least
  <2>2. CASE n = 0
    <3>1. Walk(gs, g, 0, [m \in 0..0 |-> FirstOf(gs, g)])
      BY DEF Walk
    <3> QED BY <2>1, <2>2, <3>1
  <2>3. CASE n # 0
    <3>1. PICK f : Walk(gs, g, n - 1, f)
      BY <2>1, <2>3
    <3> DEFINE e == [m \in 0..n |-> IF m = n THEN Up(gs, f[n - 1]) ELSE f[m]]
    <3>2. \A m \in 0..n : m = n \/ m \in 0..(n - 1)
      BY <2>1
    <3>3. \A m \in 0..(n - 1) : f[m] = IF m = 0 THEN FirstOf(gs, g) ELSE Up(gs, f[m - 1])
      BY <3>1 DEF Walk
    <3>4. ASSUME NEW m \in 0..n PROVE e[m] = IF m = 0 THEN FirstOf(gs, g) ELSE Up(gs, e[m - 1])
      <4>1. m # 0 => m - 1 \in 0..n /\ m - 1 # n /\ e[m - 1] = f[m - 1]
        BY <2>1
      <4> QED BY <2>1, <2>3, <3>2, <3>3, <4>1
    <3>5. Walk(gs, g, n, e)
      BY <3>4 DEF Walk
    <3> QED BY <2>1, <3>5
  <2> QED BY <2>2, <2>3
<1> QED BY <1>1

LEMMA AncestorsAre ==
    ASSUME NEW gs, NEW g, Cardinality(GroupId) \in Nat
    PROVE  /\ Ancestors(gs, g)[0] = FirstOf(gs, g)
           /\ \A n \in 1..Cardinality(GroupId) : Ancestors(gs, g)[n] = Up(gs, Ancestors(gs, g)[n - 1])
<1>1. Walk(gs, g, Cardinality(GroupId), Ancestors(gs, g))
  <2>1. \E f : Walk(gs, g, Cardinality(GroupId), f)
    BY WalksThere
  <2>2. Ancestors(gs, g) = CHOOSE f : Walk(gs, g, Cardinality(GroupId), f)
    BY DEF Ancestors, Walk, FirstOf, Up
  <2> QED BY <2>1, <2>2
<1> QED BY <1>1 DEF Walk

\* A set of groups that holds, with a group, the one above it.
Upward(gs, S) == \A x \in S : Up(gs, x) \in S \cup {Nil}
Chain(gs, g)  == {Ancestors(gs, g)[n] : n \in 0..Cardinality(GroupId)} \ {Nil}

LEMMA ChainIsSmallest ==
    ASSUME NEW gs, NEW g, Cardinality(GroupId) \in Nat, NEW S, FirstOf(gs, g) \in S \cup {Nil}, Upward(gs, S)
    PROVE  Chain(gs, g) \subseteq S
<1> DEFINE A == Ancestors(gs, g)
           T == {n \in Nat : n <= Cardinality(GroupId) /\ A[n] \notin S \cup {Nil}}
<1>0. A[0] = FirstOf(gs, g) /\ \A n \in 1..Cardinality(GroupId) : A[n] = Up(gs, A[n - 1])
  BY AncestorsAre
<1> HIDE DEF A
<1>1. ASSUME T # {} PROVE FALSE
  <2>1. PICK n \in T : n = 0 \/ n - 1 \in Nat \ T
    BY <1>1, Least
  <2>2. CASE n = 0
    BY <1>0, <2>1, <2>2
  <2>3. CASE n # 0
    <3>1. n \in 1..Cardinality(GroupId) /\ n - 1 \in 0..Cardinality(GroupId)
      BY <2>1, <2>3
    <3>2. A[n - 1] \in S \cup {Nil}
      BY <2>1, <2>3, <3>1
    <3>3. Up(gs, A[n - 1]) \in S \cup {Nil}
      BY <3>2 DEF Upward, Up
    <3> QED BY <1>0, <2>1, <3>1, <3>3
  <2> QED BY <2>2, <2>3
<1>2. \A n \in 0..Cardinality(GroupId) : A[n] \in S \cup {Nil}
  BY <1>1
<1> QED BY <1>2 DEF Chain, A

LEMMA ChainOfGroups ==
    ASSUME NEW gs \in Table(GroupId, Group), NEW g \in GroupId \cup {Nil}, Cardinality(GroupId) \in Nat
    PROVE  Chain(gs, g) \subseteq {x \in GroupId : Has(gs, x)}
<1>1. FirstOf(gs, g) \in {x \in GroupId : Has(gs, x)} \cup {Nil}
  BY DEF FirstOf
<1>2. ASSUME NEW x \in GroupId, Has(gs, x) PROVE Up(gs, x) \in {y \in GroupId : Has(gs, y)} \cup {Nil}
  <2>1. gs[x].parent \in GroupId \cup {Nil}
    BY <1>2, RecordOf DEF Group
  <2> QED BY <2>1 DEF Up
<1> QED BY <1>1, <1>2, ChainIsSmallest DEF Upward

\* In a forest the walk gets to the top: were it cut short, one group would be
\* on it twice, and the groups between would be a loop.
LEMMA ChainIsUpward ==
    ASSUME NEW gs \in Table(GroupId, Group), NEW g \in GroupId \cup {Nil}, IsFiniteSet(GroupId),
           \A x \in GroupId : ~ AncestryLoop(gs, x)
    PROVE  FirstOf(gs, g) \in Chain(gs, g) \cup {Nil} /\ Upward(gs, Chain(gs, g))
<1> DEFINE A == Ancestors(gs, g)
           N == Cardinality(GroupId)
<1>0. N \in Nat
  BY FS_CardinalityType
<1>1. A[0] = FirstOf(gs, g) /\ \A n \in 1..N : A[n] = Up(gs, A[n - 1])
  BY <1>0, AncestorsAre
<1>2. \A n \in 0..N : A[n] \in Chain(gs, g) \cup {Nil}
  BY DEF Chain
<1>3. Chain(gs, g) \subseteq {x \in GroupId : Has(gs, x)}
  BY <1>0, ChainOfGroups
<1> HIDE DEF A, N
<1>4. ASSUME A[N] # Nil PROVE FALSE
  <2>1. \A n \in 0..N : A[n] # Nil
    <3> DEFINE T == {m \in Nat : m <= N /\ A[N - m] = Nil}
    <3>1. ASSUME T # {} PROVE FALSE
      <4>1. PICK m \in T : m = 0 \/ m - 1 \in Nat \ T
        BY <3>1, Least
      <4>2. m # 0 /\ N - m \in 0..N /\ N - (m - 1) \in 1..N /\ (N - (m - 1)) - 1 = N - m
        BY <1>0, <1>4, <4>1
      <4>3. A[N - (m - 1)] # Nil
        BY <1>0, <4>1, <4>2
      <4>4. A[N - (m - 1)] = Up(gs, A[N - m])
        BY <1>1, <4>2
      <4> QED BY <4>1, <4>3, <4>4 DEF Up
    <3>2. \A n \in 0..N : N - n \in Nat /\ N - n <= N /\ N - (N - n) = n
      BY <1>0
    <3> QED BY <3>1, <3>2
  <2> DEFINE F == [n \in 0..N |-> A[n]]
  <2>2. F \in [0..N -> GroupId]
    BY <1>2, <1>3, <2>1
  <2>3. IsFiniteSet(0..N) /\ Cardinality(0..N) = N + 1
    BY <1>0, FS_Interval
  <2>4. PICK a \in 0..N, b \in 0..N : a # b /\ F[a] = F[b]
    <3>1. Cardinality(GroupId) < Cardinality(0..N)
      BY <1>0, <2>3 DEF N
    <3> HIDE DEF F
    <3> QED BY <2>2, <2>3, <3>1, FS_PigeonHole
  <2>5. ASSUME NEW p \in 0..N, NEW q \in 0..N, p < q, A[p] = A[q] PROVE FALSE
    <3> DEFINE S == {A[n] : n \in p..(q - 1)}
    <3>1. ASSUME NEW n \in p..(q - 1) PROVE A[n] \in GroupId /\ Has(gs, A[n]) /\ gs[A[n]].parent \in S
      <4>1. n \in 0..N /\ n + 1 \in 1..N /\ (n + 1) - 1 = n /\ (n + 1 \in p..(q - 1) \/ n + 1 = q)
        BY <1>0, <2>5, <3>1
      <4>2. A[n] \in GroupId /\ Has(gs, A[n]) /\ A[n] # Nil /\ A[n + 1] # Nil
        BY <1>2, <1>3, <2>1, <4>1
      <4>3. A[n + 1] = gs[A[n]].parent
        BY <1>1, <4>1, <4>2 DEF Up
      <4>4. A[n + 1] \in S
        <5>1. CASE n + 1 = q
          <6>1. p \in p..(q - 1)
            BY <1>0, <2>5
          <6> QED BY <2>5, <5>1, <6>1
        <5>2. CASE n + 1 \in p..(q - 1)
          BY <5>2
        <5> QED BY <4>1, <5>1, <5>2
      <4> QED BY <4>2, <4>3, <4>4
    <3>2. Closed(gs, S)
      BY <3>1 DEF Closed
    <3>3. A[p] \in S /\ A[p] \in GroupId
      <4>1. p \in p..(q - 1)
        BY <1>0, <2>5
      <4> QED BY <3>1, <4>1
    <3> HIDE DEF S
    <3> QED BY <3>2, <3>3, LoopIsClosedSet
  <2>6. a < b \/ b < a
    BY <1>0, <2>4
  <2> QED BY <2>4, <2>5, <2>6
<1>5. FirstOf(gs, g) \in Chain(gs, g) \cup {Nil}
  BY <1>0, <1>1, <1>2
<1>6. ASSUME NEW n \in 0..N, A[n] # Nil PROVE Up(gs, A[n]) \in Chain(gs, g) \cup {Nil}
  <2>1. n # N /\ n + 1 \in 1..N /\ (n + 1) - 1 = n /\ n + 1 \in 0..N
    BY <1>0, <1>4, <1>6
  <2> QED BY <1>1, <1>2, <2>1
<1>7. \A x \in Chain(gs, g) : \E n \in 0..N : x = A[n] /\ A[n] # Nil
  BY DEF Chain, A, N
<1> QED BY <1>5, <1>6, <1>7 DEF Upward

\* Taking i out of a forest, with what pointed at i pointing past it, takes i
\* out of a chain and nothing else.
LEMMA ChainWithout ==
    ASSUME NEW old \in Table(GroupId, Group), NEW new \in Table(GroupId, Group),
           NEW g \in GroupId \cup {Nil}, NEW h \in GroupId \cup {Nil},
           NEW i \in GroupId, IsFiniteSet(GroupId), Up(old, i) # i,
           \A x \in GroupId : ~ AncestryLoop(old, x),
           \A x \in GroupId : ~ AncestryLoop(new, x),
           \A x \in GroupId : Has(new, x) <=> x # i /\ Has(old, x),
           \A x \in GroupId : x # i /\ Has(old, x) =>
               Up(new, x) = IF Up(old, x) = i THEN Up(old, i) ELSE Up(old, x),
           FirstOf(new, h) = IF FirstOf(old, g) = i THEN Up(old, i) ELSE FirstOf(old, g)
    PROVE  Chain(new, h) = Chain(old, g) \ {i}
<1> DEFINE C == Chain(old, g)
           D == Chain(new, h)
           B == {x \in {i} : Up(old, i) \in D \cup {Nil}}
<1>0. Cardinality(GroupId) \in Nat /\ i # Nil
  BY FS_CardinalityType, StoreAssumption DEF Ids
<1>1. FirstOf(old, g) \in C \cup {Nil} /\ \A x \in C : Up(old, x) \in C \cup {Nil}
  BY ChainIsUpward DEF Upward
<1>2. FirstOf(new, h) \in D \cup {Nil} /\ \A x \in D : Up(new, x) \in D \cup {Nil}
  BY ChainIsUpward DEF Upward
<1>3. \A x \in C : x \in GroupId /\ Has(old, x)
  BY <1>0, ChainOfGroups
<1>4. \A x \in D : x \in GroupId /\ Has(new, x)
  BY <1>0, ChainOfGroups
<1>5. D \subseteq C \ {i}
  <2> HIDE DEF C
  <2>1. FirstOf(new, h) \in (C \ {i}) \cup {Nil}
    BY <1>0, <1>1
  <2>2. ASSUME NEW x \in C \ {i} PROVE Up(new, x) \in (C \ {i}) \cup {Nil}
    <3>1. Up(new, x) = IF Up(old, x) = i THEN Up(old, i) ELSE Up(old, x)
      BY <1>3, <2>2
    <3> QED BY <1>0, <1>1, <2>2, <3>1
  <2>3. Upward(new, C \ {i})
    BY <2>2 DEF Upward
  <2> QED BY <1>0, <2>1, <2>3, ChainIsSmallest
<1>6. C \subseteq D \cup B
  <2> HIDE DEF D
  <2>1. FirstOf(old, g) \in (D \cup B) \cup {Nil}
    BY <1>2
  <2>2. ASSUME NEW x \in D PROVE Up(old, x) \in (D \cup B) \cup {Nil}
    BY <1>2, <1>4, <2>2
  <2>3. Upward(old, D \cup B)
    BY <2>2 DEF Upward
  <2> QED BY <1>0, <2>1, <2>3, ChainIsSmallest
<1> QED BY <1>5, <1>6

\* With a group deleted, every chain is what it was but for that group: that of
\* what sat in it too.
LEMMA ChainsAfterDelete ==
    ASSUME TypeOK, TypeOK', GroupsFormAForest, GroupsFormAForest', IsFiniteSet(GroupId),
           NEW i \in GroupId, DeleteGroup(i), Has(groups, i),
           NEW g \in GroupId \cup {Nil}
    PROVE  Chain(groups', IF g = i THEN groups[i].parent ELSE g) = Chain(groups, g) \ {i}
<1> DEFINE h == IF g = i THEN groups[i].parent ELSE g
<1>0. i # Nil /\ \A x \in GroupId : x # Nil
  BY StoreAssumption DEF Ids
<1>1. \A x \in GroupId : /\ Has(groups', x) <=> x # i /\ Has(groups, x)
                         /\ Has(groups', x) =>
                              groups'[x].parent = IF groups[x].parent = i
                                                  THEN groups[i].parent ELSE groups[x].parent
  BY DeleteGroupEffect DEF ParentAbove
<1>2. \A x \in GroupId : Has(groups, x) => groups[x].parent \in GroupId \cup {Nil}
  <2>1. \A x \in GroupId : Has(groups, x) => groups[x] \in Group
    BY RecordOf DEF TypeOK
  <2> QED BY <2>1 DEF Group
<1>3. groups[i].parent # i
  <2>1. groups[i].parent = i => Closed(groups, {i})
    BY DEF Closed
  <2> QED BY <2>1, LoopIsClosedSet DEF GroupsFormAForest
<1>4. Up(groups, i) # i
  BY <1>0, <1>3 DEF Up
<1>5. ASSUME NEW x \in GroupId, x # i, Has(groups, x)
      PROVE  Up(groups', x) = IF Up(groups, x) = i THEN Up(groups, i) ELSE Up(groups, x)
  <2> DEFINE p == groups[x].parent
             q == groups[i].parent
  <2>1. groups'[x].parent = IF p = i THEN q ELSE p
    BY <1>1, <1>5
  <2>2. p \in GroupId \cup {Nil} /\ q \in GroupId \cup {Nil} /\ q # i
    BY <1>2, <1>3, <1>5
  <2>3. Up(groups, x) = IF p # Nil /\ Has(groups, p) THEN p ELSE Nil
    BY <1>0 DEF Up
  <2>4. Up(groups, i) = IF q # Nil /\ Has(groups, q) THEN q ELSE Nil
    BY <1>0 DEF Up
  <2>5. Up(groups', x) = IF groups'[x].parent # Nil /\ Has(groups', groups'[x].parent)
                         THEN groups'[x].parent ELSE Nil
    BY <1>0 DEF Up
  <2>6. \A y \in GroupId : y # i => (Has(groups', y) <=> Has(groups, y))
    BY <1>1
  <2>7. CASE p = i
    BY <1>0, <2>1, <2>2, <2>3, <2>4, <2>5, <2>6, <2>7
  <2>8. CASE p # i
    BY <1>0, <2>1, <2>2, <2>3, <2>4, <2>5, <2>6, <2>8
  <2> QED BY <2>7, <2>8
<1>6. h \in GroupId \cup {Nil} /\ h # i
  BY <1>0, <1>2, <1>3
<1>7. FirstOf(groups', h) = IF FirstOf(groups, g) = i THEN Up(groups, i) ELSE FirstOf(groups, g)
  BY <1>0, <1>1, <1>6 DEF FirstOf, Up
<1>8. groups \in Table(GroupId, Group) /\ groups' \in Table(GroupId, Group)
  BY DEF TypeOK
<1>9. \A x \in GroupId : ~ AncestryLoop(groups, x) /\ ~ AncestryLoop(groups', x)
  BY DEF GroupsFormAForest, AncestryLoop, Has
<1>10. \A x \in GroupId : Has(groups', x) <=> x # i /\ Has(groups, x)
  BY <1>1
<1> HIDE DEF h
<1>11. Chain(groups', h) = Chain(groups, g) \ {i}
  BY <1>4, <1>5, <1>6, <1>7, <1>8, <1>9, <1>10, ChainWithout
<1> QED BY <1>11 DEF h

\* Deleting a group takes it, and nothing else, out of the chain of ancestors
\* of every host, whatever stale parents the tree was built from.
THEOREM DeletedGroupsAreSteppedOver ==
    ASSUME IsFiniteSet(GroupId)
    PROVE  Spec => DeletingAGroupKeepsTheRest
<1> DEFINE Kept == Removed # {} =>
          \A h \in HostId : Has(hosts, h) =>
              /\ Has(hosts', h)
              /\ Chain(groups', hosts'[h].group) = Chain(groups, hosts[h].group) \ Removed
<1>1. ASSUME TypeOK, TypeOK', GroupsFormAForest, GroupsFormAForest', [Next]_vars
      PROVE  Kept
  <2>1. CASE \A g \in GroupId : Has(groups, g) => Has(groups', g)
    BY <2>1 DEF Removed, Has
  <2>2. ASSUME NEW i \in GroupId, DeleteGroup(i), Has(groups, i) PROVE Kept
    <3>1. \A x \in GroupId : Has(groups', x) <=> x # i /\ Has(groups, x)
      BY <1>1, <2>2, DeleteGroupEffect
    <3>2. Removed = {i}
      BY <2>2, <3>1 DEF Removed, Has
    <3>3. ASSUME NEW h \in HostId, Has(hosts, h)
          PROVE  /\ Has(hosts', h)
                 /\ Chain(groups', hosts'[h].group) = Chain(groups, hosts[h].group) \ {i}
      <4>1. hosts[h] \in Host
        BY <1>1, <3>3, RecordOf DEF TypeOK
      <4>2. hosts[h].group \in GroupId \cup {Nil}
        BY <4>1 DEF Host
      <4>3. Has(hosts', h) /\ hosts'[h].group = IF hosts[h].group = i THEN groups[i].parent
                                                                      ELSE hosts[h].group
        BY <1>1, <2>2, <3>3, DeleteGroupEffect DEF ParentAbove
      <4> QED BY <1>1, <2>2, <4>2, <4>3, ChainsAfterDelete
    <3> QED BY <3>2, <3>3
  <2>3. \/ \A g \in GroupId : Has(groups, g) => Has(groups', g)
        \/ \E i \in GroupId : DeleteGroup(i) /\ Has(groups, i)
    <3>a. groups \in Table(GroupId, Group)
      BY <1>1 DEF TypeOK
    <3>1. ASSUME NEW i \in GroupId, NEW g \in Group, PutGroup(i, g)
          PROVE  \A x \in GroupId : Has(groups, x) => Has(groups', x)
      BY <3>1, <3>a, StoreAssumption DEF PutGroup, Has, Table
    <3>2. ASSUME NEW p \in Imports, PutAll(p)
          PROVE  \A x \in GroupId : Has(groups, x) => Has(groups', x)
      <4>1. p.groups \in Table(GroupId, Group)
        BY StoreAssumption DEF Plan
      <4> QED BY <3>2, <3>a, <4>1, MergedRecord DEF PutAll
    <3>3. ASSUME NEW i \in CredId, DeleteCredential(i)
          PROVE  \A x \in GroupId : Has(groups, x) => Has(groups', x)
      BY <1>1, <3>3, DeleteCredentialEffect
    <3>4. ASSUME NEW i \in GroupId, DeleteGroup(i), ~ Has(groups, i)
          PROVE  \A x \in GroupId : Has(groups, x) => Has(groups', x)
      BY <1>1, <3>4, DeleteGroupEffect
    <3>5. groups' = groups => \A x \in GroupId : Has(groups, x) => Has(groups', x)
      BY DEF Has
    <3> QED BY <1>1, Steps, <3>1, <3>2, <3>3, <3>4, <3>5
            DEF PutHost, PutCredential, PutSnippet, PutForward, DeleteHost, DeleteForward,
                DeleteSnippet, RecordSession, vars
  <2> QED BY <2>1, <2>2, <2>3
<1>2. ASSUME Kept PROVE Removed # {} =>
          \A h \in HostId : Has(hosts, h) =>
              /\ Has(hosts, h)'
              /\ Above(groups, hosts[h])' = Above(groups, hosts[h]) \ Removed
  BY <1>2 DEF Above, Chain, Has
<1>3. TypeOK /\ TypeOK' /\ GroupsFormAForest /\ GroupsFormAForest' /\ [Next]_vars
        => [Removed # {} =>
          \A h \in HostId : Has(hosts, h) =>
              /\ Has(hosts, h)'
              /\ Above(groups, hosts[h])' = Above(groups, hosts[h]) \ Removed]_vars
  BY <1>1, <1>2
<1> QED BY <1>3, TypeCorrect, ForestAlways, PTL DEF Spec, DeletingAGroupKeepsTheRest

-----------------------------------------------------------------------------
(* Jump hosts.  The one a host inherits is that of the nearest group of    *)
(* its chain that has one; a lookup of a name finds the host of that name. *)

\* A set of numbers has a least.
LEMMA Lowest ==
    ASSUME NEW T \in SUBSET Nat, T # {}
    PROVE  \E n \in T : \A m \in T : n <= m
<1>1. PICK n \in T : \A m \in T : ~ (<<m, n>> \in OpToRel(<, Nat))
  BY NatLessThanWellFounded, WFMin
<1>2. \A m \in T : ~ m < n
  BY <1>1 DEF OpToRel
<1> QED BY <1>2

\* What a walk meets further up is on the chain of what it met before.
LEMMA WalkGoesOn ==
    ASSUME NEW gs, NEW g, Cardinality(GroupId) \in Nat,
           NEW n \in 0..Cardinality(GroupId), NEW m \in 0..Cardinality(GroupId), n <= m,
           LET x == Ancestors(gs, g)[n] IN x # Nil /\ Has(gs, x),
           Ancestors(gs, g)[m] # Nil
    PROVE  Ancestors(gs, g)[m] \in Chain(gs, Ancestors(gs, g)[n])
<1> DEFINE A == Ancestors(gs, g)
           B == Ancestors(gs, A[n])
           N == Cardinality(GroupId)
           T == {k \in Nat : n + k <= N /\ B[k] # A[n + k]}
<1>1. \A k \in 1..N : A[k] = Up(gs, A[k - 1])
  BY AncestorsAre
<1>2. B[0] = FirstOf(gs, A[n]) /\ \A k \in 1..N : B[k] = Up(gs, B[k - 1])
  BY AncestorsAre
<1>3. FirstOf(gs, A[n]) = A[n]
  BY DEF FirstOf
<1>4. A[m] # Nil
  OBVIOUS
<1>c. \A k \in 0..N : B[k] # Nil => B[k] \in Chain(gs, A[n])
  BY DEF Chain
<1> HIDE DEF A, B
<1>5. ASSUME T # {} PROVE FALSE
  <2>1. PICK k \in T : k = 0 \/ k - 1 \in Nat \ T
    BY <1>5, Least
  <2>2. CASE k = 0
    BY <1>2, <1>3, <2>1, <2>2
  <2>3. CASE k # 0
    <3>1. k \in 1..N /\ n + k \in 1..N /\ (n + k) - 1 = n + (k - 1) /\ n + (k - 1) <= N
      BY <2>1, <2>3
    <3>2. B[k - 1] = A[n + (k - 1)]
      BY <2>1, <2>3, <3>1
    <3> QED BY <1>1, <1>2, <2>1, <3>1, <3>2
  <2> QED BY <2>2, <2>3
<1>6. m - n \in Nat /\ n + (m - n) = m /\ m - n \in 0..N
  OBVIOUS
<1>7. B[m - n] = A[m]
  BY <1>5, <1>6
<1> QED BY <1>c, <1>4, <1>6, <1>7 DEF A

Setters(gs, h) == {x \in Chain(gs, h.group) : gs[x].jump # Nil}

\* A host with no jump host of its own has that of a group which every other with one is above.
LEMMA Inherited ==
    ASSUME NEW gs \in Table(GroupId, Group), NEW h \in Host, h.jump = Nil, Cardinality(GroupId) \in Nat
    PROVE  /\ Setters(gs, h) = {} => JumpOf(gs, h) = Nil
           /\ Setters(gs, h) # {} => \E x \in Setters(gs, h) :
                 JumpOf(gs, h) = gs[x].jump /\ \A y \in Setters(gs, h) : y \in Chain(gs, x)
<1> DEFINE A == Ancestors(gs, h.group)
           N == Cardinality(GroupId)
           T == {n \in DOMAIN A : A[n] # Nil /\ gs[A[n]].jump # Nil}
<1>1. JumpOf(gs, h) = IF T = {} THEN Nil ELSE gs[A[CHOOSE n \in T : \A m \in T : n <= m]].jump
  BY DEF JumpOf
<1>2. DOMAIN A = 0..N
  <2>1. \E f : Walk(gs, h.group, N, f)
    BY WalksThere
  <2>2. A = CHOOSE f : Walk(gs, h.group, N, f)
    BY DEF Ancestors, Walk, FirstOf, Up
  <2>3. Walk(gs, h.group, N, A)
    BY <2>1, <2>2
  <2> HIDE DEF A
  <2> QED BY <2>3 DEF Walk
<1>3. Chain(gs, h.group) = {A[n] : n \in 0..N} \ {Nil}
  BY DEF Chain
<1>4. \A x \in Chain(gs, h.group) : x \in GroupId /\ Has(gs, x)
  BY ChainOfGroups DEF Host
<1>5. \A n \in 0..N, m \in 0..N : n <= m /\ A[n] # Nil /\ Has(gs, A[n]) /\ A[m] # Nil => A[m] \in Chain(gs, A[n])
  BY WalkGoesOn
<1> HIDE DEF A, N
<1>6. \A x : x \in Setters(gs, h) <=> \E n \in T : x = A[n]
  BY <1>2, <1>3 DEF Setters
<1>7. CASE T = {}
  BY <1>1, <1>6, <1>7
<1>8. CASE T # {}
  <2>1. T \in SUBSET Nat
    BY <1>2
  <2> DEFINE n == CHOOSE n \in T : \A m \in T : n <= m
  <2>2. n \in T /\ \A m \in T : n <= m
    BY <1>8, <2>1, Lowest
  <2>3. JumpOf(gs, h) = gs[A[n]].jump
    BY <1>1, <1>8
  <2> HIDE DEF n
  <2>4. A[n] \in Setters(gs, h) /\ Has(gs, A[n]) /\ A[n] # Nil /\ n \in 0..N
    BY <1>2, <1>4, <1>6, <2>2 DEF Setters
  <2>5. ASSUME NEW y \in Setters(gs, h) PROVE y \in Chain(gs, A[n])
    <3>1. PICK m \in T : y = A[m]
      BY <1>6
    <3>2. m \in 0..N /\ n <= m /\ A[m] # Nil
      BY <1>2, <2>2, <3>1
    <3> QED BY <1>5, <2>4, <3>1, <3>2
  <2> QED BY <2>3, <2>4, <2>5
<1> QED BY <1>7, <1>8

\* A jump host is one the fields may hold, or none.
LEMMA JumpType ==
    ASSUME NEW gs \in Table(GroupId, Group), NEW h \in Host, Cardinality(GroupId) \in Nat
    PROVE  JumpOf(gs, h) \in JumpNames \cup {Nil}
<1>1. CASE h.jump # Nil
  BY <1>1 DEF JumpOf, Host
<1>2. CASE h.jump = Nil
  <2>1. JumpOf(gs, h) = Nil \/ \E x \in Setters(gs, h) : JumpOf(gs, h) = gs[x].jump
    BY <1>2, Inherited
  <2>2. \A x \in Setters(gs, h) : x \in GroupId /\ Has(gs, x)
    BY ChainOfGroups DEF Setters, Host
  <2>3. \A x \in GroupId : Has(gs, x) => gs[x].jump \in JumpNames \cup {Nil}
    BY RecordOf DEF Group
  <2> QED BY <2>1, <2>2, <2>3
<1> QED BY <1>1, <1>2

\* In a forest no two groups are each on the other's chain.
LEMMA ChainsAreApart ==
    ASSUME NEW gs \in Table(GroupId, Group), IsFiniteSet(GroupId), \A x \in GroupId : ~ AncestryLoop(gs, x),
           NEW a \in GroupId, NEW b \in GroupId, Has(gs, a), Has(gs, b),
           a \in Chain(gs, b), b \in Chain(gs, a)
    PROVE  a = b
<1> SUFFICES ASSUME a # b PROVE FALSE
  OBVIOUS
<1>0. Cardinality(GroupId) \in Nat /\ \A x \in GroupId : x # Nil
  BY FS_CardinalityType, StoreAssumption DEF Ids
<1>1. \A x \in Chain(gs, a) : x \in GroupId /\ Has(gs, x)
  BY <1>0, ChainOfGroups
<1>2. ASSUME NEW x \in GroupId, Has(gs, x)
      PROVE  /\ x \in Chain(gs, x) /\ Upward(gs, Chain(gs, x))
             /\ \A y \in Chain(gs, x) : y = x \/ (Up(gs, x) # Nil /\ y \in Chain(gs, Up(gs, x)))
  <2>1. FirstOf(gs, x) = x
    BY <1>0, <1>2 DEF FirstOf
  <2>2. x \in Chain(gs, x) /\ Upward(gs, Chain(gs, x))
    BY <1>0, <2>1, ChainIsUpward
  <2> DEFINE u == Up(gs, x)
  <2>3. u \in GroupId \cup {Nil} /\ (u # Nil => Has(gs, u))
    <3>1. gs[x].parent \in GroupId \cup {Nil}
      BY <1>2, RecordOf DEF Group
    <3> QED BY <3>1 DEF Up
  <2> HIDE DEF u
  <2> DEFINE S == {x} \cup (IF u = Nil THEN {} ELSE Chain(gs, u))
  <2>4. u # Nil => u \in Chain(gs, u) /\ Upward(gs, Chain(gs, u))
    BY <1>0, <2>3, ChainIsUpward DEF FirstOf
  <2>5. Upward(gs, S)
    BY <2>4 DEF Upward, u
  <2>6. Chain(gs, x) \subseteq S
    <3>1. FirstOf(gs, x) \in S \cup {Nil}
      BY <2>1
    <3> HIDE DEF S
    <3> QED BY <1>0, <2>5, <3>1, ChainIsSmallest
  <2> QED BY <2>2, <2>6 DEF u
<1>3. ASSUME NEW x \in GroupId, NEW y \in GroupId, Has(gs, x), Has(gs, y), y \in Chain(gs, x)
      PROVE  Chain(gs, y) \subseteq Chain(gs, x)
  <2>1. FirstOf(gs, y) \in Chain(gs, x) /\ Upward(gs, Chain(gs, x))
    BY <1>0, <1>2, <1>3 DEF FirstOf
  <2> QED BY <1>0, <2>1, ChainIsSmallest
<1> DEFINE S == {x \in Chain(gs, a) : a \in Chain(gs, x)}
<1>4. ASSUME NEW x \in S PROVE x \in GroupId /\ Has(gs, x) /\ gs[x].parent \in S
  <2>1. x \in GroupId /\ Has(gs, x) /\ x \in Chain(gs, a) /\ a \in Chain(gs, x)
    BY <1>1
  <2> DEFINE u == Up(gs, x)
  <2>2. u # Nil /\ a \in Chain(gs, u)
    <3>1. CASE x # a
      BY <1>2, <2>1, <3>1
    <3>2. CASE x = a
      <4>1. Up(gs, a) # Nil /\ b \in Chain(gs, Up(gs, a))
        BY <1>2
      <4>2. Up(gs, a) \in GroupId /\ Has(gs, Up(gs, a))
        BY <1>1, <1>2, <4>1 DEF Upward
      <4>3. Chain(gs, b) \subseteq Chain(gs, Up(gs, a))
        BY <1>3, <4>1, <4>2
      <4> QED BY <3>2, <4>1, <4>3
    <3> QED BY <3>1, <3>2
  <2>3. u \in Chain(gs, a)
    BY <1>2, <2>1, <2>2 DEF Upward
  <2>4. u = gs[x].parent
    BY <1>0, <2>1, <2>2 DEF Up
  <2> QED BY <2>1, <2>2, <2>3, <2>4
<1>5. Closed(gs, S)
  BY <1>4 DEF Closed
<1>6. a \in S
  BY <1>2
<1> HIDE DEF S
<1> QED BY <1>5, <1>6, LoopIsClosedSet

\* Groups taken out of the chains leave a host the jump host it had, or none, as long as none
\* of them had one of its own and a group above.
LEMMA JumpAfter ==
    ASSUME NEW old \in Table(GroupId, Group), NEW new \in Table(GroupId, Group), IsFiniteSet(GroupId),
           \A x \in GroupId : ~ AncestryLoop(old, x),
           NEW h \in Host, NEW k \in Host, k.jump = h.jump,
           NEW R \in SUBSET GroupId,
           \A x \in GroupId : Has(new, x) => x \notin R /\ Has(old, x) /\ new[x].jump = old[x].jump
                                             /\ Chain(new, x) = Chain(old, x) \ R,
           Chain(new, k.group) = Chain(old, h.group) \ R,
           \A x \in R : Has(old, x) => old[x].jump = Nil \/ Chain(old, x) = {x}
    PROVE  JumpOf(new, k) \in {JumpOf(old, h), Nil}
<1>0. Cardinality(GroupId) \in Nat
  BY FS_CardinalityType
<1>1. CASE h.jump # Nil
  BY <1>1 DEF JumpOf
<1>2. CASE h.jump = Nil
  <2>a. \A x \in Chain(old, h.group) : x \in GroupId /\ Has(old, x)
    BY <1>0, ChainOfGroups DEF Host
  <2>b. \A x \in Chain(new, k.group) : x \in GroupId /\ Has(new, x)
    BY <1>0, ChainOfGroups DEF Host
  <2>c. \A x \in Setters(new, k) : x \in Setters(old, h)
    BY <2>b DEF Setters
  <2>1. CASE Setters(new, k) = {}
    BY <1>0, <1>2, <2>1, Inherited
  <2>2. CASE Setters(new, k) # {}
    <3>1. PICK y \in Setters(new, k) : /\ JumpOf(new, k) = new[y].jump
                                       /\ \A x \in Setters(new, k) : x \in Chain(new, y)
      BY <1>0, <1>2, <2>2, Inherited
    <3>2. PICK x \in Setters(old, h) : /\ JumpOf(old, h) = old[x].jump
                                       /\ \A z \in Setters(old, h) : z \in Chain(old, x)
      BY <1>0, <1>2, <2>2, <2>c, Inherited
    <3>3. y \in Chain(old, x) /\ y \in GroupId /\ Has(new, y) /\ Has(old, y)
      BY <2>b, <2>c, <3>2 DEF Setters
    <3>4. x \in GroupId /\ Has(old, x) /\ old[x].jump # Nil /\ x \in Chain(old, h.group)
      BY <2>a DEF Setters
    <3>5. CASE x \in R
      <4>1. y = x
        BY <3>3, <3>4, <3>5
      <4> QED BY <3>3, <3>5, <4>1
    <3>6. CASE x \notin R
      <4>1. x \in Setters(new, k)
        BY <2>b, <3>4, <3>6 DEF Setters
      <4>2. x \in Chain(old, y)
        BY <3>1, <3>3, <4>1
      <4>3. x = y
        BY <3>3, <3>4, <4>2, ChainsAreApart
      <4> QED BY <3>1, <3>2, <3>3, <4>3
    <3> QED BY <3>5, <3>6
  <2> QED BY <2>1, <2>2
<1> QED BY <1>1, <1>2

\* What deletions leave of the jump hosts, of groups and hosts.
LEMMA JumpsLeft ==
    ASSUME TypeOK
    PROVE  /\ \A i \in GroupId : DeleteGroup(i) =>
                 /\ \A g \in GroupId : g # i /\ Has(groups, g) => groups'[g].jump = groups[g].jump
                 /\ \A h \in HostId : Has(hosts, h) => hosts'[h].jump = hosts[h].jump
           /\ \A c \in CredId : DeleteCredential(c) =>
                 /\ \A g \in GroupId : Has(groups, g) => /\ groups'[g].jump = groups[g].jump
                                                         /\ groups'[g].parent = groups[g].parent
                 /\ \A h \in HostId : Has(hosts, h) => /\ hosts'[h].jump = hosts[h].jump
                                                       /\ hosts'[h].group = hosts[h].group
<1>1. \A g \in GroupId : Has(groups, g) => groups[g] \in Group
  BY RecordOf DEF TypeOK
<1>2. \A h \in HostId : Has(hosts, h) => hosts[h] \in Host
  BY RecordOf DEF TypeOK
<1>3. \A g \in Group : \A p : [g EXCEPT !.parent = p].jump = g.jump
  BY DEF Group
<1>4. \A h \in Host : \A p : [h EXCEPT !.group = p].jump = h.jump
  BY DEF Host
<1>5. \A g \in Group : \A p : [g EXCEPT !.cred = p].jump = g.jump /\ [g EXCEPT !.cred = p].parent = g.parent
  BY DEF Group
<1>6. \A h \in Host : \A p : [h EXCEPT !.cred = p].jump = h.jump /\ [h EXCEPT !.cred = p].group = h.group
  BY DEF Host
<1>7. groups \in [GroupId -> Group \cup {Nil}] /\ hosts \in [HostId -> Host \cup {Nil}]
  BY DEF TypeOK, Table
<1>8. ASSUME NEW i \in GroupId, DeleteGroup(i)
      PROVE  /\ \A g \in GroupId : g # i /\ Has(groups, g) => groups'[g].jump = groups[g].jump
             /\ \A h \in HostId : Has(hosts, h) => hosts'[h].jump = hosts[h].jump
  <2>1. \A g \in GroupId : g # i => groups'[g] \in {groups[g], [groups[g] EXCEPT !.parent = ParentAbove(i)]}
    BY <1>8 DEF DeleteGroup
  <2>2. \A h \in HostId : hosts'[h] \in {hosts[h], [hosts[h] EXCEPT !.group = ParentAbove(i)]}
    BY <1>8 DEF DeleteGroup
  <2>3. \A g \in GroupId : g # i /\ Has(groups, g) => groups'[g].jump = groups[g].jump
    BY <1>1, <1>3, <2>1
  <2>4. \A h \in HostId : Has(hosts, h) => hosts'[h].jump = hosts[h].jump
    BY <1>2, <1>4, <2>2
  <2> QED BY <2>3, <2>4
<1>9. ASSUME NEW c \in CredId, DeleteCredential(c)
      PROVE  /\ \A g \in GroupId : Has(groups, g) => /\ groups'[g].jump = groups[g].jump
                                                     /\ groups'[g].parent = groups[g].parent
             /\ \A h \in HostId : Has(hosts, h) => /\ hosts'[h].jump = hosts[h].jump
                                                   /\ hosts'[h].group = hosts[h].group
  <2>1. \A g \in GroupId : groups'[g] \in {groups[g], [groups[g] EXCEPT !.cred = Nil]}
    BY <1>7, <1>9 DEF DeleteCredential, Unlinked
  <2>2. \A h \in HostId : hosts'[h] \in {hosts[h], [hosts[h] EXCEPT !.cred = Nil]}
    BY <1>7, <1>9 DEF DeleteCredential, Unlinked
  <2>3. \A g \in GroupId : Has(groups, g) => /\ groups'[g].jump = groups[g].jump
                                             /\ groups'[g].parent = groups[g].parent
    <3>1. ASSUME NEW g \in GroupId, Has(groups, g), groups'[g] = [groups[g] EXCEPT !.cred = Nil]
          PROVE  groups'[g].jump = groups[g].jump /\ groups'[g].parent = groups[g].parent
      BY <1>1, <1>5, <3>1
    <3> QED BY <2>1, <3>1
  <2>4. \A h \in HostId : Has(hosts, h) => /\ hosts'[h].jump = hosts[h].jump
                                           /\ hosts'[h].group = hosts[h].group
    <3>1. ASSUME NEW h \in HostId, Has(hosts, h), hosts'[h] = [hosts[h] EXCEPT !.cred = Nil]
          PROVE  hosts'[h].jump = hosts[h].jump /\ hosts'[h].group = hosts[h].group
      BY <1>2, <1>6, <3>1
    <3> QED BY <2>2, <3>1
  <2> QED BY <2>3, <2>4
<1> QED BY <1>8, <1>9

\* The same groups, each with the same above it, make the same chains.
LEMMA SameChain ==
    ASSUME NEW old \in Table(GroupId, Group), NEW new \in Table(GroupId, Group), IsFiniteSet(GroupId),
           \A x \in GroupId : ~ AncestryLoop(old, x), \A x \in GroupId : ~ AncestryLoop(new, x),
           \A x \in GroupId : Has(new, x) <=> Has(old, x),
           \A x \in GroupId : Has(old, x) => Up(new, x) = Up(old, x),
           NEW g \in GroupId \cup {Nil}, NEW k \in GroupId \cup {Nil}, FirstOf(new, k) = FirstOf(old, g)
    PROVE  Chain(new, k) = Chain(old, g)
<1>0. Cardinality(GroupId) \in Nat
  BY FS_CardinalityType
<1>3. \A x \in Chain(old, g) \cup Chain(new, k) : x \in GroupId /\ Has(old, x)
  BY <1>0, ChainOfGroups
<1>4. FirstOf(old, g) \in Chain(old, g) \cup {Nil} /\ Upward(old, Chain(old, g))
  BY ChainIsUpward
<1>5. FirstOf(new, k) \in Chain(new, k) \cup {Nil} /\ Upward(new, Chain(new, k))
  BY ChainIsUpward
<1>6. Upward(new, Chain(old, g)) /\ Upward(old, Chain(new, k))
  BY <1>3, <1>4, <1>5 DEF Upward
<1>7. Chain(new, k) \subseteq Chain(old, g)
  BY <1>0, <1>4, <1>6, ChainIsSmallest
<1>8. Chain(old, g) \subseteq Chain(new, k)
  BY <1>0, <1>5, <1>6, ChainIsSmallest
<1> QED BY <1>7, <1>8

\* A group deleted that had a jump host of its own had no group above.
NoJumpUncovered == \A g \in Removed : groups[g].jump = Nil \/ groups[g].parent = Nil

\* Of hosts left by a deletion, each has the jump host it had, or none.
LEMMA DeletionsUncoverNone ==
    ASSUME TypeOK, TypeOK', GroupsFormAForest, GroupsFormAForest', IsFiniteSet(GroupId),
           \/ \E i \in GroupId : DeleteGroup(i) /\ NoJumpUncovered
           \/ \E c \in CredId : DeleteCredential(c),
           NEW h \in HostId, Has(hosts', h)
    PROVE  /\ Has(hosts, h) /\ hosts'[h].name = hosts[h].name
           /\ JumpOf(groups', hosts'[h]) \in {JumpOf(groups, hosts[h]), Nil}
<1>0. Cardinality(GroupId) \in Nat /\ \A x \in GroupId : x # Nil
  BY FS_CardinalityType, StoreAssumption DEF Ids
<1>1. groups \in Table(GroupId, Group) /\ groups' \in Table(GroupId, Group)
  BY DEF TypeOK
<1>2. \A x \in GroupId : ~ AncestryLoop(groups, x) /\ ~ AncestryLoop(groups', x)
  BY DEF GroupsFormAForest, AncestryLoop, Has
<1>3. Has(hosts, h) => hosts[h] \in Host /\ hosts[h].group \in GroupId \cup {Nil}
  <2>1. Has(hosts, h) => hosts[h] \in Host
    BY RecordOf DEF TypeOK
  <2> QED BY <2>1 DEF Host
<1>4. hosts'[h] \in Host /\ hosts'[h].group \in GroupId \cup {Nil}
  <2>1. hosts'[h] \in Host
    BY RecordOf DEF TypeOK
  <2> QED BY <2>1 DEF Host
<1>a. \A x \in GroupId : Has(groups, x) => groups[x].parent \in GroupId \cup {Nil}
  <2>1. \A x \in GroupId : Has(groups, x) => groups[x] \in Group
    BY <1>1, RecordOf
  <2> QED BY <2>1 DEF Group
<1>b. ASSUME \A x \in GroupId : Has(groups', x) <=> Has(groups, x),
             \A x \in GroupId : Has(groups, x) => /\ groups'[x].jump = groups[x].jump
                                                  /\ Up(groups', x) = Up(groups, x),
             Has(hosts, h), hosts'[h].jump = hosts[h].jump,
             FirstOf(groups', hosts'[h].group) = FirstOf(groups, hosts[h].group)
      PROVE  JumpOf(groups', hosts'[h]) \in {JumpOf(groups, hosts[h]), Nil}
  <2>1. \A x \in GroupId : Has(groups', x) => Chain(groups', x) = Chain(groups, x)
    <3>1. \A x \in GroupId : FirstOf(groups', x) = FirstOf(groups, x)
      BY <1>b DEF FirstOf
    <3> QED BY <1>1, <1>2, <1>b, <3>1, SameChain
  <2>2. Chain(groups', hosts'[h].group) = Chain(groups, hosts[h].group)
    BY <1>1, <1>2, <1>3, <1>4, <1>b, SameChain
  <2> DEFINE R == {}
  <2>3. R \in SUBSET GroupId /\ \A x : x \notin R
    OBVIOUS
  <2>4. /\ \A x \in GroupId : Has(groups', x) =>
              Chain(groups', x) = Chain(groups, x) \ R
        /\ Chain(groups', hosts'[h].group) = Chain(groups, hosts[h].group) \ R
    BY <2>1, <2>2
  <2> HIDE DEF R
  <2> QED BY <1>1, <1>2, <1>3, <1>4, <1>b, <2>3, <2>4, JumpAfter
<1>5. ASSUME NEW i \in GroupId, DeleteGroup(i), NoJumpUncovered, Has(groups, i)
      PROVE  /\ Has(hosts, h) /\ hosts'[h].name = hosts[h].name
             /\ JumpOf(groups', hosts'[h]) \in {JumpOf(groups, hosts[h]), Nil}
  <2>1. \A g \in GroupId : Has(groups', g) <=> g # i /\ Has(groups, g)
    BY <1>5, DeleteGroupEffect
  <2>2. /\ Has(hosts, h) /\ hosts'[h].name = hosts[h].name
        /\ hosts'[h].group = IF hosts[h].group = i THEN groups[i].parent ELSE hosts[h].group
    BY <1>5, DeleteGroupEffect DEF ParentAbove
  <2>3. Chain(groups', hosts'[h].group) = Chain(groups, hosts[h].group) \ {i}
    BY <1>3, <1>5, <2>2, ChainsAfterDelete
  <2>4. \A x \in GroupId : x # i => Chain(groups', x) = Chain(groups, x) \ {i}
    BY <1>5, ChainsAfterDelete
  <2>5. Removed = {i}
    BY <1>5, <2>1 DEF Removed, Has
  <2>6. groups[i].jump = Nil \/ Chain(groups, i) = {i}
    <3>1. CASE groups[i].parent = Nil
      <4>1. FirstOf(groups, i) = i /\ Up(groups, i) = Nil
        BY <1>0, <1>5, <3>1 DEF FirstOf, Up
      <4>2. Upward(groups, {i})
        BY <4>1 DEF Upward
      <4>3. Chain(groups, i) \subseteq {i}
        BY <1>0, <4>1, <4>2, ChainIsSmallest
      <4>4. i \in Chain(groups, i)
        BY <1>0, <1>1, <1>2, <4>1, ChainIsUpward
      <4> QED BY <4>3, <4>4
    <3> QED BY <1>5, <2>5, <3>1 DEF NoJumpUncovered
  <2>7. /\ \A g \in GroupId : g # i /\ Has(groups, g) => groups'[g].jump = groups[g].jump
        /\ hosts'[h].jump = hosts[h].jump
    BY <1>5, <2>2, JumpsLeft
  <2>8. \A x \in GroupId : Has(groups', x) => x \notin {i} /\ Has(groups, x) /\ groups'[x].jump = groups[x].jump
                                              /\ Chain(groups', x) = Chain(groups, x) \ {i}
    BY <2>1, <2>4, <2>7
  <2>9. JumpOf(groups', hosts'[h]) \in {JumpOf(groups, hosts[h]), Nil}
    BY <1>1, <1>2, <1>3, <1>4, <2>2, <2>3, <2>6, <2>7, <2>8, JumpAfter
  <2> QED BY <2>2, <2>9
<1>7. ASSUME NEW c \in CredId, DeleteCredential(c)
      PROVE  /\ Has(hosts, h) /\ hosts'[h].name = hosts[h].name
             /\ JumpOf(groups', hosts'[h]) \in {JumpOf(groups, hosts[h]), Nil}
  <2>1. /\ \A g \in GroupId : Has(groups', g) <=> Has(groups, g)
        /\ Has(hosts, h) /\ hosts'[h].name = hosts[h].name
    BY <1>7, DeleteCredentialEffect
  <2>2. /\ \A g \in GroupId : Has(groups, g) => /\ groups'[g].jump = groups[g].jump
                                                /\ groups'[g].parent = groups[g].parent
        /\ hosts'[h].jump = hosts[h].jump /\ hosts'[h].group = hosts[h].group
    BY <1>7, <2>1, JumpsLeft
  <2>3. \A x \in GroupId : Has(groups, x) => Up(groups', x) = Up(groups, x)
    BY <1>0, <1>a, <2>1, <2>2 DEF Up
  <2>4. FirstOf(groups', hosts'[h].group) = FirstOf(groups, hosts[h].group)
    BY <1>3, <2>1, <2>2 DEF FirstOf
  <2> QED BY <1>b, <2>1, <2>2, <2>3, <2>4
<1>8. ASSUME NEW i \in GroupId, DeleteGroup(i), ~ Has(groups, i)
      PROVE  /\ Has(hosts, h) /\ hosts'[h].name = hosts[h].name
             /\ JumpOf(groups', hosts'[h]) \in {JumpOf(groups, hosts[h]), Nil}
  <2>1. /\ \A g \in GroupId : Has(groups', g) <=> Has(groups, g)
        /\ \A g \in GroupId : Has(groups, g) =>
              groups'[g].parent = IF groups[g].parent = i THEN Nil ELSE groups[g].parent
        /\ Has(hosts, h) /\ hosts'[h].name = hosts[h].name
        /\ hosts'[h].group = IF hosts[h].group = i THEN Nil ELSE hosts[h].group
    BY <1>8, DeleteGroupEffect DEF ParentAbove
  <2>2. /\ \A g \in GroupId : Has(groups, g) => groups'[g].jump = groups[g].jump
        /\ hosts'[h].jump = hosts[h].jump
    BY <1>8, <2>1, JumpsLeft
  <2>3. \A x \in GroupId : Has(groups, x) => Up(groups', x) = Up(groups, x)
    BY <1>0, <1>8, <1>a, <2>1 DEF Up
  <2>4. FirstOf(groups', hosts'[h].group) = FirstOf(groups, hosts[h].group)
    BY <1>3, <1>8, <2>1 DEF FirstOf
  <2> QED BY <1>b, <2>1, <2>2, <2>3, <2>4
<1> QED BY <1>5, <1>7, <1>8

\* The hosts met on the way up a chain of jump hosts, and how far that is walked.
HopFrom(gs, hs, byName, x) ==
    IF x = Nil THEN Nil
    ELSE LET name == JumpOf(gs, hs[x]) IN IF name = Nil THEN Nil ELSE byName[name]
Hops(gs, hs, byName, i, k, f) ==
    f = [n \in 0..k |-> IF n = 0 THEN i ELSE HopFrom(gs, hs, byName, f[n-1])]

LEMMA HopsThere ==
    ASSUME NEW gs, NEW hs, NEW byName, NEW i, NEW k \in Nat
    PROVE  \E f : Hops(gs, hs, byName, i, k, f)
<1> DEFINE T == {n \in Nat : ~ \E f : Hops(gs, hs, byName, i, n, f)}
           on(x) == HopFrom(gs, hs, byName, x)
<1>1. ASSUME T # {} PROVE FALSE
  <2>1. PICK n \in T : n = 0 \/ n - 1 \in Nat \ T
    BY <1>1, Least
  <2>2. CASE n = 0
    <3>1. Hops(gs, hs, byName, i, 0, [m \in 0..0 |-> i])
      BY DEF Hops
    <3> QED BY <2>1, <2>2, <3>1
  <2>3. CASE n # 0
    <3>1. PICK f : Hops(gs, hs, byName, i, n - 1, f)
      BY <2>1, <2>3
    <3> DEFINE e == [m \in 0..n |-> IF m = n THEN on(f[n - 1]) ELSE f[m]]
    <3>2. \A m \in 0..n : m = n \/ m \in 0..(n - 1)
      BY <2>1
    <3>3. \A m \in 0..(n - 1) : f[m] = IF m = 0 THEN i ELSE on(f[m - 1])
      BY <3>1 DEF Hops
    <3> HIDE DEF on
    <3>4. ASSUME NEW m \in 0..n PROVE e[m] = IF m = 0 THEN i ELSE on(e[m - 1])
      <4>1. m # 0 => m - 1 \in 0..n /\ m - 1 # n /\ e[m - 1] = f[m - 1]
        BY <2>1
      <4> QED BY <2>1, <2>3, <3>2, <3>3, <4>1
    <3>5. Hops(gs, hs, byName, i, n, e)
      BY <3>4 DEF Hops, on
    <3> QED BY <2>1, <3>5
  <2> QED BY <2>2, <2>3
<1> QED BY <1>1

LEMMA HopsAre ==
    ASSUME NEW gs, NEW hs, NEW byName, NEW i
    PROVE  \E hop : /\ hop[0] = i
                    /\ \A n \in 1..MaxJumpHops : hop[n] = HopFrom(gs, hs, byName, hop[n - 1])
                    /\ JumpChainLoops(gs, hs, byName, i)
                         => \E k \in 1..MaxJumpHops : hop[k] # Nil /\ \E j \in 0..(k - 1) : hop[j] = hop[k]
                    /\ \A k \in 1..MaxJumpHops : \A j \in 0..(k - 1) :
                          hop[k] # Nil /\ hop[j] = hop[k] => JumpChainLoops(gs, hs, byName, i)
<1>1. MaxJumpHops \in Nat
  BY StoreAssumption
<1>2. \E f : Hops(gs, hs, byName, i, MaxJumpHops, f)
  BY <1>1, HopsThere
<1> DEFINE hop == CHOOSE f : Hops(gs, hs, byName, i, MaxJumpHops, f)
<1>3. JumpChainLoops(gs, hs, byName, i)
         <=> \E k \in 1..MaxJumpHops : hop[k] # Nil /\ \E j \in 0..(k - 1) : hop[j] = hop[k]
  BY DEF JumpChainLoops, Hops, HopFrom
<1>4. Hops(gs, hs, byName, i, MaxJumpHops, hop)
  BY <1>2
<1> HIDE DEF hop
<1>5. hop[0] = i /\ \A n \in 1..MaxJumpHops : hop[n] = HopFrom(gs, hs, byName, hop[n - 1])
  BY <1>1, <1>4 DEF Hops
<1> QED BY <1>3, <1>5

\* Where no two hosts share a name, a name finds the one host of that name, if there is one.
LEMMA LookupIs ==
    ASSUME NEW hs \in Table(HostId, Host), Distinct(hs), NEW byName \in Lookups(hs),
           NEW n \in HostNames \cup JumpNames
    PROVE  /\ byName[n] # Nil => byName[n] \in HostId /\ Has(hs, byName[n]) /\ hs[byName[n]].name = n
           /\ \A i \in HostId : Has(hs, i) /\ hs[i].name = n => byName[n] = i
<1> DEFINE named(m) == {i \in DOMAIN hs : Has(hs, i) /\ hs[i].name = m}
           held == {m \in HostNames \cup JumpNames : named(m) # {}}
<1>1. DOMAIN hs = HostId
  BY DEF Table
<1>2. \A i, j \in named(n) : i = j
  BY DEF Distinct
<1>3. n \in held <=> named(n) # {}
  OBVIOUS
<1>4. \/ byName[n] = IF n \in held THEN CHOOSE i \in named(n) : TRUE ELSE Nil
      \/ (n \in held => byName[n] \in named(n)) /\ (n \notin held => byName[n] = Nil)
  <2> DEFINE N == HostNames \cup JumpNames
             sole(m) == IF m \in held THEN CHOOSE i \in named(m) : TRUE ELSE Nil
  <2>1. \/ byName \in {[m \in N |-> sole(m)]}
        \/ byName \in {f \in [N -> HostId \cup {Nil}] :
                          \A m \in DOMAIN f : IF m \in held THEN f[m] \in named(m) ELSE f[m] = Nil}
    BY DEF Lookups
  <2> HIDE DEF named, held
  <2>2. CASE byName \in {[m \in N |-> sole(m)]}
    BY <2>2
  <2>3. CASE byName \in {f \in [N -> HostId \cup {Nil}] :
                            \A m \in DOMAIN f : IF m \in held THEN f[m] \in named(m) ELSE f[m] = Nil}
    BY <2>3
  <2> QED BY <2>1, <2>2, <2>3
<1>5. named(n) # {} => byName[n] \in named(n)
  BY <1>3, <1>4
<1>6. named(n) = {} => byName[n] = Nil
  BY <1>3, <1>4
<1>7. \A i \in HostId : i \in named(n) <=> Has(hs, i) /\ hs[i].name = n
  BY <1>1
<1>8. named(n) \in SUBSET HostId
  BY <1>1
<1> HIDE DEF named
<1> QED BY <1>2, <1>5, <1>6, <1>7, <1>8

\* Hosts each of which jumps through another of them.
JumpLoop(gs, hs, S) ==
    /\ S # {} /\ \A h \in S : h \in HostId /\ Has(hs, h)
    /\ \A h \in S : \E via \in S : hs[via].name = JumpOf(gs, hs[h])
\* None of them is of more hosts than a chain is walked.
NoShortLoop(gs, hs) == ~ \E S : JumpLoop(gs, hs, S) /\ Cardinality(S) <= MaxJumpHops

\* Where there is no such loop, no host is found to loop.
LEMMA NoneLoops ==
    ASSUME NEW gs \in Table(GroupId, Group), NEW hs \in Table(HostId, Host), Distinct(hs),
           NEW byName \in Lookups(hs), IsFiniteSet(GroupId), NoShortLoop(gs, hs)
    PROVE  LoopingHosts(gs, hs, byName) = {}
<1> SUFFICES ASSUME NEW i \in HostId, Has(hs, i), JumpChainLoops(gs, hs, byName, i) PROVE FALSE
  <2>1. DOMAIN hs = HostId
    BY DEF Table
  <2> QED BY <2>1 DEF LoopingHosts
<1>0. MaxJumpHops \in Nat /\ \A x \in HostId : x # Nil
  BY StoreAssumption DEF Ids
<1>1. PICK hop : /\ hop[0] = i
                 /\ \A n \in 1..MaxJumpHops : hop[n] = HopFrom(gs, hs, byName, hop[n - 1])
                 /\ \E k \in 1..MaxJumpHops : hop[k] # Nil /\ \E j \in 0..(k - 1) : hop[j] = hop[k]
  BY HopsAre
<1>2. PICK k \in 1..MaxJumpHops : hop[k] # Nil /\ \E j \in 0..(k - 1) : hop[j] = hop[k]
  BY <1>1
<1>3. PICK j \in 0..(k - 1) : hop[j] = hop[k]
  BY <1>2
<1>4. ASSUME NEW x \in HostId, Has(hs, x), NEW y, y = HopFrom(gs, hs, byName, x), y # Nil
      PROVE  y \in HostId /\ Has(hs, y) /\ hs[y].name = JumpOf(gs, hs[x])
  <2> DEFINE name == JumpOf(gs, hs[x])
  <2>1. name \in JumpNames \cup {Nil}
    <3>1. Cardinality(GroupId) \in Nat /\ hs[x] \in Host
      BY <1>4, FS_CardinalityType, RecordOf
    <3> QED BY <3>1, JumpType
  <2> HIDE DEF name
  <2>2. name # Nil /\ y = byName[name]
    BY <1>0, <1>4 DEF HopFrom, name
  <2>3. y \in HostId /\ Has(hs, y) /\ hs[y].name = name
    BY <1>4, <2>1, <2>2, LookupIs
  <2> QED BY <2>3 DEF name
<1>5. \A n \in 0..k : hop[n] # Nil
  <2> DEFINE T == {m \in Nat : m <= k /\ hop[k - m] = Nil}
  <2>1. ASSUME T # {} PROVE FALSE
    <3>1. PICK m \in T : m = 0 \/ m - 1 \in Nat \ T
      BY <2>1, Least
    <3>2. m # 0 /\ k - (m - 1) \in 1..MaxJumpHops /\ (k - (m - 1)) - 1 = k - m
      BY <1>0, <1>2, <3>1
    <3>3. hop[k - (m - 1)] # Nil
      BY <1>0, <3>1, <3>2
    <3>4. hop[k - (m - 1)] = HopFrom(gs, hs, byName, hop[k - m])
      BY <1>1, <3>2
    <3> QED BY <3>1, <3>3, <3>4 DEF HopFrom
  <2>2. \A n \in 0..k : k - n \in Nat /\ k - n <= k /\ k - (k - n) = n
    BY <1>0
  <2> QED BY <2>1, <2>2
<1>6. \A n \in 0..k : hop[n] \in HostId /\ Has(hs, hop[n])
  <2> DEFINE T == {m \in Nat : m <= k /\ ~ (hop[m] \in HostId /\ Has(hs, hop[m]))}
  <2>1. ASSUME T # {} PROVE FALSE
    <3>1. PICK m \in T : m = 0 \/ m - 1 \in Nat \ T
      BY <2>1, Least
    <3>2. m # 0 /\ m \in 1..MaxJumpHops /\ m \in 0..k
      BY <1>0, <1>1, <3>1
    <3>3. hop[m - 1] \in HostId /\ Has(hs, hop[m - 1]) /\ hop[m] # Nil
      BY <1>0, <1>5, <3>1, <3>2
    <3>4. hop[m] = HopFrom(gs, hs, byName, hop[m - 1])
      BY <1>1, <3>2
    <3> QED BY <1>4, <3>1, <3>3, <3>4
  <2>2. \A n \in 0..k : n \in Nat /\ n <= k
    BY <1>0
  <2> QED BY <2>1, <2>2
<1> DEFINE S == {hop[n] : n \in j..(k - 1)}
<1>7. ASSUME NEW n \in j..(k - 1)
      PROVE  hop[n] \in HostId /\ Has(hs, hop[n]) /\ \E via \in S : hs[via].name = JumpOf(gs, hs[hop[n]])
  <2>1. n \in 0..k /\ n + 1 \in 0..k /\ n + 1 \in 1..MaxJumpHops /\ (n + 1) - 1 = n
        /\ (n + 1 \in j..(k - 1) \/ n + 1 = k) /\ j \in j..(k - 1)
    BY <1>0
  <2>2. hop[n] \in HostId /\ Has(hs, hop[n]) /\ hop[n + 1] # Nil
        /\ hop[n + 1] = HopFrom(gs, hs, byName, hop[n])
    BY <1>1, <1>5, <1>6, <2>1
  <2>3. hs[hop[n + 1]].name = JumpOf(gs, hs[hop[n]])
    BY <1>4, <2>2
  <2>4. hop[n + 1] \in S
    <3>1. CASE n + 1 = k
      BY <1>3, <2>1, <3>1
    <3>2. CASE n + 1 \in j..(k - 1)
      BY <3>2
    <3> QED BY <2>1, <3>1, <3>2
  <2> HIDE DEF S
  <2> QED BY <2>2, <2>3, <2>4
<1>8. hop[j] \in S
  <2>1. j \in j..(k - 1)
    BY <1>0
  <2> QED BY <2>1
<1>9. JumpLoop(gs, hs, S)
  BY <1>7, <1>8 DEF JumpLoop
<1>10. Cardinality(S) <= MaxJumpHops
  <2> DEFINE F == [n \in j..(k - 1) |-> hop[n]]
  <2>1. IsFiniteSet(j..(k - 1)) /\ Cardinality(j..(k - 1)) = k - j
    BY <1>0, FS_Interval
  <2>2. F \in Surjection(j..(k - 1), S)
    BY DEF Surjection
  <2> HIDE DEF F, S
  <2>3. Cardinality(S) <= Cardinality(j..(k - 1)) /\ IsFiniteSet(S)
    BY <2>1, <2>2, FS_Surjection
  <2>4. Cardinality(S) \in Nat
    BY <2>3, FS_CardinalityType
  <2> QED BY <1>0, <2>1, <2>3, <2>4
<1> HIDE DEF S
<1> QED BY <1>9, <1>10 DEF NoShortLoop

\* And where no host is found to loop there is no such loop.
LEMMA LoopsAreFound ==
    ASSUME NEW gs \in Table(GroupId, Group), NEW hs \in Table(HostId, Host), Distinct(hs),
           NEW byName \in Lookups(hs), IsFiniteSet(GroupId), IsFiniteSet(HostId), Nil \notin HostNames,
           LoopingHosts(gs, hs, byName) = {}
    PROVE  NoShortLoop(gs, hs)
<1> SUFFICES ASSUME NEW S, JumpLoop(gs, hs, S), Cardinality(S) <= MaxJumpHops PROVE FALSE
  BY DEF NoShortLoop
<1>0. MaxJumpHops \in Nat /\ \A x \in HostId : x # Nil
  BY StoreAssumption DEF Ids
<1>1. /\ S \in SUBSET HostId /\ \A x \in S : Has(hs, x) /\ hs[x] \in Host
      /\ \A x \in S : \E via \in S : hs[via].name = JumpOf(gs, hs[x])
  BY RecordOf DEF JumpLoop
<1>2. IsFiniteSet(S) /\ Cardinality(S) \in Nat
  BY <1>1, FS_Subset, FS_CardinalityType
<1>3. PICK i \in S : TRUE
  BY DEF JumpLoop
<1>4. PICK hop : /\ hop[0] = i
                 /\ \A n \in 1..MaxJumpHops : hop[n] = HopFrom(gs, hs, byName, hop[n - 1])
                 /\ JumpChainLoops(gs, hs, byName, i)
                       => \E k \in 1..MaxJumpHops : hop[k] # Nil /\ \E j \in 0..(k - 1) : hop[j] = hop[k]
                 /\ \A k \in 1..MaxJumpHops : \A j \in 0..(k - 1) :
                       hop[k] # Nil /\ hop[j] = hop[k] => JumpChainLoops(gs, hs, byName, i)
  BY HopsAre
<1>5. ASSUME NEW x \in S PROVE HopFrom(gs, hs, byName, x) \in S
  <2>1. PICK via \in S : hs[via].name = JumpOf(gs, hs[x])
    BY <1>1
  <2>2. hs[via].name \in HostNames /\ via \in HostId /\ Has(hs, via)
    BY <1>1 DEF Host
  <2>3. byName[hs[via].name] = via
    BY <2>2, LookupIs
  <2>4. HopFrom(gs, hs, byName, x) = byName[hs[via].name]
    BY <1>0, <1>1, <2>1, <2>2 DEF HopFrom
  <2> QED BY <2>3, <2>4
<1>6. \A n \in 0..MaxJumpHops : hop[n] \in S
  <2> DEFINE T == {m \in Nat : m <= MaxJumpHops /\ hop[m] \notin S}
  <2>1. ASSUME T # {} PROVE FALSE
    <3>1. PICK m \in T : m = 0 \/ m - 1 \in Nat \ T
      BY <2>1, Least
    <3>2. m # 0 /\ m \in 1..MaxJumpHops
      BY <1>0, <1>3, <1>4, <3>1
    <3>3. hop[m - 1] \in S
      BY <1>0, <3>1, <3>2
    <3> QED BY <1>4, <1>5, <3>1, <3>2, <3>3
  <2>2. \A n \in 0..MaxJumpHops : n \in Nat /\ n <= MaxJumpHops
    BY <1>0
  <2> QED BY <2>1, <2>2
<1> DEFINE F == [n \in 0..MaxJumpHops |-> hop[n]]
<1>7. F \in [0..MaxJumpHops -> S]
  BY <1>6
<1>8. IsFiniteSet(0..MaxJumpHops) /\ Cardinality(0..MaxJumpHops) = MaxJumpHops + 1
  BY <1>0, FS_Interval
<1>9. PICK a \in 0..MaxJumpHops, b \in 0..MaxJumpHops : a # b /\ F[a] = F[b]
  <2> DEFINE D == 0..MaxJumpHops
  <2>1. Cardinality(S) < Cardinality(D) /\ IsFiniteSet(D) /\ F \in [D -> S]
    BY <1>0, <1>2, <1>7, <1>8
  <2> HIDE DEF F, D
  <2>2. \E x, y \in D : x # y /\ F[x] = F[y]
    BY <1>2, <2>1, FS_PigeonHole
  <2> QED BY <2>2 DEF D
<1>10. ASSUME NEW p \in 0..MaxJumpHops, NEW q \in 0..MaxJumpHops, p < q, hop[p] = hop[q] PROVE FALSE
  <2>1. q \in 1..MaxJumpHops /\ p \in 0..(q - 1)
    BY <1>0, <1>10
  <2>2. hop[q] # Nil
    BY <1>0, <1>1, <1>6
  <2>3. JumpChainLoops(gs, hs, byName, i)
    BY <1>4, <1>10, <2>1, <2>2
  <2>4. i \in DOMAIN hs /\ Has(hs, i)
    BY <1>1 DEF Table
  <2> QED BY <2>3, <2>4 DEF LoopingHosts
<1>11. a < b \/ b < a
  BY <1>0, <1>9
<1> QED BY <1>9, <1>10, <1>11

\* A write that was checked makes none.
LEMMA CheckedWriteMakesNoLoop ==
    ASSUME TypeOK, NEW gs \in Table(GroupId, Group), NEW hs \in Table(HostId, Host),
           Distinct(hosts), Distinct(hs), IsFiniteSet(GroupId), IsFiniteSet(HostId), Nil \notin HostNames,
           NoShortLoop(groups, hosts), NoNewJumpLoop(gs, hs)
    PROVE  NoShortLoop(gs, hs)
<1>1. PICK before \in Lookups(hosts), after \in Lookups(hs) :
         LoopingHosts(gs, hs, after) \subseteq LoopingHosts(groups, hosts, before)
  BY DEF NoNewJumpLoop
<1>2. LoopingHosts(groups, hosts, before) = {}
  BY NoneLoops DEF TypeOK
<1>3. LoopingHosts(gs, hs, after) = {}
  BY <1>1, <1>2
<1> QED BY <1>3, LoopsAreFound

\* Nor does a step that leaves each host the jump host it had, or none.
LEMMA LeftWithNoLoop ==
    ASSUME NEW gs, NEW hs, NEW gs1 \in Table(GroupId, Group), NEW hs1 \in Table(HostId, Host),
           Nil \notin HostNames, NoShortLoop(gs, hs),
           \A h \in HostId : Has(hs1, h) =>
              /\ Has(hs, h) /\ hs1[h].name = hs[h].name
              /\ JumpOf(gs1, hs1[h]) \in {JumpOf(gs, hs[h]), Nil}
    PROVE  NoShortLoop(gs1, hs1)
<1> SUFFICES ASSUME NEW S, JumpLoop(gs1, hs1, S), Cardinality(S) <= MaxJumpHops PROVE FALSE
  BY DEF NoShortLoop
<1>1. \A h \in S : h \in HostId /\ Has(hs1, h) /\ hs1[h].name \in HostNames
  <2>1. \A h \in S : h \in HostId /\ Has(hs1, h)
    BY DEF JumpLoop
  <2>2. \A h \in S : hs1[h] \in Host
    BY <2>1, RecordOf
  <2> QED BY <2>1, <2>2 DEF Host
<1>2. ASSUME NEW h \in S PROVE \E via \in S : hs[via].name = JumpOf(gs, hs[h])
  <2>1. PICK via \in S : hs1[via].name = JumpOf(gs1, hs1[h])
    BY DEF JumpLoop
  <2>2. JumpOf(gs1, hs1[h]) # Nil
    BY <1>1, <2>1
  <2> QED BY <1>1, <2>1, <2>2
<1>3. JumpLoop(gs, hs, S)
  BY <1>1, <1>2 DEF JumpLoop
<1> QED BY <1>3 DEF NoShortLoop

LEMMA NoLoopIsMade ==
    ASSUME TypeOK, TypeOK', GroupsFormAForest, GroupsFormAForest', Distinct(hosts), Distinct(hosts'),
           IsFiniteSet(GroupId), IsFiniteSet(HostId), Nil \notin HostNames,
           NoShortLoop(groups, hosts), [Next]_vars, NoJumpUncovered \/ UNCHANGED vars
    PROVE  NoShortLoop(groups', hosts')
<1>0. groups' \in Table(GroupId, Group) /\ hosts' \in Table(HostId, Host)
  BY DEF TypeOK
<1>1. CASE NoNewJumpLoop(groups', hosts')
  BY <1>0, <1>1, CheckedWriteMakesNoLoop
<1>2. ASSUME \A h \in HostId : Has(hosts', h) =>
                /\ Has(hosts, h) /\ hosts'[h].name = hosts[h].name
                /\ JumpOf(groups', hosts'[h]) \in {JumpOf(groups, hosts[h]), Nil}
      PROVE  NoShortLoop(groups', hosts')
  BY <1>0, <1>2, LeftWithNoLoop
<1>3. CASE groups' = groups /\ hosts' = hosts
  BY <1>3
<1>4. ASSUME NEW i \in HostId, DeleteHost(i) PROVE NoShortLoop(groups', hosts')
  <2>1. hosts \in [HostId -> Host \cup {Nil}]
    BY DEF TypeOK, Table
  <2>2. groups' = groups /\ \A h \in HostId : Has(hosts', h) => Has(hosts, h) /\ hosts'[h] = hosts[h]
    BY <1>4, <2>1 DEF DeleteHost, Has
  <2> QED BY <1>2, <2>2
<1>5. ASSUME \/ \E i \in GroupId : DeleteGroup(i) /\ NoJumpUncovered
             \/ \E c \in CredId : DeleteCredential(c)
      PROVE  NoShortLoop(groups', hosts')
  <2>1. \A h \in HostId : Has(hosts', h) =>
           /\ Has(hosts, h) /\ hosts'[h].name = hosts[h].name
           /\ JumpOf(groups', hosts'[h]) \in {JumpOf(groups, hosts[h]), Nil}
    BY <1>5, DeletionsUncoverNone
  <2> QED BY <1>2, <2>1
<1>6. ASSUME NEW i \in GroupId, NEW g \in Group, PutGroup(i, g) PROVE NoNewJumpLoop(groups', hosts')
  BY <1>6 DEF PutGroup
<1>7. ASSUME NEW i \in HostId, NEW h \in Host, PutHost(i, h) PROVE NoNewJumpLoop(groups', hosts')
  BY <1>7 DEF PutHost
<1>8. ASSUME NEW p \in Imports, PutAll(p) PROVE NoNewJumpLoop(groups', hosts')
  BY <1>8 DEF PutAll
<1>9. ASSUME NEW i \in GroupId, DeleteGroup(i) PROVE NoShortLoop(groups', hosts')
  <2>1. CASE UNCHANGED vars
    BY <1>3, <2>1 DEF vars
  <2>2. CASE NoJumpUncovered
    BY <1>5, <1>9, <2>2
  <2> QED BY <2>1, <2>2
<1> QED BY Steps, <1>1, <1>3, <1>4, <1>5, <1>6, <1>7, <1>8, <1>9
        DEF PutCredential, PutSnippet, PutForward, DeleteForward, DeleteSnippet, RecordSession, vars

\* Whatever is saved, imported and deleted, no jump hosts make a loop that a chain of them is
\* walked far enough to find, while names are unique and no group is deleted that has a jump
\* host of its own and a group above it: what PutHost, PutGroup and PutAll check keeps it so.
THEOREM NoShortLoopIsMade ==
    ASSUME IsFiniteSet(GroupId), IsFiniteSet(HostId), Nil \notin HostNames
    PROVE  Spec /\ []Distinct(hosts) /\ [][NoJumpUncovered]_vars => []NoShortLoop(groups, hosts)
<1>1. Init => NoShortLoop(groups, hosts)
  BY DEF Init, NoShortLoop, JumpLoop, Has
<1>2. /\ TypeOK /\ TypeOK' /\ GroupsFormAForest /\ GroupsFormAForest'
      /\ Distinct(hosts) /\ Distinct(hosts)'
      /\ NoShortLoop(groups, hosts) /\ [Next]_vars /\ [NoJumpUncovered]_vars
      => NoShortLoop(groups, hosts)'
  <2> SUFFICES ASSUME TypeOK, TypeOK', GroupsFormAForest, GroupsFormAForest', Distinct(hosts), Distinct(hosts)',
                      NoShortLoop(groups, hosts), [Next]_vars, [NoJumpUncovered]_vars
               PROVE  NoShortLoop(groups, hosts)'
    OBVIOUS
  <2>1. Distinct(hosts')
    BY DEF Distinct, Has
  <2>2. NoJumpUncovered \/ UNCHANGED vars
    OBVIOUS
  <2>3. NoShortLoop(groups', hosts')
    BY <2>1, <2>2, NoLoopIsMade
  <2> QED BY <2>3
<1> QED BY <1>1, <1>2, TypeCorrect, ForestAlways, PTL DEF Spec

\* No more hosts than a chain of jump hosts is walked.
FewHosts == Cardinality({h \in HostId : Has(hosts, h)}) <= MaxJumpHops

\* So of as many hosts as a chain is walked, eight, none jumps through itself.
THEOREM NoneJumpsThroughItself ==
    ASSUME IsFiniteSet(GroupId), IsFiniteSet(HostId), Nil \notin HostNames
    PROVE  Spec /\ []Distinct(hosts) /\ []FewHosts /\ [][NoJumpUncovered]_vars
             => []NoHostJumpsThroughItself
<1>1. NoShortLoop(groups, hosts) /\ FewHosts => NoHostJumpsThroughItself
  <2> SUFFICES ASSUME NoShortLoop(groups, hosts), FewHosts,
                      NEW S \in SUBSET {h \in HostId : Has(hosts, h)},
                      S # {}, \A h \in S : \E via \in S : hosts[via].name = JumpOf(groups, hosts[h])
               PROVE  FALSE
    BY DEF NoHostJumpsThroughItself
  <2> DEFINE H == {h \in HostId : Has(hosts, h)}
  <2>1. IsFiniteSet(H) /\ Cardinality(H) \in Nat
    BY FS_Subset, FS_CardinalityType
  <2>2. Cardinality(S) <= Cardinality(H) /\ Cardinality(S) \in Nat
    BY <2>1, FS_Subset, FS_CardinalityType
  <2>3. Cardinality(S) <= MaxJumpHops
    BY <2>1, <2>2, StoreAssumption DEF FewHosts
  <2>4. JumpLoop(groups, hosts, S)
    BY DEF JumpLoop
  <2> QED BY <2>3, <2>4 DEF NoShortLoop
<1> QED BY <1>1, NoShortLoopIsMade, PTL

-----------------------------------------------------------------------------
(* Lists moved between machines, of Import: records written over others.   *)

\* Records of which no two have a name or an id in common.
Apart(rs) == \A a, b \in rs : (a.name = b.name \/ a.id = b.id) => a = b
\* Records to be written over rs: each has the id of the one of its name, or one of its own.
Fits(rs, new) == \A x \in new : IF x.name \in NamesIn(rs) THEN x.id = Named(rs, x.name).id ELSE x.id \notin IdsIn(rs)

LEMMA NamedIs ==
    ASSUME NEW rs, NEW name, name \in NamesIn(rs)
    PROVE  Named(rs, name) \in rs /\ Named(rs, name).name = name
<1>1. \E r \in rs : r.name = name
  BY DEF NamesIn
<1> QED BY <1>1 DEF Named

LEMMA NamedOne ==
    ASSUME NEW rs, Apart(rs), NEW r \in rs
    PROVE  r.name \in NamesIn(rs) /\ Named(rs, r.name) = r
<1>1. r.name \in NamesIn(rs)
  BY DEF NamesIn
<1> QED BY <1>1, NamedIs DEF Apart

LEMMA NameOfIs ==
    ASSUME NEW rs, NEW id, id \in IdsIn(rs)
    PROVE  \E r \in rs : r.id = id /\ NameOf(rs, id) = r.name
<1>1. \E r \in rs : r.id = id
  BY DEF IdsIn
<1> QED BY <1>1 DEF NameOf

LEMMA NamedOnly ==
    ASSUME NEW rs, \A a, b \in rs : a.name = b.name => a = b, NEW r \in rs
    PROVE  r.name \in NamesIn(rs) /\ Named(rs, r.name) = r
<1>1. r.name \in NamesIn(rs)
  BY DEF NamesIn
<1> QED BY <1>1, NamedIs

\* What is there once records have been written over others.
LEMMA Overwritten ==
    ASSUME NEW rs, NEW new, Apart(rs), Apart(new), Fits(rs, new)
    PROVE  /\ \A x : x \in Over(rs, new) <=> x \in new \/ (x \in rs /\ x.name \notin NamesIn(new))
           /\ Apart(Over(rs, new))
           /\ IdsIn(Over(rs, new)) = IdsIn(rs) \cup IdsIn(new)
           /\ NamesIn(Over(rs, new)) = NamesIn(rs) \cup NamesIn(new)
<1>1. ASSUME NEW x \in rs, NEW y \in new PROVE x.name = y.name <=> x.id = y.id
  <2>1. CASE y.name \in NamesIn(rs)
    <3>1. y.id = Named(rs, y.name).id /\ Named(rs, y.name) \in rs /\ Named(rs, y.name).name = y.name
      BY <2>1, NamedIs DEF Fits
    <3> QED BY <3>1 DEF Apart
  <2>2. CASE y.name \notin NamesIn(rs)
    <3>1. y.id \notin IdsIn(rs)
      BY <2>2 DEF Fits
    <3> QED BY <3>1, <2>2 DEF IdsIn, NamesIn
  <2> QED BY <2>1, <2>2
<1>2. ASSUME NEW x \in rs PROVE x.name \in NamesIn(new) <=> x.id \in IdsIn(new)
  BY <1>1 DEF NamesIn, IdsIn
<1>3. \A x : x \in Over(rs, new) <=> x \in new \/ (x \in rs /\ x.name \notin NamesIn(new))
  BY <1>2 DEF Over
<1>4. Apart(Over(rs, new))
  <2> SUFFICES ASSUME NEW a \in Over(rs, new), NEW b \in Over(rs, new), a.name = b.name \/ a.id = b.id
      PROVE a = b
    BY DEF Apart
  <2>1. CASE a \in rs /\ b \in rs
    BY <2>1 DEF Apart
  <2>2. CASE a \in new /\ b \in new
    BY <2>2 DEF Apart
  <2>3. ASSUME NEW x \in rs, NEW y \in new, x.name \notin NamesIn(new) PROVE x.name # y.name /\ x.id # y.id
    BY <2>3, <1>1 DEF NamesIn
  <2> QED BY <1>3, <2>1, <2>2, <2>3
<1>5. IdsIn(Over(rs, new)) = IdsIn(rs) \cup IdsIn(new)
  BY <1>2, <1>3 DEF IdsIn
<1>6. NamesIn(Over(rs, new)) = NamesIn(rs) \cup NamesIn(new)
  BY <1>2, <1>3 DEF NamesIn
<1> QED BY <1>3, <1>4, <1>5, <1>6

\* There is an id for each name a document brings.
LEMMA IdsAreNew ==
    ASSUME NEW ns, IsFiniteSet(ns), NEW n \in Nat
    PROVE  /\ Cardinality(ns) \in Nat
           /\ NewIDs(ns, n) \in [ns -> n..(n + Cardinality(ns) - 1)]
           /\ IsInjective(NewIDs(ns, n))
<1> DEFINE k == Cardinality(ns)
<1>1. k \in Nat /\ ExistsBijection(1..k, ns)
  BY FS_CardinalityType
<1>2. PICK b \in [1..k -> ns] : \A x \in ns : \E i \in 1..k : b[i] = x
  BY <1>1 DEF ExistsBijection, Bijection, Surjection, Injection
<1> DEFINE at(x) == CHOOSE i \in 1..k : b[i] = x
           f == [x \in ns |-> n - 1 + at(x)]
<1>3. ASSUME NEW x \in ns PROVE at(x) \in 1..k /\ b[at(x)] = x
  BY <1>2, <1>3
<1>4. f \in [ns -> n..(n + k - 1)]
  <2> SUFFICES ASSUME NEW x \in ns PROVE n - 1 + at(x) \in n..(n + k - 1)
    OBVIOUS
  <2> HIDE DEF at, k
  <2> QED BY <1>1, <1>3 
<1>5. IsInjective(f)
  <2> SUFFICES ASSUME NEW x \in ns, NEW y \in ns, n - 1 + at(x) = n - 1 + at(y) PROVE x = y
    BY DEF IsInjective
  <2>1. at(x) \in 1..k /\ at(y) \in 1..k /\ b[at(x)] = x /\ b[at(y)] = y
    BY <1>3
  <2> HIDE DEF at, k
  <2>2. at(x) = at(y)
    BY <1>1, <2>1
  <2> QED BY <2>1, <2>2
<1>6. \E g \in [ns -> n..(n + k - 1)] : IsInjective(g)
  BY <1>4, <1>5
<1> HIDE DEF f
<1> QED BY <1>1, <1>6 DEF NewIDs

\* A store's records refer to what is there.
Resolved(st) ==
    /\ Apart(st.creds) /\ Apart(st.groups) /\ Apart(st.hosts)
    /\ \A h \in st.hosts : h.group \in IdsIn(st.groups) \cup {None} /\ h.cred \in IdsIn(st.creds) \cup {None}
    /\ \A g \in st.groups : g.parent \in IdsIn(st.groups) \cup {None} /\ g.cred \in IdsIn(st.creds) \cup {None}
    /\ \A r \in st.rules : r.host \in IdsIn(st.hosts)
    /\ Acyclic(st.groups)
Listed(st, n) == n \in Nat \ {0} /\ st \in Stores(n) /\ Resolved(st)

OnePerName(rs) == \A a, b \in rs : a.name = b.name => a = b
Document(d) ==
    /\ d \in Documents
    /\ OnePerName(d.creds) /\ OnePerName(d.groups) /\ OnePerName(d.hosts)

\* Each record of M has the id of the one of its name, or the one that was given to it.
TakesIds(M, rs, ids, kind) ==
    \A x \in M : IF x.name \in NamesIn(rs) THEN x.id = Named(rs, x.name).id
                 ELSE <<kind, x.name>> \in DOMAIN ids /\ x.id = ids[<<kind, x.name>>]
IdsBelow(rs, n) == \A r \in rs : r.id \in Int /\ r.id < n
GivenFrom(ids, n) == IsInjective(ids) /\ \A x \in DOMAIN ids : ids[x] \in Int /\ ids[x] >= n

LEMMA Identified ==
    ASSUME NEW rs, NEW n \in Int, NEW ids, NEW kind, NEW M,
           Apart(rs), IdsBelow(rs, n), GivenFrom(ids, n), OnePerName(M), TakesIds(M, rs, ids, kind)
    PROVE  Apart(M) /\ Fits(rs, M)
<1> USE DEF IdsBelow, GivenFrom, TakesIds
<1>1. ASSUME NEW x \in M, x.name \notin NamesIn(rs) PROVE x.id \notin IdsIn(rs) /\ x.id \in Int /\ x.id >= n
  <2>1. x.id \in Int /\ x.id >= n
    BY <1>1
  <2>2. ASSUME NEW r \in rs PROVE r.id # x.id
    BY <2>1
  <2> QED BY <2>1, <2>2 DEF IdsIn
<1>2. Fits(rs, M)
  BY <1>1 DEF Fits
<1>3. ASSUME NEW x \in M, NEW y \in M, x.id = y.id PROVE x.name = y.name
  <2>1. CASE x.name \in NamesIn(rs) /\ y.name \in NamesIn(rs)
    <3>1. /\ Named(rs, x.name) \in rs /\ Named(rs, x.name).name = x.name
          /\ Named(rs, y.name) \in rs /\ Named(rs, y.name).name = y.name
      BY <2>1, NamedIs
    <3>2. Named(rs, x.name).id = Named(rs, y.name).id
      BY <1>3, <2>1
    <3> QED BY <3>1, <3>2 DEF Apart
  <2>2. CASE x.name \notin NamesIn(rs) /\ y.name \notin NamesIn(rs)
    <3>1. <<kind, x.name>> = <<kind, y.name>>
      BY <1>3, <2>2 DEF IsInjective
    <3> QED BY <3>1
  <2>3. ASSUME NEW a \in M, NEW b \in M, a.name \in NamesIn(rs), b.name \notin NamesIn(rs) PROVE a.id # b.id
    <3>1. a.id \in IdsIn(rs)
      BY <2>3, NamedIs DEF IdsIn
    <3> QED BY <3>1, <2>3, <1>1
  <2> QED BY <1>3, <2>1, <2>2, <2>3
<1>4. Apart(M)
  BY <1>3 DEF Apart, OnePerName
<1> QED BY <1>2, <1>4

LEMMA FewerFit ==
    ASSUME NEW rs, NEW M, Apart(M), Fits(rs, M), NEW N \in SUBSET M
    PROVE  Apart(N) /\ Fits(rs, N)
BY DEF Apart, Fits

\* The ids of what a document brings.
LEMMA BroughtIds ==
    ASSUME ImportAssumption, NEW d, Document(d), NEW st, NEW n, Listed(st, n)
    PROVE  LET ns == Brought(d, st)
               ids == NewIDs(ns, n)
           IN  /\ Cardinality(ns) \in Nat
               /\ ids \in [ns -> n..(n + Cardinality(ns) - 1)]
               /\ IsInjective(ids)
<1> DEFINE all == {"cred", "group", "host"} \X (Creds \cup Groups \cup Hosts)
<1>1. IsFiniteSet({"cred", "group", "host"})
  <2>1. IsFiniteSet({"cred"}) /\ IsFiniteSet({"group"}) /\ IsFiniteSet({"host"})
    BY FS_Singleton
  <2>2. IsFiniteSet({"cred"} \cup {"group"})
    BY <2>1, FS_Union
  <2>3. IsFiniteSet(({"cred"} \cup {"group"}) \cup {"host"})
    BY <2>1, <2>2, FS_Union
  <2>4. ({"cred"} \cup {"group"}) \cup {"host"} = {"cred", "group", "host"}
    OBVIOUS
  <2> QED BY <2>3, <2>4
<1>2. IsFiniteSet(all)
  BY <1>1, FS_Product DEF ImportAssumption
<1>3. NamesIn(d.creds) \subseteq Creds /\ GroupsNamed(d) \subseteq Groups /\ NamesIn(d.hosts) \subseteq Hosts
  BY DEF Document, Documents, CredIn, GroupIn, HostIn, NamesIn, GroupsNamed
<1>4. Brought(d, st) \subseteq all
  BY <1>3 DEF Brought
<1>5. IsFiniteSet(Brought(d, st))
  BY <1>2, <1>4, FS_Subset
<1>6. n \in Nat
  BY DEF Listed
<1> QED BY <1>5, <1>6, IdsAreNew

LEMMA WasIs ==
    ASSUME NEW rs, NEW name, NEW blank
    PROVE  Was(rs, name, blank) = IF name \in NamesIn(rs) THEN Named(rs, name) ELSE blank
BY DEF Was

\* Stores over which others are written, and those written if some of them are there already.
LEMMA WrittenOnlyIfOther ==
    ASSUME NEW rs, NEW M, Apart(rs), Apart(M), Fits(rs, M)
    PROVE  Over(rs, M \ rs) = Over(rs, M) /\ Over(rs, M) = M \cup {r \in rs : r.name \notin NamesIn(M)}
<1>1. Apart(M \ rs) /\ Fits(rs, M \ rs)
  BY FewerFit
<1>2. \A x : x \in Over(rs, M \ rs) <=> x \in M \ rs \/ (x \in rs /\ x.name \notin NamesIn(M \ rs))
  BY <1>1, Overwritten
<1>3. \A x : x \in Over(rs, M) <=> x \in M \/ (x \in rs /\ x.name \notin NamesIn(M))
  BY Overwritten
<1>4. ASSUME NEW x \in rs PROVE x \in M \/ x.name \notin NamesIn(M) <=> x.name \notin NamesIn(M \ rs)
  <2>1. ASSUME NEW y \in M, y.name = x.name, x \in M PROVE y = x
    BY <2>1 DEF Apart
  <2>2. ASSUME NEW y \in M, y \in rs, y.name = x.name PROVE y = x
    BY <2>2 DEF Apart
  <2> QED BY <2>1, <2>2 DEF NamesIn
<1>5. Over(rs, M \ rs) = Over(rs, M)
  BY <1>2, <1>3, <1>4
<1> QED BY <1>3, <1>5

\* The ids a merge gives, the credentials and groups it ends with, and the hosts.
GivenIds(d, st, n) == NewIDs(Brought(d, st), n)
After(d, st, n)    == n + Cardinality(Brought(d, st))
Creds2(d, st, n)   == MergedCreds(d, st, GivenIds(d, st, n))
AllCreds(d, st, n) == Creds2(d, st, n) \cup {c \in st.creds : c.name \notin NamesIn(Creds2(d, st, n))}
Groups2(d, st, n)  == MergedGroups(d, st, GivenIds(d, st, n), AllCreds(d, st, n))
Hosts2(d, st, n)   == MergedHosts(d, st, GivenIds(d, st, n), AllCreds(d, st, n), Groups2(d, st, n))

LEMMA IdsAreGiven ==
    ASSUME NEW d, Document(d), NEW st, NEW n, Listed(st, n)
    PROVE  /\ n \in Nat \ {0} /\ After(d, st, n) \in Nat /\ n <= After(d, st, n)
           /\ IsInjective(GivenIds(d, st, n)) /\ DOMAIN GivenIds(d, st, n) = Brought(d, st)
           /\ \A x \in Brought(d, st) : GivenIds(d, st, n)[x] \in n..(After(d, st, n) - 1)
<1>1. n \in Nat \ {0}
  BY DEF Listed
<1> DEFINE k == Cardinality(Brought(d, st))
<1>2. /\ k \in Nat
      /\ GivenIds(d, st, n) \in [Brought(d, st) -> n..(n + k - 1)]
      /\ IsInjective(GivenIds(d, st, n))
  BY ImportAssumption, BroughtIds DEF GivenIds
<1>3. After(d, st, n) = n + k
  BY DEF After
<1> HIDE DEF k
<1> QED BY <1>1, <1>2, <1>3

LEMMA MoreIds ==
    ASSUME NEW n \in Nat, NEW m \in Nat, n <= m
    PROVE  /\ Upto(n) \subseteq Upto(m) /\ CredRec(n) \subseteq CredRec(m) /\ GroupRec(n) \subseteq GroupRec(m)
           /\ HostRec(n) \subseteq HostRec(m) /\ RuleRec(n) \subseteq RuleRec(m)
<1>1. Upto(n) \subseteq Upto(m)
  BY DEF Upto
<1> QED BY <1>1 DEF CredRec, GroupRec, HostRec, RuleRec

\* What the record of a name holds, nothing where there is none.
Had(rs, name) == IF name \in NamesIn(rs) THEN Named(rs, name) ELSE [user |-> None, group |-> None, parent |-> None, cred |-> None]

\* Each credential of the document, merged: of its name, with the id of the one that is there.
LEMMA CredsMerged ==
    ASSUME NEW d, Document(d), NEW st, NEW n, Listed(st, n)
    PROVE  LET M == Creds2(d, st, n) IN
           /\ M \subseteq CredRec(After(d, st, n)) /\ NamesIn(M) = NamesIn(d.creds)
           /\ Apart(M) /\ Fits(st.creds, M)
           /\ \A x \in M : x.user = Pick(Named(d.creds, x.name).user, Had(st.creds, x.name).user)
<1> DEFINE M == Creds2(d, st, n)
           m == After(d, st, n)
           ids == GivenIds(d, st, n)
           blank(c) == [id |-> ids[<<"cred", c.name>>], name |-> c.name, user |-> None]
           was(c) == Was(st.creds, c.name, blank(c))
           one(c) == [was(c) EXCEPT !.user = Filled(c.user, @)]
<1>1. M = {one(c) : c \in d.creds}
  BY DEF Creds2, MergedCreds
<1>2. /\ n \in Nat \ {0} /\ m \in Nat /\ n <= m
      /\ IsInjective(ids) /\ DOMAIN ids = Brought(d, st) /\ \A x \in Brought(d, st) : ids[x] \in n..(m - 1)
  BY IdsAreGiven
<1>3. st.creds \subseteq CredRec(n) /\ Apart(st.creds) /\ CredRec(n) \subseteq CredRec(m)
  BY <1>2, MoreIds DEF Listed, Stores, Resolved
<1>4. d.creds \subseteq CredIn /\ OnePerName(d.creds)
  BY DEF Document, Documents
<1> HIDE DEF m, ids
<1>5. ASSUME NEW c \in d.creds
      PROVE  /\ was(c) \in CredRec(m) /\ was(c).name = c.name
             /\ IF c.name \in NamesIn(st.creds) THEN was(c) = Named(st.creds, c.name)
                ELSE was(c) = blank(c) /\ <<"cred", c.name>> \in Brought(d, st)
  <2>1. CASE c.name \in NamesIn(st.creds)
    BY <2>1, <1>3, NamedIs DEF Was
  <2>2. CASE c.name \notin NamesIn(st.creds)
    <3>1. <<"cred", c.name>> \in Brought(d, st)
      BY <2>2 DEF Brought, NamesIn
    <3>2. ids[<<"cred", c.name>>] \in Upto(m)
      BY <3>1, <1>2 DEF Upto
    <3>3. blank(c) \in CredRec(m)
      BY <3>2, <1>4 DEF CredRec, CredIn, Field
    <3> QED BY <2>2, <3>1, <3>3 DEF Was
  <2> QED BY <2>1, <2>2
<1>6. ASSUME NEW c \in d.creds
      PROVE  /\ one(c) \in CredRec(m) /\ one(c).name = c.name /\ one(c).id = was(c).id
             /\ one(c).user = Pick(c.user, was(c).user)
  <2> HIDE DEF was
  <2>1. was(c) \in CredRec(m) /\ was(c).name = c.name /\ c.user \in Field
    BY <1>4, <1>5 DEF CredIn
  <2> QED BY <2>1 DEF CredRec, Filled, Pick
<1>7. M \subseteq CredRec(m) /\ NamesIn(M) = NamesIn(d.creds)
  <2> HIDE DEF one, M
  <2>1. M \subseteq CredRec(m)
    BY <1>1, <1>6
  <2>2. NamesIn(M) = {x.name : x \in M} /\ NamesIn(d.creds) = {c.name : c \in d.creds}
    BY DEF NamesIn
  <2>3. ASSUME NEW x \in M PROVE x.name \in {c.name : c \in d.creds}
    BY <1>1, <1>6
  <2>4. ASSUME NEW c \in d.creds PROVE c.name \in {x.name : x \in M}
    BY <1>1, <1>6
  <2> QED BY <2>1, <2>2, <2>3, <2>4
<1>8. OnePerName(M)
  <2> SUFFICES ASSUME NEW a \in M, NEW b \in M, a.name = b.name PROVE a = b
    BY DEF OnePerName
  <2>1. PICK p \in d.creds, q \in d.creds : a = one(p) /\ b = one(q)
    BY <1>1
  <2> HIDE DEF one
  <2>2. p.name = q.name
    BY <2>1, <1>6
  <2> QED BY <2>1, <2>2, <1>4 DEF OnePerName
<1>9. ASSUME NEW x \in M
      PROVE  IF x.name \in NamesIn(st.creds) THEN x.id = Named(st.creds, x.name).id
             ELSE <<"cred", x.name>> \in DOMAIN ids /\ x.id = ids[<<"cred", x.name>>]
  <2>1. PICK c \in d.creds : x = one(c)
    BY <1>1, <1>9
  <2>2. x.name = c.name /\ x.id = was(c).id
    BY <2>1, <1>6
  <2>3. blank(c).id = ids[<<"cred", c.name>>]
    OBVIOUS
  <2> HIDE DEF was, one, M, blank
  <2>4. CASE c.name \in NamesIn(st.creds)
    BY <2>2, <2>4, <1>5
  <2>5. CASE c.name \notin NamesIn(st.creds)
    BY <2>2, <2>3, <2>5, <1>2, <1>5
  <2> QED BY <2>2, <2>4, <2>5
<1>10. TakesIds(M, st.creds, ids, "cred")
  <2> HIDE DEF M
  <2> QED BY <1>9 DEF TakesIds
<1>11. IdsBelow(st.creds, n) /\ GivenFrom(ids, n) /\ n \in Int
  BY <1>2, <1>3 DEF IdsBelow, GivenFrom, CredRec, Upto
<1>12. Apart(M) /\ Fits(st.creds, M)
  <2> HIDE DEF M
  <2> QED BY <1>3, <1>8, <1>10, <1>11, Identified
<1>13. ASSUME NEW x \in M PROVE x.user = Pick(Named(d.creds, x.name).user, Had(st.creds, x.name).user)
  <2>1. PICK c \in d.creds : x = one(c)
    BY <1>1, <1>13
  <2>2. x.name = c.name /\ x.user = Pick(c.user, was(c).user)
    BY <2>1, <1>6
  <2>3. blank(c).user = None
    OBVIOUS
  <2>4. Named(d.creds, c.name) = c
    BY <1>4, NamedOnly DEF OnePerName
  <2> HIDE DEF was, one, M, blank
  <2>5. was(c).user = Had(st.creds, c.name).user
    BY <2>3, <1>5 DEF Had
  <2> QED BY <2>2, <2>4, <2>5
<1> HIDE DEF M
<1> QED BY <1>7, <1>12, <1>13 DEF M, m

LEMMA IdOfIs ==
    ASSUME NEW rs, NEW name, name = None \/ name \in NamesIn(rs)
    PROVE  IdOf(rs, name) \in IdsIn(rs) \cup {None}
<1>1. CASE name = None
  BY <1>1 DEF IdOf
<1>2. CASE name # None
  <2>1. Named(rs, name) \in rs
    BY <1>2, NamedIs
  <2> QED BY <1>2, <2>1 DEF IdOf, IdsIn
<1> QED BY <1>1, <1>2

\* The credentials there are after it.
LEMMA CredsAfter ==
    ASSUME NEW d, Document(d), NEW st, NEW n, Listed(st, n)
    PROVE  LET all == AllCreds(d, st, n) IN
           /\ all = Over(st.creds, Creds2(d, st, n)) /\ all = Over(st.creds, Creds2(d, st, n) \ st.creds)
           /\ all \subseteq CredRec(After(d, st, n)) /\ Apart(all)
           /\ NamesIn(all) = NamesIn(st.creds) \cup NamesIn(d.creds)
           /\ IdsIn(st.creds) \subseteq IdsIn(all) /\ IdsIn(all) \subseteq Upto(After(d, st, n))
<1> DEFINE M == Creds2(d, st, n)
           m == After(d, st, n)
<1>1. M \subseteq CredRec(m) /\ NamesIn(M) = NamesIn(d.creds) /\ Apart(M) /\ Fits(st.creds, M)
  BY CredsMerged
<1>2. st.creds \subseteq CredRec(m) /\ Apart(st.creds)
  BY IdsAreGiven, MoreIds DEF Listed, Stores, Resolved
<1>3. AllCreds(d, st, n) = Over(st.creds, M) /\ Over(st.creds, M) = Over(st.creds, M \ st.creds)
  BY <1>1, <1>2, WrittenOnlyIfOther DEF AllCreds
<1>4. AllCreds(d, st, n) \subseteq CredRec(m)
  BY <1>1, <1>2 DEF AllCreds
<1>5. /\ Apart(Over(st.creds, M)) /\ IdsIn(Over(st.creds, M)) = IdsIn(st.creds) \cup IdsIn(M)
      /\ NamesIn(Over(st.creds, M)) = NamesIn(st.creds) \cup NamesIn(M)
  BY <1>1, <1>2, Overwritten
<1>6. IdsIn(AllCreds(d, st, n)) \subseteq Upto(m)
  BY <1>4 DEF IdsIn, CredRec
<1> HIDE DEF M, m
<1> QED BY <1>1, <1>3, <1>4, <1>5, <1>6 DEF M, m

\* Each group declared or only named, before anything is filled in.
Declared2(d, st, n) == Declared(d, st, GivenIds(d, st, n))

LEMMA GroupsDeclared ==
    ASSUME NEW d, Document(d), NEW st, NEW n, Listed(st, n)
    PROVE  LET D == Declared2(d, st, n) IN
           /\ D \subseteq GroupRec(After(d, st, n)) /\ NamesIn(D) = GroupsNamed(d)
           /\ OnePerName(D) /\ TakesIds(D, st.groups, GivenIds(d, st, n), "group")
           /\ \A x \in D : IF x.name \in NamesIn(st.groups) THEN x = Named(st.groups, x.name)
                           ELSE x.user = None /\ x.parent = None /\ x.cred = None
<1> DEFINE D == Declared2(d, st, n)
           m == After(d, st, n)
           ids == GivenIds(d, st, n)
           blank(g) == [id |-> ids[<<"group", g>>], name |-> g, user |-> None, parent |-> None, cred |-> None]
           was(g) == Was(st.groups, g, blank(g))
<1>1. D = {was(g) : g \in GroupsNamed(d)}
  BY DEF Declared2, Declared
<1>2. /\ n \in Nat \ {0} /\ m \in Nat /\ n <= m
      /\ IsInjective(ids) /\ DOMAIN ids = Brought(d, st) /\ \A x \in Brought(d, st) : ids[x] \in n..(m - 1)
  BY IdsAreGiven
<1>3. st.groups \subseteq GroupRec(n) /\ Apart(st.groups) /\ GroupRec(n) \subseteq GroupRec(m)
  BY <1>2, MoreIds DEF Listed, Stores, Resolved
<1>4. GroupsNamed(d) \subseteq Groups
  BY DEF Document, Documents, GroupIn, HostIn, GroupsNamed, NamesIn
<1> HIDE DEF m, ids
<1>5. ASSUME NEW g \in GroupsNamed(d)
      PROVE  /\ was(g) \in GroupRec(m) /\ was(g).name = g
             /\ IF g \in NamesIn(st.groups) THEN was(g) = Named(st.groups, g)
                ELSE was(g) = blank(g) /\ <<"group", g>> \in Brought(d, st)
  <2>1. CASE g \in NamesIn(st.groups)
    BY <2>1, <1>3, NamedIs DEF Was
  <2>2. CASE g \notin NamesIn(st.groups)
    <3>1. <<"group", g>> \in Brought(d, st)
      BY <2>2 DEF Brought
    <3>2. ids[<<"group", g>>] \in Upto(m)
      BY <3>1, <1>2 DEF Upto
    <3>3. blank(g) \in GroupRec(m)
      BY <3>2, <1>4 DEF GroupRec, Field
    <3> QED BY <2>2, <3>1, <3>3 DEF Was
  <2> QED BY <2>1, <2>2
<1>6. ASSUME NEW g \in GroupsNamed(d)
      PROVE  blank(g).id = ids[<<"group", g>>] /\ blank(g).user = None /\ blank(g).parent = None /\ blank(g).cred = None
  OBVIOUS
<1> HIDE DEF was, blank, D
<1>7. D \subseteq GroupRec(m)
  BY <1>1, <1>5
<1>8. NamesIn(D) = GroupsNamed(d)
  <2>1. ASSUME NEW x \in D PROVE x.name \in GroupsNamed(d)
    BY <1>1, <1>5
  <2>2. ASSUME NEW g \in GroupsNamed(d) PROVE g \in {x.name : x \in D}
    BY <1>1, <1>5
  <2> QED BY <2>1, <2>2 DEF NamesIn
<1>9. OnePerName(D)
  <2> SUFFICES ASSUME NEW a \in D, NEW b \in D, a.name = b.name PROVE a = b
    BY DEF OnePerName
  <2>1. PICK p \in GroupsNamed(d), q \in GroupsNamed(d) : a = was(p) /\ b = was(q)
    BY <1>1
  <2> QED BY <2>1, <1>5
<1>10. ASSUME NEW x \in D
       PROVE  IF x.name \in NamesIn(st.groups) THEN x = Named(st.groups, x.name)
              ELSE /\ x.user = None /\ x.parent = None /\ x.cred = None
                   /\ <<"group", x.name>> \in DOMAIN ids /\ x.id = ids[<<"group", x.name>>]
  <2>1. PICK g \in GroupsNamed(d) : x = was(g)
    BY <1>1, <1>10
  <2> QED BY <2>1, <1>2, <1>5, <1>6
<1>11. TakesIds(D, st.groups, ids, "group")
  BY <1>10 DEF TakesIds
<1> QED BY <1>7, <1>8, <1>9, <1>10, <1>11 DEF D, m, ids

\* The groups a parent may be, and those there are after it.
Known2(d, st, n) == Declared2(d, st, n) \cup st.groups
Tree2(d, st, n) == Groups2(d, st, n) \cup {g \in st.groups : g.name \notin NamesIn(Groups2(d, st, n))}

LEMMA GroupsKnown ==
    ASSUME NEW d, Document(d), NEW st, NEW n, Listed(st, n)
    PROVE  LET D == Declared2(d, st, n)
               all == Known2(d, st, n)
           IN  /\ Apart(D) /\ Fits(st.groups, D) /\ Apart(all)
               /\ NamesIn(all) = NamesIn(st.groups) \cup GroupsNamed(d)
               /\ all \subseteq GroupRec(After(d, st, n))
<1> DEFINE D == Declared2(d, st, n)
           m == After(d, st, n)
<1>1. /\ D \subseteq GroupRec(m) /\ NamesIn(D) = GroupsNamed(d)
      /\ OnePerName(D) /\ TakesIds(D, st.groups, GivenIds(d, st, n), "group")
      /\ \A x \in D : x.name \in NamesIn(st.groups) => x = Named(st.groups, x.name)
  BY GroupsDeclared
<1>2. /\ n \in Int /\ IdsBelow(st.groups, n) /\ GivenFrom(GivenIds(d, st, n), n)
      /\ st.groups \subseteq GroupRec(m) /\ Apart(st.groups)
  <2>1. /\ n \in Nat \ {0} /\ m \in Nat /\ n <= m
        /\ IsInjective(GivenIds(d, st, n)) /\ DOMAIN GivenIds(d, st, n) = Brought(d, st)
        /\ \A x \in Brought(d, st) : GivenIds(d, st, n)[x] \in n..(m - 1)
    BY IdsAreGiven
  <2>2. st.groups \subseteq GroupRec(n) /\ Apart(st.groups) /\ GroupRec(n) \subseteq GroupRec(m)
    BY <2>1, MoreIds DEF Listed, Stores, Resolved
  <2> HIDE DEF m
  <2> QED BY <2>1, <2>2 DEF IdsBelow, GivenFrom, GroupRec, Upto
<1>3. Apart(D) /\ Fits(st.groups, D)
  BY <1>1, <1>2, Identified
<1> HIDE DEF D, m
<1>4. Over(st.groups, D) = D \cup {g \in st.groups : g.name \notin NamesIn(D)}
  BY <1>2, <1>3, WrittenOnlyIfOther
<1>5. ASSUME NEW g \in st.groups, g.name \in NamesIn(D) PROVE g \in D
  <2>1. PICK x \in D : x.name = g.name
    BY <1>5 DEF NamesIn
  <2>2. g.name \in NamesIn(st.groups) /\ Named(st.groups, g.name) = g
    BY <1>2, NamedOne
  <2> QED BY <2>1, <2>2, <1>1
<1>6. Known2(d, st, n) = Over(st.groups, D)
  BY <1>4, <1>5 DEF Known2, D
<1>7. Apart(Over(st.groups, D)) /\ NamesIn(Over(st.groups, D)) = NamesIn(st.groups) \cup NamesIn(D)
  BY <1>2, <1>3, Overwritten
<1>8. Known2(d, st, n) \subseteq GroupRec(m)
  BY <1>1, <1>2 DEF Known2, D
<1> QED BY <1>1, <1>3, <1>6, <1>7, <1>8 DEF D, m

\* What a document that is not refused names is there.
LEMMA NamesKnown ==
    ASSUME NEW d, Document(d), NEW st, NEW n, Listed(st, n), ~ Unknown(d, st)
    PROVE  /\ \A x \in d.groups \cup d.hosts : x.cred = None \/ x.cred \in NamesIn(AllCreds(d, st, n))
           /\ \A g \in d.groups : g.parent = None \/ g.parent \in NamesIn(Known2(d, st, n))
           /\ \A h \in d.hosts : h.group = None \/ h.group \in GroupsNamed(d)
<1>1. NamesIn(AllCreds(d, st, n)) = NamesIn(st.creds) \cup NamesIn(d.creds)
  BY CredsAfter
<1>2. NamesIn(Known2(d, st, n)) = NamesIn(st.groups) \cup GroupsNamed(d)
  BY GroupsKnown
<1>3. NamesIn(d.groups) \subseteq GroupsNamed(d)
  BY DEF GroupsNamed
<1>4. \A h \in d.hosts : h.group = None \/ h.group \in GroupsNamed(d)
  BY DEF GroupsNamed
<1>5. \A x \in d.groups \cup d.hosts : x.cred \in NamesIn(d.creds) \cup NamesIn(st.creds) \cup {None}
  BY DEF Unknown
<1>6. \A g \in d.groups : g.parent \in NamesIn(st.groups) \cup NamesIn(d.groups) \cup {None}
  BY DEF Unknown, ParentsKnown
<1> QED BY <1>1, <1>2, <1>3, <1>4, <1>5, <1>6

LEMMA RefusedIs ==
    ASSUME NEW d, NEW st, NEW n
    PROVE  Refused(d, st, n) <=> Unknown(d, st) \/ ~ Acyclic(Tree2(d, st, n))
<1>1. Merge(d, st, n).tree = Tree2(d, st, n)
  BY DEF Merge, Tree2, Groups2, AllCreds, Creds2, GivenIds
<1> QED BY <1>1 DEF Refused

\* Each group of the document, merged.
LEMMA GroupsMerged ==
    ASSUME NEW d, Document(d), NEW st, NEW n, Listed(st, n), ~ Unknown(d, st)
    PROVE  LET M == Groups2(d, st, n)
               all == Known2(d, st, n)
               cs == AllCreds(d, st, n)
           IN  /\ M \subseteq GroupRec(After(d, st, n)) /\ NamesIn(M) = GroupsNamed(d)
               /\ Apart(M) /\ Fits(st.groups, M) /\ IdsIn(M) = IdsIn(Declared2(d, st, n))
               /\ \A g \in Declared2(d, st, n) : \E x \in M : x.name = g.name /\ x.id = g.id
               /\ \A x \in M :
                     IF x.name \in NamesIn(d.groups)
                     THEN LET in == Named(d.groups, x.name)
                              had == Had(st.groups, x.name)
                          IN  /\ x.user = Pick(in.user, had.user) /\ x.cred = Pick(IdOf(cs, in.cred), had.cred)
                              /\ x.parent = Pick(IdOf(all, in.parent), had.parent)
                     ELSE \A f \in {"user", "cred", "parent"} : x[f] = Had(st.groups, x.name)[f]
<1> DEFINE D == Declared2(d, st, n)
           m == After(d, st, n)
           all == Known2(d, st, n)
           cs == AllCreds(d, st, n)
           M == Groups2(d, st, n)
           Into(g, in) == [g EXCEPT !.user = Filled(in.user, @), !.cred = Pick(IdOf(cs, in.cred), @),
                                    !.parent = Pick(IdOf(all, in.parent), @)]
           one(g) == IF g.name \in NamesIn(d.groups) THEN Into(g, Named(d.groups, g.name)) ELSE g
<1>1. M = {one(g) : g \in D}
  BY DEF Groups2, MergedGroups, Known2, Declared2
<1>2. /\ D \subseteq GroupRec(m) /\ NamesIn(D) = GroupsNamed(d) /\ OnePerName(D)
      /\ \A x \in D : IF x.name \in NamesIn(st.groups) THEN x = Named(st.groups, x.name)
                      ELSE x.user = None /\ x.parent = None /\ x.cred = None
  BY GroupsDeclared
<1>3. Apart(D) /\ Fits(st.groups, D) /\ all \subseteq GroupRec(m)
  BY GroupsKnown
<1>4. /\ \A x \in d.groups : x.cred = None \/ x.cred \in NamesIn(cs)
      /\ \A g \in d.groups : g.parent = None \/ g.parent \in NamesIn(all)
  BY NamesKnown
<1>5. IdsIn(cs) \subseteq Upto(m)
  BY CredsAfter
<1>6. IdsIn(all) \subseteq Upto(m)
  BY <1>3 DEF IdsIn, GroupRec
<1>7. d.groups \subseteq GroupIn
  BY DEF Document, Documents
<1> HIDE DEF D, m, all, cs, M
<1>8. ASSUME NEW g \in D
      PROVE  one(g) \in GroupRec(m) /\ one(g).name = g.name /\ one(g).id = g.id
  <2>1. CASE g.name \in NamesIn(d.groups)
    <3> DEFINE in == Named(d.groups, g.name)
    <3>1. in \in d.groups
      BY <2>1, NamedIs
    <3> HIDE DEF in
    <3>2. IdOf(cs, in.cred) \in Upto(m) \cup {None} /\ IdOf(all, in.parent) \in Upto(m) \cup {None}
      BY <3>1, <1>4, <1>5, <1>6, IdOfIs
    <3>3. g \in GroupRec(m) /\ in.user \in Field
      BY <3>1, <1>2, <1>7 DEF GroupIn
    <3>4. Into(g, in) \in GroupRec(m) /\ Into(g, in).name = g.name /\ Into(g, in).id = g.id
      BY <3>2, <3>3 DEF GroupRec, Filled, Pick
    <3> QED BY <3>4, <2>1 DEF in
  <2>2. CASE g.name \notin NamesIn(d.groups)
    BY <2>2, <1>2
  <2> QED BY <2>1, <2>2
<1>9. ASSUME NEW g \in D
      PROVE  LET had == Had(st.groups, g.name) IN g.user = had.user /\ g.cred = had.cred /\ g.parent = had.parent
  BY <1>2 DEF Had
<1>10. ASSUME NEW g \in D
       PROVE  IF g.name \in NamesIn(d.groups)
              THEN LET in == Named(d.groups, g.name)
                   IN  /\ one(g).user = Pick(in.user, g.user) /\ one(g).cred = Pick(IdOf(cs, in.cred), g.cred)
                       /\ one(g).parent = Pick(IdOf(all, in.parent), g.parent)
              ELSE one(g) = g
  <2>1. g \in GroupRec(m)
    BY <1>2
  <2>2. ASSUME NEW in
        PROVE  /\ Into(g, in).user = Pick(in.user, g.user) /\ Into(g, in).cred = Pick(IdOf(cs, in.cred), g.cred)
               /\ Into(g, in).parent = Pick(IdOf(all, in.parent), g.parent)
    BY <2>1 DEF GroupRec, Filled
  <2> HIDE DEF Into
  <2> QED BY <2>2
<1> HIDE DEF one
<1>11. M \subseteq GroupRec(m)
  BY <1>1, <1>8
<1>12. NamesIn(M) = NamesIn(D) /\ IdsIn(M) = IdsIn(D)
  <2>1. ASSUME NEW x \in M PROVE \E g \in D : x.name = g.name /\ x.id = g.id
    BY <1>1, <1>8
  <2>2. ASSUME NEW g \in D PROVE \E x \in M : x.name = g.name /\ x.id = g.id
    BY <1>1, <1>8
  <2> QED BY <2>1, <2>2 DEF NamesIn, IdsIn
<1>13. Apart(M)
  <2> SUFFICES ASSUME NEW a \in M, NEW b \in M, a.name = b.name \/ a.id = b.id PROVE a = b
    BY DEF Apart
  <2>1. PICK p \in D, q \in D : a = one(p) /\ b = one(q)
    BY <1>1
  <2>2. p.name = q.name \/ p.id = q.id
    BY <2>1, <1>8
  <2> QED BY <2>1, <2>2, <1>3 DEF Apart
<1>14. Fits(st.groups, M)
  <2>1. ASSUME NEW x \in M PROVE \E g \in D : x.name = g.name /\ x.id = g.id
    BY <1>1, <1>8
  <2> QED BY <2>1, <1>3 DEF Fits
<1>15. ASSUME NEW x \in M
       PROVE  IF x.name \in NamesIn(d.groups)
              THEN LET in == Named(d.groups, x.name)
                       had == Had(st.groups, x.name)
                   IN  /\ x.user = Pick(in.user, had.user) /\ x.cred = Pick(IdOf(cs, in.cred), had.cred)
                       /\ x.parent = Pick(IdOf(all, in.parent), had.parent)
              ELSE \A f \in {"user", "cred", "parent"} : x[f] = Had(st.groups, x.name)[f]
  <2>1. PICK g \in D : x = one(g)
    BY <1>1, <1>15
  <2>2. x.name = g.name
    BY <2>1, <1>8
  <2> QED BY <2>1, <2>2, <1>9, <1>10
<1>16. \A g \in D : \E x \in M : x.name = g.name /\ x.id = g.id
  BY <1>1, <1>8
<1> QED BY <1>2, <1>16, <1>11, <1>12, <1>13, <1>14, <1>15 DEF D, m, all, cs, M

\* The groups there are after it, and what they refer to.
LEMMA GroupsAfter ==
    ASSUME NEW d, Document(d), NEW st, NEW n, Listed(st, n), ~ Refused(d, st, n)
    PROVE  LET T == Tree2(d, st, n)
               M == Groups2(d, st, n)
           IN  /\ T = Over(st.groups, M) /\ T = Over(st.groups, M \ st.groups)
               /\ T \subseteq GroupRec(After(d, st, n)) /\ Apart(T) /\ Acyclic(T)
               /\ NamesIn(T) = NamesIn(st.groups) \cup GroupsNamed(d)
               /\ IdsIn(M) \subseteq IdsIn(T) /\ IdsIn(st.groups) \subseteq IdsIn(T)
               /\ IdsIn(Known2(d, st, n)) = IdsIn(T) /\ IdsIn(T) \subseteq Upto(After(d, st, n))
               /\ \A g \in T : g.parent \in IdsIn(T) \cup {None} /\ g.cred \in IdsIn(AllCreds(d, st, n)) \cup {None}
<1> DEFINE T == Tree2(d, st, n)
           M == Groups2(d, st, n)
           D == Declared2(d, st, n)
           m == After(d, st, n)
           all == Known2(d, st, n)
           cs == AllCreds(d, st, n)
<1>1. /\ M \subseteq GroupRec(m) /\ NamesIn(M) = GroupsNamed(d)
      /\ Apart(M) /\ Fits(st.groups, M) /\ IdsIn(M) = IdsIn(D)
  BY GroupsMerged, RefusedIs
<1>2. \A x \in M : IF x.name \in NamesIn(d.groups)
                   THEN LET in == Named(d.groups, x.name)
                            had == Had(st.groups, x.name)
                        IN  /\ x.cred = Pick(IdOf(cs, in.cred), had.cred)
                            /\ x.parent = Pick(IdOf(all, in.parent), had.parent)
                   ELSE x.cred = Had(st.groups, x.name).cred /\ x.parent = Had(st.groups, x.name).parent
  BY GroupsMerged, RefusedIs
<1>3. st.groups \subseteq GroupRec(m) /\ Apart(st.groups)
  BY IdsAreGiven, MoreIds DEF Listed, Stores, Resolved
<1>4. IdsIn(st.creds) \subseteq IdsIn(cs)
  BY CredsAfter
<1>5. Acyclic(T)
  BY RefusedIs
<1>6. /\ \A x \in d.groups : x.cred = None \/ x.cred \in NamesIn(cs)
      /\ \A x \in d.groups : x.parent = None \/ x.parent \in NamesIn(all)
  BY NamesKnown, RefusedIs
<1>7. \A g \in st.groups : g.parent \in IdsIn(st.groups) \cup {None} /\ g.cred \in IdsIn(st.creds) \cup {None}
  BY DEF Listed, Resolved
<1>8. T = M \cup {g \in st.groups : g.name \notin NamesIn(M)} /\ all = D \cup st.groups
  BY DEF Tree2, Known2
<1> HIDE DEF T, M, D, m, all, cs
<1>9. T = Over(st.groups, M) /\ T = Over(st.groups, M \ st.groups)
  BY <1>1, <1>3, <1>8, WrittenOnlyIfOther
<1>10. /\ Apart(T) /\ IdsIn(T) = IdsIn(st.groups) \cup IdsIn(M)
       /\ NamesIn(T) = NamesIn(st.groups) \cup NamesIn(M)
  <2>1. LET O == Over(st.groups, M) IN
        Apart(O) /\ IdsIn(O) = IdsIn(st.groups) \cup IdsIn(M) /\ NamesIn(O) = NamesIn(st.groups) \cup NamesIn(M)
    BY <1>1, <1>3, Overwritten
  <2> QED BY <2>1, <1>9
<1>11. ASSUME NEW g \in T PROVE g \in GroupRec(m)
  BY <1>1, <1>3, <1>8
<1>12. IdsIn(T) \subseteq Upto(m)
  BY <1>11 DEF IdsIn, GroupRec
<1>13. IdsIn(all) = IdsIn(T)
  BY <1>1, <1>8, <1>10 DEF IdsIn
<1>14. ASSUME NEW g \in M
       PROVE  g.parent \in IdsIn(T) \cup {None} /\ g.cred \in IdsIn(cs) \cup {None}
  <2> DEFINE had == Had(st.groups, g.name)
             in == Named(d.groups, g.name)
  <2>1. had.parent \in IdsIn(st.groups) \cup {None} /\ had.cred \in IdsIn(st.creds) \cup {None}
    BY <1>7, NamedIs DEF Had
  <2>2. CASE g.name \in NamesIn(d.groups)
    <3>1. in \in d.groups
      BY <2>2, NamedIs
    <3> HIDE DEF in, had
    <3>2. IdOf(cs, in.cred) \in IdsIn(cs) \cup {None} /\ IdOf(all, in.parent) \in IdsIn(all) \cup {None}
      BY <3>1, <1>6, IdOfIs
    <3>3. g.cred = Pick(IdOf(cs, in.cred), had.cred) /\ g.parent = Pick(IdOf(all, in.parent), had.parent)
      BY <2>2, <1>2 DEF in, had
    <3> QED BY <2>1, <3>2, <3>3, <1>4, <1>10, <1>13 DEF Pick
  <2>3. CASE g.name \notin NamesIn(d.groups)
    <3>1. g.cred = had.cred /\ g.parent = had.parent
      BY <2>3, <1>2
    <3> QED BY <3>1, <2>1, <1>4, <1>10
  <2> QED BY <2>2, <2>3
<1>15. \A g \in T : g.parent \in IdsIn(T) \cup {None} /\ g.cred \in IdsIn(cs) \cup {None}
  BY <1>4, <1>7, <1>8, <1>10, <1>14
<1> QED BY <1>1, <1>5, <1>9, <1>10, <1>11, <1>12, <1>13, <1>15 DEF T, M, D, m, all, cs

\* Each host of the document, merged.
LEMMA HostsMerged ==
    ASSUME NEW d, Document(d), NEW st, NEW n, Listed(st, n), ~ Refused(d, st, n)
    PROVE  LET M == Hosts2(d, st, n)
               gs == Groups2(d, st, n)
               cs == AllCreds(d, st, n)
           IN  /\ M \subseteq HostRec(After(d, st, n)) /\ NamesIn(M) = NamesIn(d.hosts)
               /\ Apart(M) /\ Fits(st.hosts, M)
               /\ \A x \in M : LET in == Named(d.hosts, x.name)
                                   had == Had(st.hosts, x.name)
                               IN  /\ x.user = Pick(in.user, had.user)
                                   /\ x.group = Pick(IdOf(gs, in.group), had.group)
                                   /\ x.cred = Pick(IdOf(cs, in.cred), had.cred)
<1> DEFINE M == Hosts2(d, st, n)
           m == After(d, st, n)
           ids == GivenIds(d, st, n)
           gs == Groups2(d, st, n)
           cs == AllCreds(d, st, n)
           blank(h) == [id |-> ids[<<"host", h.name>>], name |-> h.name, user |-> None, group |-> None, cred |-> None]
           was(h) == Was(st.hosts, h.name, blank(h))
           one(h) == [was(h) EXCEPT !.user = Filled(h.user, @), !.group = Pick(IdOf(gs, h.group), @),
                                    !.cred = Pick(IdOf(cs, h.cred), @)]
<1>1. M = {one(h) : h \in d.hosts}
  BY DEF Hosts2, MergedHosts
<1>2. /\ n \in Nat \ {0} /\ m \in Nat /\ n <= m
      /\ IsInjective(ids) /\ DOMAIN ids = Brought(d, st) /\ \A x \in Brought(d, st) : ids[x] \in n..(m - 1)
  BY IdsAreGiven
<1>3. st.hosts \subseteq HostRec(n) /\ Apart(st.hosts) /\ HostRec(n) \subseteq HostRec(m)
  BY <1>2, MoreIds DEF Listed, Stores, Resolved
<1>4. d.hosts \subseteq HostIn /\ OnePerName(d.hosts)
  BY DEF Document, Documents
<1>5. \A h \in d.hosts : (h.cred = None \/ h.cred \in NamesIn(cs)) /\ (h.group = None \/ h.group \in NamesIn(gs))
  BY NamesKnown, GroupsMerged, RefusedIs
<1>6. IdsIn(cs) \subseteq Upto(m) /\ IdsIn(gs) \subseteq Upto(m)
  BY CredsAfter, GroupsAfter
<1> HIDE DEF m, ids, gs, cs, M
<1>7. ASSUME NEW h \in d.hosts
      PROVE  /\ was(h) \in HostRec(m) /\ was(h).name = h.name
             /\ IF h.name \in NamesIn(st.hosts) THEN was(h) = Named(st.hosts, h.name)
                ELSE was(h) = blank(h) /\ <<"host", h.name>> \in Brought(d, st)
  <2>1. CASE h.name \in NamesIn(st.hosts)
    BY <2>1, <1>3, NamedIs DEF Was
  <2>2. CASE h.name \notin NamesIn(st.hosts)
    <3>1. <<"host", h.name>> \in Brought(d, st)
      BY <2>2 DEF Brought, NamesIn
    <3>2. ids[<<"host", h.name>>] \in Upto(m)
      BY <3>1, <1>2 DEF Upto
    <3>3. blank(h) \in HostRec(m)
      BY <3>2, <1>4 DEF HostRec, HostIn, Field
    <3> QED BY <2>2, <3>1, <3>3 DEF Was
  <2> QED BY <2>1, <2>2
<1>8. ASSUME NEW h \in d.hosts
      PROVE  /\ blank(h).id = ids[<<"host", h.name>>] /\ blank(h).user = None
             /\ blank(h).group = None /\ blank(h).cred = None
  OBVIOUS
<1> HIDE DEF was, blank
<1>9. ASSUME NEW h \in d.hosts
      PROVE  /\ one(h) \in HostRec(m) /\ one(h).name = h.name /\ one(h).id = was(h).id
             /\ one(h).user = Pick(h.user, was(h).user)
             /\ one(h).group = Pick(IdOf(gs, h.group), was(h).group)
             /\ one(h).cred = Pick(IdOf(cs, h.cred), was(h).cred)
  <2>1. was(h) \in HostRec(m) /\ was(h).name = h.name /\ h.user \in Field
    BY <1>4, <1>7 DEF HostIn
  <2>2. IdOf(cs, h.cred) \in Upto(m) \cup {None} /\ IdOf(gs, h.group) \in Upto(m) \cup {None}
    BY <1>5, <1>6, IdOfIs
  <2> QED BY <2>1, <2>2 DEF HostRec, Filled, Pick
<1> HIDE DEF one
<1>10. M \subseteq HostRec(m) 
  BY <1>1, <1>9
<1>11. NamesIn(M) = NamesIn(d.hosts)
  <2>1. ASSUME NEW x \in M PROVE \E h \in d.hosts : h.name = x.name
    BY <1>1, <1>9
  <2>2. ASSUME NEW h \in d.hosts PROVE \E x \in M : h.name = x.name
    BY <1>1, <1>9
  <2> QED BY <2>1, <2>2 DEF NamesIn
<1>12. OnePerName(M)
  <2> SUFFICES ASSUME NEW a \in M, NEW b \in M, a.name = b.name PROVE a = b
    BY DEF OnePerName
  <2>1. PICK p \in d.hosts, q \in d.hosts : a = one(p) /\ b = one(q)
    BY <1>1
  <2>2. p.name = q.name
    BY <2>1, <1>9
  <2> QED BY <2>1, <2>2, <1>4 DEF OnePerName
<1>13. ASSUME NEW x \in M
       PROVE  IF x.name \in NamesIn(st.hosts) THEN x.id = Named(st.hosts, x.name).id
              ELSE <<"host", x.name>> \in DOMAIN ids /\ x.id = ids[<<"host", x.name>>]
  <2>1. PICK h \in d.hosts : x = one(h)
    BY <1>1, <1>13
  <2>2. x.name = h.name /\ x.id = was(h).id
    BY <2>1, <1>9
  <2> QED BY <2>2, <1>2, <1>7, <1>8
<1>14. TakesIds(M, st.hosts, ids, "host")
  BY <1>13 DEF TakesIds
<1>15. IdsBelow(st.hosts, n) /\ GivenFrom(ids, n) /\ n \in Int
  BY <1>2, <1>3 DEF IdsBelow, GivenFrom, HostRec, Upto
<1>16. Apart(M) /\ Fits(st.hosts, M)
  BY <1>3, <1>12, <1>14, <1>15, Identified
<1>17. ASSUME NEW x \in M
       PROVE  LET in == Named(d.hosts, x.name)
                  had == Had(st.hosts, x.name)
              IN  /\ x.user = Pick(in.user, had.user)
                  /\ x.group = Pick(IdOf(gs, in.group), had.group)
                  /\ x.cred = Pick(IdOf(cs, in.cred), had.cred)
  <2>1. PICK h \in d.hosts : x = one(h)
    BY <1>1, <1>17
  <2>2. /\ x.name = h.name /\ x.user = Pick(h.user, was(h).user)
        /\ x.group = Pick(IdOf(gs, h.group), was(h).group) /\ x.cred = Pick(IdOf(cs, h.cred), was(h).cred)
    BY <2>1, <1>9
  <2>3. Named(d.hosts, h.name) = h
    BY <1>4, NamedOnly DEF OnePerName
  <2>4. /\ was(h).user = Had(st.hosts, h.name).user /\ was(h).group = Had(st.hosts, h.name).group
        /\ was(h).cred = Had(st.hosts, h.name).cred
    BY <1>7, <1>8 DEF Had
  <2> QED BY <2>2, <2>3, <2>4
<1> QED BY <1>10, <1>11, <1>16, <1>17 DEF M, m, gs, cs

\* The hosts that a plan writes, and the rules.
Hosts3(d, st, n) ==
    {h \in Hosts2(d, st, n) : h.name \notin NamesIn(st.hosts) \/ ~ SameHost(h, Named(st.hosts, h.name))}
After2(d, st, n) ==
    [creds |-> AllCreds(d, st, n), groups |-> Tree2(d, st, n), hosts |-> Over(st.hosts, Hosts3(d, st, n)),
     rules |-> st.rules \cup RulesOf(d, Hosts2(d, st, n))]

\* What a plan makes of a list.
LEMMA PlanApplied ==
    ASSUME NEW d, Document(d), NEW st, NEW n, Listed(st, n), ~ Refused(d, st, n)
    PROVE  Apply(st, Merge(d, st, n)) = After2(d, st, n) /\ n + Merge(d, st, n).used = After(d, st, n)
<1> DEFINE p == Merge(d, st, n)
<1>1. /\ p.creds = Creds2(d, st, n) \ st.creds /\ p.groups = Groups2(d, st, n) \ st.groups
      /\ p.hosts = Hosts3(d, st, n) /\ p.used = Cardinality(Brought(d, st))
      /\ p.rules = {r \in RulesOf(d, Hosts2(d, st, n)) : r \notin st.rules}
  BY DEF Merge, Queued, IsHere, Hosts3, Hosts2, Groups2, AllCreds, Creds2, GivenIds
<1> HIDE DEF p
<1>2. Over(st.creds, p.creds) = AllCreds(d, st, n)
  BY <1>1, CredsAfter
<1>3. Over(st.groups, p.groups) = Tree2(d, st, n)
  BY <1>1, GroupsAfter
<1>4. st.rules \cup p.rules = st.rules \cup RulesOf(d, Hosts2(d, st, n))
  BY <1>1
<1>5. Apply(st, p) = After2(d, st, n)
  BY <1>1, <1>2, <1>3, <1>4 DEF Apply, After2
<1> QED BY <1>1, <1>5 DEF p, After

\* The hosts there are after it, and what they refer to.
LEMMA HostsAfter ==
    ASSUME NEW d, Document(d), NEW st, NEW n, Listed(st, n), ~ Refused(d, st, n)
    PROVE  LET H == Over(st.hosts, Hosts3(d, st, n))
               M == Hosts2(d, st, n)
           IN  /\ H \subseteq HostRec(After(d, st, n)) /\ Apart(H)
               /\ NamesIn(H) = NamesIn(st.hosts) \cup NamesIn(d.hosts)
               /\ IdsIn(st.hosts) \subseteq IdsIn(H) /\ IdsIn(M) \subseteq IdsIn(H)
               /\ \A x : x \in H <=> x \in Hosts3(d, st, n) \/ (x \in st.hosts /\ x.name \notin NamesIn(Hosts3(d, st, n)))
               /\ \A h \in H : /\ h.group \in IdsIn(Tree2(d, st, n)) \cup {None}
                               /\ h.cred \in IdsIn(AllCreds(d, st, n)) \cup {None}
<1> DEFINE M == Hosts2(d, st, n)
           N == Hosts3(d, st, n)
           H == Over(st.hosts, N)
           m == After(d, st, n)
           T == Tree2(d, st, n)
           gs == Groups2(d, st, n)
           cs == AllCreds(d, st, n)
<1>1. M \subseteq HostRec(m) /\ NamesIn(M) = NamesIn(d.hosts) /\ Apart(M) /\ Fits(st.hosts, M)
  BY HostsMerged
<1>2. \A x \in M : LET in == Named(d.hosts, x.name)
                       had == Had(st.hosts, x.name)
                   IN  /\ x.group = Pick(IdOf(gs, in.group), had.group)
                       /\ x.cred = Pick(IdOf(cs, in.cred), had.cred)
  BY HostsMerged
<1>3. st.hosts \subseteq HostRec(m) /\ Apart(st.hosts)
  BY IdsAreGiven, MoreIds DEF Listed, Stores, Resolved
<1>4. IdsIn(st.creds) \subseteq IdsIn(cs) /\ IdsIn(st.groups) \subseteq IdsIn(T) /\ IdsIn(gs) \subseteq IdsIn(T)
  BY CredsAfter, GroupsAfter
<1>5. \A h \in d.hosts : (h.cred = None \/ h.cred \in NamesIn(cs)) /\ (h.group = None \/ h.group \in NamesIn(gs))
  BY NamesKnown, GroupsMerged, RefusedIs
<1>6. \A h \in st.hosts : h.group \in IdsIn(st.groups) \cup {None} /\ h.cred \in IdsIn(st.creds) \cup {None}
  BY DEF Listed, Resolved
<1>7. /\ N \subseteq M
      /\ \A x \in M : x.name \notin NamesIn(st.hosts) => x \in N
  BY DEF Hosts3
<1> HIDE DEF M, N, m, T, gs, cs
<1>8. Apart(N) /\ Fits(st.hosts, N)
  BY <1>1, <1>7, FewerFit
<1>9. /\ \A x : x \in H <=> x \in N \/ (x \in st.hosts /\ x.name \notin NamesIn(N))
      /\ Apart(H) /\ IdsIn(H) = IdsIn(st.hosts) \cup IdsIn(N) /\ NamesIn(H) = NamesIn(st.hosts) \cup NamesIn(N)
  BY <1>3, <1>8, Overwritten
<1> HIDE DEF H
<1>10. H \subseteq HostRec(m)
  BY <1>1, <1>3, <1>7, <1>9
<1>11. NamesIn(H) = NamesIn(st.hosts) \cup NamesIn(d.hosts)
  BY <1>1, <1>7, <1>9 DEF NamesIn
<1>12. IdsIn(M) \subseteq IdsIn(H)
  <2>1. ASSUME NEW x \in M PROVE x.id \in IdsIn(H)
    <3>1. CASE x.name \in NamesIn(st.hosts)
      <4>1. x.id = Named(st.hosts, x.name).id /\ Named(st.hosts, x.name) \in st.hosts
        BY <3>1, <1>1, NamedIs DEF Fits
      <4> QED BY <4>1, <1>9 DEF IdsIn
    <3>2. CASE x.name \notin NamesIn(st.hosts)
      BY <3>2, <1>7, <1>9 DEF IdsIn
    <3> QED BY <3>1, <3>2
  <2> QED BY <2>1 DEF IdsIn
<1>13. ASSUME NEW h \in M
       PROVE  h.group \in IdsIn(T) \cup {None} /\ h.cred \in IdsIn(cs) \cup {None}
  <2> DEFINE had == Had(st.hosts, h.name)
             in == Named(d.hosts, h.name)
  <2>1. had.group \in IdsIn(st.groups) \cup {None} /\ had.cred \in IdsIn(st.creds) \cup {None}
    BY <1>6, NamedIs DEF Had
  <2>2. in \in d.hosts
    BY <1>1, NamedIs DEF NamesIn
  <2>3. h.group = Pick(IdOf(gs, in.group), had.group) /\ h.cred = Pick(IdOf(cs, in.cred), had.cred)
    BY <1>2
  <2> HIDE DEF had, in
  <2>4. IdOf(cs, in.cred) \in IdsIn(cs) \cup {None} /\ IdOf(gs, in.group) \in IdsIn(gs) \cup {None}
    BY <2>2, <1>5, IdOfIs
  <2> QED BY <2>1, <2>3, <2>4, <1>4 DEF Pick
<1>14. \A h \in H : h.group \in IdsIn(T) \cup {None} /\ h.cred \in IdsIn(cs) \cup {None}
  BY <1>4, <1>6, <1>7, <1>9, <1>13
<1> QED BY <1>9, <1>10, <1>11, <1>12, <1>14 DEF M, N, H, m, T, gs, cs

\* What is imported is a list again.
LEMMA ListedAfter ==
    ASSUME NEW d, Document(d), NEW st, NEW n, Listed(st, n), ~ Refused(d, st, n)
    PROVE  Listed(After2(d, st, n), After(d, st, n))
<1> DEFINE H == Over(st.hosts, Hosts3(d, st, n))
           M == Hosts2(d, st, n)
           T == Tree2(d, st, n)
           m == After(d, st, n)
           C == AllCreds(d, st, n)
           R == st.rules \cup RulesOf(d, M)
           s == After2(d, st, n)
<1>1. m \in Nat \ {0} /\ n \in Nat /\ n <= m
  <2>1. n \in Nat \ {0} /\ m \in Nat /\ n <= m
    BY IdsAreGiven
  <2> HIDE DEF m
  <2> QED BY <2>1
<1>2. C \subseteq CredRec(m) /\ Apart(C)
  BY CredsAfter
<1>3. /\ T \subseteq GroupRec(m) /\ Apart(T) /\ Acyclic(T)
      /\ \A g \in T : g.parent \in IdsIn(T) \cup {None} /\ g.cred \in IdsIn(C) \cup {None}
  BY GroupsAfter
<1>4. /\ H \subseteq HostRec(m) /\ Apart(H) /\ IdsIn(st.hosts) \subseteq IdsIn(H) /\ IdsIn(M) \subseteq IdsIn(H)
      /\ \A h \in H : h.group \in IdsIn(T) \cup {None} /\ h.cred \in IdsIn(C) \cup {None}
  BY HostsAfter
<1>5. NamesIn(M) = NamesIn(d.hosts) /\ M \subseteq HostRec(m)
  BY HostsMerged
<1>6. /\ s = [creds |-> C, groups |-> T, hosts |-> H, rules |-> R]
  BY DEF After2
<1>7. st.rules \subseteq RuleRec(m) /\ \A r \in st.rules : r.host \in IdsIn(st.hosts)
  BY <1>1, MoreIds DEF Listed, Stores, Resolved
<1>8. d.hosts \subseteq HostIn
  BY DEF Document, Documents
<1> HIDE DEF H, M, T, m, C, s
<1>9. ASSUME NEW r \in R PROVE r \in RuleRec(m) /\ r.host \in IdsIn(H)
  <2>1. CASE r \in st.rules
    BY <2>1, <1>4, <1>7
  <2>2. CASE r \in RulesOf(d, M)
    <3>1. PICK h \in d.hosts : \E x \in h.rules : r = [host |-> Named(M, h.name).id, rule |-> x]
      BY <2>2 DEF RulesOf
    <3>2. Named(M, h.name) \in M
      BY <1>5, NamedIs DEF NamesIn
    <3>3. Named(M, h.name).id \in IdsIn(M) /\ Named(M, h.name).id \in Upto(m)
      BY <3>2, <1>5 DEF IdsIn, HostRec
    <3>4. h.rules \subseteq Rules
      BY <1>8 DEF HostIn
    <3> QED BY <3>1, <3>3, <3>4, <1>4 DEF RuleRec
  <2> QED BY <1>9, <2>1, <2>2
<1> HIDE DEF R
<1>10. s \in Stores(m)
  BY <1>2, <1>3, <1>4, <1>6, <1>9 DEF Stores
<1>11. Resolved(s)
  BY <1>2, <1>3, <1>4, <1>6, <1>9 DEF Resolved
<1> QED BY <1>1, <1>10, <1>11 DEF Listed, s, m

\* What a machine exports is a document, of a record for each that it holds.
LEMMA Exported ==
    ASSUME NEW st, NEW n, Listed(st, n)
    PROVE  Document(Export(st))
<1> DEFINE d == Export(st)
           C(c) == [name |-> c.name, user |-> c.user]
           G(g) == [name |-> g.name, user |-> g.user, parent |-> ByName(st.groups, g.parent),
                    cred |-> ByName(st.creds, g.cred)]
           H(h) == [name |-> h.name, user |-> h.user, group |-> ByName(st.groups, h.group),
                    cred |-> ByName(st.creds, h.cred),
                    rules |-> {r.rule : r \in {x \in st.rules : x.host = h.id}}]
<1>1. /\ st.creds \subseteq CredRec(n) /\ st.groups \subseteq GroupRec(n)
      /\ st.hosts \subseteq HostRec(n) /\ st.rules \subseteq RuleRec(n)
      /\ Apart(st.creds) /\ Apart(st.groups) /\ Apart(st.hosts)
  BY DEF Listed, Stores, Resolved
<1>2. ASSUME NEW id PROVE ByName(st.groups, id) \in Groups \cup {None}
  <2>1. CASE id \in IdsIn(st.groups)
    BY <2>1, <1>1, NameOfIs DEF ByName, GroupRec
  <2>2. CASE id \notin IdsIn(st.groups)
    BY <2>2 DEF ByName, NameOf
  <2> QED BY <2>1, <2>2
<1>3. ASSUME NEW id PROVE ByName(st.creds, id) \in Creds \cup {None}
  <2>1. CASE id \in IdsIn(st.creds)
    BY <2>1, <1>1, NameOfIs DEF ByName, CredRec
  <2>2. CASE id \notin IdsIn(st.creds)
    BY <2>2 DEF ByName, NameOf
  <2> QED BY <2>1, <2>2
<1>4. d = [creds |-> {C(c) : c \in st.creds}, groups |-> {G(g) : g \in st.groups}, hosts |-> {H(h) : h \in st.hosts}]
  BY DEF Export
<1>5. \A c \in st.creds : C(c) \in CredIn
  BY <1>1 DEF CredRec, CredIn
<1>6. \A g \in st.groups : G(g) \in GroupIn
  BY <1>1, <1>2, <1>3 DEF GroupRec, GroupIn
<1>7. \A h \in st.hosts : H(h) \in HostIn
  <2>1. \A h \in st.hosts : {r.rule : r \in {x \in st.rules : x.host = h.id}} \in SUBSET Rules
    BY <1>1 DEF RuleRec
  <2> QED BY <2>1, <1>1, <1>2, <1>3 DEF HostRec, HostIn
<1>8. /\ \A c \in st.creds : C(c).name = c.name
      /\ \A g \in st.groups : G(g).name = g.name
      /\ \A h \in st.hosts : H(h).name = h.name
  OBVIOUS
<1> HIDE DEF d, C, G, H
<1>9. OnePerName(d.creds) /\ OnePerName(d.groups) /\ OnePerName(d.hosts)
  BY <1>1, <1>4, <1>8 DEF OnePerName, Apart
<1>10. d \in Documents
  BY <1>4, <1>5, <1>6, <1>7 DEF Documents
<1> QED BY <1>9, <1>10 DEF Document, Documents, d

\* Somebody's pen keeps it one.
LEMMA Struck ==
    ASSUME Document(doc), Strike
    PROVE  Document(doc')
<1> PICK kind \in {"creds", "groups", "hosts"} : \E r \in doc[kind] :
          \/ doc' = [doc EXCEPT ![kind] = @ \ {r}]
          \/ r.user # None /\ doc' = [doc EXCEPT ![kind] = (@ \ {r}) \cup {[r EXCEPT !.user = None]}]
  BY DEF Strike
<1> PICK r \in doc[kind] :
          \/ doc' = [doc EXCEPT ![kind] = @ \ {r}]
          \/ doc' = [doc EXCEPT ![kind] = (@ \ {r}) \cup {[r EXCEPT !.user = None]}]
  OBVIOUS
<1> DEFINE emptied == [r EXCEPT !.user = None]
<1>1. doc \in Documents
  BY DEF Document, Documents
<1>2. OnePerName(doc[kind])
  BY DEF Document, Documents
<1>3. /\ kind = "creds" => emptied \in CredIn
      /\ kind = "groups" => emptied \in GroupIn
      /\ kind = "hosts" => emptied \in HostIn
      /\ emptied.name = r.name
  BY <1>1 DEF Documents, CredIn, GroupIn, HostIn, Field
<1> HIDE DEF emptied
<1>4. PICK new : doc' = [doc EXCEPT ![kind] = new] /\ (new = doc[kind] \ {r} \/ new = (doc[kind] \ {r}) \cup {emptied})
  BY <1>1 DEF emptied
<1>5. OnePerName(new)
  BY <1>2, <1>3, <1>4 DEF OnePerName
<1>6. doc' \in Documents
  BY <1>1, <1>3, <1>4 DEF Documents
<1>7. doc'[kind] = new /\ \A k \in {"creds", "groups", "hosts"} \ {kind} : doc'[k] = doc[k]
  BY <1>1, <1>4 DEF Documents
<1> QED BY <1>5, <1>6, <1>7 DEF Document, Documents

\* What holds of the machines and of the document at every step.
ImportInv ==
    /\ DOMAIN store = Machine /\ next \in [Machine -> Nat \ {0}]
    /\ \A m \in Machine : Listed(store[m], next[m])
    /\ Document(doc)

\* A form saves a record under the id of the one of its name, or under the next id.
LEMMA Saved ==
    ASSUME ImportInv, NEW m \in Machine, NEW kind \in {"creds", "groups", "hosts"}, NEW r,
           r.id = OwnID(m, kind, r.name), Form(m, kind, r)
    PROVE  LET new == Over(store[m][kind], {r})
               k == IF r.id = next[m] THEN next[m] + 1 ELSE next[m]
           IN  /\ k \in Nat \ {0} /\ next[m] <= k /\ r.id \in Upto(k)
               /\ store' = [store EXCEPT ![m][kind] = new] /\ next' = [next EXCEPT ![m] = k]
               /\ Apart(new) /\ IdsIn(new) = IdsIn(store[m][kind]) \cup {r.id}
               /\ new \subseteq store[m][kind] \cup {r}
<1> DEFINE rs == store[m][kind]
           new == Over(rs, {r})
           k == IF r.id = next[m] THEN next[m] + 1 ELSE next[m]
<1>1. Listed(store[m], next[m]) /\ DOMAIN store = Machine /\ DOMAIN next = Machine
  BY DEF ImportInv
<1>2. Apart(rs) /\ next[m] \in Nat \ {0}
  BY <1>1 DEF Listed, Resolved
<1>3. \A y \in rs : y.id \in Upto(next[m])
  BY <1>1 DEF Listed, Stores, CredRec, GroupRec, HostRec
<1>4. store' = [store EXCEPT ![m][kind] = new] /\ next' = [next EXCEPT ![m] = k]
  <2>1. next' = [next EXCEPT ![m] = IF r.id = next[m] THEN next[m] + 1 ELSE next[m]]
    BY DEF Form
  <2>2. store' = [store EXCEPT ![m][kind] = new]
    BY DEF Form
  <2> QED BY <2>1, <2>2
<1>5. IF r.name \in NamesIn(rs) THEN r.id = Named(rs, r.name).id ELSE r.id = next[m]
  BY DEF OwnID
<1>6. r.id \in Upto(next[m]) \/ r.id = next[m]
  BY <1>3, <1>5, NamedIs
<1>7. k \in Nat \ {0} /\ next[m] <= k /\ r.id \in Upto(k)
  BY <1>2, <1>6 DEF Upto
<1> HIDE DEF k
<1>8. Fits(rs, {r})
  <2>1. \A y \in rs : y.id # next[m]
    BY <1>2, <1>3 DEF Upto
  <2> HIDE DEF rs
  <2> QED BY <2>1, <1>5 DEF Fits, IdsIn
<1> HIDE DEF new, rs
<1>9. Apart({r})
  BY DEF Apart
<1>10. /\ \A y : y \in Over(rs, {r}) <=> y \in {r} \/ (y \in rs /\ y.name \notin NamesIn({r}))
       /\ Apart(Over(rs, {r})) /\ IdsIn(Over(rs, {r})) = IdsIn(rs) \cup IdsIn({r})
  BY <1>2, <1>8, <1>9, Overwritten
<1>11. IdsIn({r}) = {r.id}
  BY DEF IdsIn
<1>12. Apart(new) /\ IdsIn(new) = IdsIn(rs) \cup {r.id} /\ new \subseteq rs \cup {r}
  BY <1>10, <1>11 DEF new
<1> QED BY <1>4, <1>7, <1>12 DEF new, rs, k

\* Only one machine's list is written by a form.
LEMMA OneList ==
    ASSUME ImportInv, NEW m \in Machine, NEW st, NEW k,
           store' = [store EXCEPT ![m] = st], next' = [next EXCEPT ![m] = k], Listed(st, k), doc' = doc
    PROVE  ImportInv'
<1>1. \A o \in Machine : store'[o] = (IF o = m THEN st ELSE store[o]) /\ next'[o] = (IF o = m THEN k ELSE next[o])
  BY DEF ImportInv
<1>2. DOMAIN store' = Machine /\ next' \in [Machine -> Nat \ {0}]
  BY DEF ImportInv, Listed
<1> QED BY <1>1, <1>2 DEF ImportInv

LEMMA OneListOf ==
    ASSUME ImportInv, NEW m \in Machine, NEW kind, NEW rs, store' = [store EXCEPT ![m][kind] = rs]
    PROVE  store' = [store EXCEPT ![m] = [store[m] EXCEPT ![kind] = rs]]
OBVIOUS

LEMMA EditCredentialKeeps ==
    ASSUME ImportInv, NEW m \in Machine, EditCredential(m)
    PROVE  ImportInv'
<1> PICK c \in Creds, u \in Field : Form(m, "creds", [id |-> OwnID(m, "creds", c), name |-> c, user |-> u])
  BY DEF EditCredential, Field
<1> DEFINE r == [id |-> OwnID(m, "creds", c), name |-> c, user |-> u]
           st == store[m]
           new == Over(st.creds, {r})
           k == IF r.id = next[m] THEN next[m] + 1 ELSE next[m]
           st2 == [st EXCEPT !.creds = new]
<1>1. r.id = OwnID(m, "creds", r.name) /\ Form(m, "creds", r)
  OBVIOUS
<1>2. /\ k \in Nat \ {0} /\ next[m] <= k /\ r.id \in Upto(k)
      /\ store' = [store EXCEPT ![m]["creds"] = new] /\ next' = [next EXCEPT ![m] = k]
      /\ Apart(new) /\ IdsIn(new) = IdsIn(st["creds"]) \cup {r.id} /\ new \subseteq st["creds"] \cup {r}
  <2> HIDE DEF r
  <2> QED BY <1>1, Saved
<1>3. Listed(st, next[m]) /\ doc' = doc
  BY DEF ImportInv, Form, Edits
<1>4. /\ CredRec(next[m]) \subseteq CredRec(k) /\ GroupRec(next[m]) \subseteq GroupRec(k)
      /\ HostRec(next[m]) \subseteq HostRec(k) /\ RuleRec(next[m]) \subseteq RuleRec(k)
  <2>1. next[m] \in Nat
    BY <1>3 DEF Listed
  <2> HIDE DEF k
  <2> QED BY <2>1, <1>2, MoreIds
<1>5. r \in CredRec(k)
  <2> HIDE DEF k
  <2> QED BY <1>2 DEF CredRec
<1>6. st \in Stores(next[m]) /\ Resolved(st)
  BY <1>3 DEF Listed
<1> HIDE DEF r, k, new
<1>7. st2 \in Stores(k)
  BY <1>2, <1>4, <1>5, <1>6 DEF Stores
<1>8. /\ st2.creds = new /\ st2.groups = st.groups /\ st2.hosts = st.hosts /\ st2.rules = st.rules
  BY <1>6 DEF Stores
<1> HIDE DEF st2
<1>9. Resolved(st2)
  BY <1>2, <1>6, <1>8 DEF Resolved
<1>10. Listed(st2, k)
  BY <1>2, <1>7, <1>9 DEF Listed
<1>11. store' = [store EXCEPT ![m] = st2]
  BY <1>2, OneListOf DEF st2
<1> QED BY <1>2, <1>3, <1>10, <1>11, OneList

LEMMA EditGroupKeeps ==
    ASSUME ImportInv, NEW m \in Machine, EditGroup(m)
    PROVE  ImportInv'
<1> PICK g \in Groups, u \in Field, up \in IdsIn(store[m].groups) \cup {None}, c \in IdsIn(store[m].creds) \cup {None} :
      /\ Form(m, "groups", [id |-> OwnID(m, "groups", g), name |-> g, user |-> u, parent |-> up, cred |-> c])
      /\ Acyclic(store'[m].groups)
  BY DEF EditGroup, Field
<1> DEFINE r == [id |-> OwnID(m, "groups", g), name |-> g, user |-> u, parent |-> up, cred |-> c]
           st == store[m]
           new == Over(st.groups, {r})
           k == IF r.id = next[m] THEN next[m] + 1 ELSE next[m]
           st2 == [st EXCEPT !.groups = new]
<1>1. r.id = OwnID(m, "groups", r.name) /\ Form(m, "groups", r)
  OBVIOUS
<1>2. /\ k \in Nat \ {0} /\ next[m] <= k /\ r.id \in Upto(k)
      /\ store' = [store EXCEPT ![m]["groups"] = new] /\ next' = [next EXCEPT ![m] = k]
      /\ Apart(new) /\ IdsIn(new) = IdsIn(st["groups"]) \cup {r.id} /\ new \subseteq st["groups"] \cup {r}
  <2> HIDE DEF r
  <2> QED BY <1>1, Saved
<1>3. Listed(st, next[m]) /\ doc' = doc /\ DOMAIN store = Machine
  BY DEF ImportInv, Form, Edits
<1>4. /\ CredRec(next[m]) \subseteq CredRec(k) /\ GroupRec(next[m]) \subseteq GroupRec(k)
      /\ HostRec(next[m]) \subseteq HostRec(k) /\ RuleRec(next[m]) \subseteq RuleRec(k) /\ Upto(next[m]) \subseteq Upto(k)
  <2>1. next[m] \in Nat
    BY <1>3 DEF Listed
  <2> HIDE DEF k
  <2> QED BY <2>1, <1>2, MoreIds
<1>5. st \in Stores(next[m]) /\ Resolved(st)
  BY <1>3 DEF Listed
<1>6. IdsIn(st.groups) \subseteq Upto(next[m]) /\ IdsIn(st.creds) \subseteq Upto(next[m])
  BY <1>5 DEF Stores, GroupRec, CredRec, IdsIn
<1>7. r \in GroupRec(k)
  <2> HIDE DEF k
  <2> QED BY <1>2, <1>4, <1>6 DEF GroupRec
<1>8. r.parent \in IdsIn(st.groups) \cup {None} /\ r.cred \in IdsIn(st.creds) \cup {None}
  OBVIOUS
<1> HIDE DEF r, k, new
<1>9. st2 \in Stores(k)
  BY <1>2, <1>4, <1>5, <1>7 DEF Stores
<1>10. /\ st2.creds = st.creds /\ st2.groups = new /\ st2.hosts = st.hosts /\ st2.rules = st.rules
  BY <1>5 DEF Stores
<1>11. store' = [store EXCEPT ![m] = st2]
  BY <1>2, OneListOf DEF st2
<1> HIDE DEF st2
<1>12. Acyclic(st2.groups)
  BY <1>3, <1>11
<1>13. Resolved(st2)
  BY <1>2, <1>5, <1>8, <1>10, <1>12 DEF Resolved
<1>14. Listed(st2, k)
  BY <1>2, <1>9, <1>13 DEF Listed
<1> QED BY <1>2, <1>3, <1>11, <1>14, OneList

LEMMA EditHostKeeps ==
    ASSUME ImportInv, NEW m \in Machine, EditHost(m)
    PROVE  ImportInv'
<1> PICK h \in Hosts, u \in Field, g \in IdsIn(store[m].groups) \cup {None}, c \in IdsIn(store[m].creds) \cup {None} :
      Form(m, "hosts", [id |-> OwnID(m, "hosts", h), name |-> h, user |-> u, group |-> g, cred |-> c])
  BY DEF EditHost, Field
<1> DEFINE r == [id |-> OwnID(m, "hosts", h), name |-> h, user |-> u, group |-> g, cred |-> c]
           st == store[m]
           new == Over(st.hosts, {r})
           k == IF r.id = next[m] THEN next[m] + 1 ELSE next[m]
           st2 == [st EXCEPT !.hosts = new]
<1>1. r.id = OwnID(m, "hosts", r.name) /\ Form(m, "hosts", r)
  OBVIOUS
<1>2. /\ k \in Nat \ {0} /\ next[m] <= k /\ r.id \in Upto(k)
      /\ store' = [store EXCEPT ![m]["hosts"] = new] /\ next' = [next EXCEPT ![m] = k]
      /\ Apart(new) /\ IdsIn(new) = IdsIn(st["hosts"]) \cup {r.id} /\ new \subseteq st["hosts"] \cup {r}
  <2> HIDE DEF r
  <2> QED BY <1>1, Saved
<1>3. Listed(st, next[m]) /\ doc' = doc
  BY DEF ImportInv, Form, Edits
<1>4. /\ CredRec(next[m]) \subseteq CredRec(k) /\ GroupRec(next[m]) \subseteq GroupRec(k)
      /\ HostRec(next[m]) \subseteq HostRec(k) /\ RuleRec(next[m]) \subseteq RuleRec(k) /\ Upto(next[m]) \subseteq Upto(k)
  <2>1. next[m] \in Nat
    BY <1>3 DEF Listed
  <2> HIDE DEF k
  <2> QED BY <2>1, <1>2, MoreIds
<1>5. st \in Stores(next[m]) /\ Resolved(st)
  BY <1>3 DEF Listed
<1>6. IdsIn(st.groups) \subseteq Upto(next[m]) /\ IdsIn(st.creds) \subseteq Upto(next[m])
  BY <1>5 DEF Stores, GroupRec, CredRec, IdsIn
<1>7. r \in HostRec(k)
  <2> HIDE DEF k
  <2> QED BY <1>2, <1>4, <1>6 DEF HostRec
<1>8. r.group \in IdsIn(st.groups) \cup {None} /\ r.cred \in IdsIn(st.creds) \cup {None}
  OBVIOUS
<1> HIDE DEF r, k, new
<1>9. st2 \in Stores(k)
  BY <1>2, <1>4, <1>5, <1>7 DEF Stores
<1>10. /\ st2.creds = st.creds /\ st2.groups = st.groups /\ st2.hosts = new /\ st2.rules = st.rules
  BY <1>5 DEF Stores
<1>11. store' = [store EXCEPT ![m] = st2]
  BY <1>2, OneListOf DEF st2
<1> HIDE DEF st2
<1>12. Resolved(st2)
  BY <1>2, <1>5, <1>8, <1>10 DEF Resolved
<1>13. Listed(st2, k)
  BY <1>2, <1>9, <1>12 DEF Listed
<1> QED BY <1>2, <1>3, <1>11, <1>13, OneList

LEMMA EditForwardKeeps ==
    ASSUME ImportInv, NEW m \in Machine, EditForward(m)
    PROVE  ImportInv'
<1> DEFINE st == store[m]
<1>1. PICK h \in st.hosts, r \in Rules :
         /\ store' = [store EXCEPT ![m].rules = @ \cup {[host |-> h.id, rule |-> r]}]
         /\ UNCHANGED next /\ Edits(m)
  BY DEF EditForward
<1> DEFINE x == [host |-> h.id, rule |-> r]
           st2 == [st EXCEPT !.rules = @ \cup {x}]
<1>2. Listed(st, next[m]) /\ doc' = doc /\ next \in [Machine -> Nat \ {0}]
  BY <1>1 DEF ImportInv, Edits
<1>3. st \in Stores(next[m]) /\ Resolved(st)
  BY <1>2 DEF Listed
<1>4. x \in RuleRec(next[m]) /\ x.host \in IdsIn(st.hosts)
  BY <1>3 DEF Stores, HostRec, RuleRec, IdsIn
<1> HIDE DEF x
<1>5. st2 \in Stores(next[m])
  BY <1>3, <1>4 DEF Stores
<1>6. /\ st2.creds = st.creds /\ st2.groups = st.groups /\ st2.hosts = st.hosts /\ st2.rules = st.rules \cup {x}
  BY <1>3 DEF Stores
<1>7. store' = [store EXCEPT ![m] = st2] /\ next' = [next EXCEPT ![m] = next[m]]
  <2>1. store' = [store EXCEPT ![m]["rules"] = st.rules \cup {x}]
    BY <1>1 DEF x
  <2>2. store' = [store EXCEPT ![m] = [st EXCEPT !["rules"] = st.rules \cup {x}]]
    BY <2>1, OneListOf
  <2> HIDE DEF x
  <2>3. next' = [next EXCEPT ![m] = next[m]]
    BY <1>1, <1>2
  <2> QED BY <2>2, <2>3
<1> HIDE DEF st2
<1>8. Resolved(st2)
  BY <1>3, <1>4, <1>6 DEF Resolved
<1>9. Listed(st2, next[m])
  BY <1>2, <1>5, <1>8 DEF Listed
<1> HIDE DEF st
<1> QED BY <1>2, <1>7, <1>9, OneList

LEMMA RunImportKeeps ==
    ASSUME ImportInv, NEW m \in Machine, RunImport(m)
    PROVE  ImportInv'
<1>1. Listed(store[m], next[m]) /\ Document(doc) /\ doc' = doc
  BY DEF ImportInv, RunImport
<1>2. CASE Refused(doc, store[m], next[m])
  BY <1>1, <1>2 DEF RunImport, ImportInv
<1>3. CASE ~ Refused(doc, store[m], next[m])
  <2> DEFINE st2 == After2(doc, store[m], next[m])
             k == After(doc, store[m], next[m])
  <2>1. store' = [store EXCEPT ![m] = st2] /\ next' = [next EXCEPT ![m] = k]
    <3> DEFINE p == Merge(doc, store[m], next[m])
    <3>1. store' = [store EXCEPT ![m] = Apply(store[m], p)] /\ next' = [next EXCEPT ![m] = next[m] + p.used]
      BY <1>3 DEF RunImport
    <3>2. Apply(store[m], p) = st2 /\ next[m] + p.used = k
      BY <1>1, <1>3, PlanApplied
    <3> HIDE DEF p, st2, k
    <3> QED BY <3>1, <3>2
  <2>2. Listed(st2, k)
    BY <1>1, <1>3, ListedAfter
  <2> HIDE DEF st2, k
  <2> QED BY <1>1, <2>1, <2>2, OneList
<1> QED BY <1>2, <1>3

LEMMA ImportInvInit == ImportInit => ImportInv
<1> SUFFICES ASSUME ImportInit PROVE ImportInv
  OBVIOUS
<1>1. Listed(Nothing, 1)
  <2>1. Nothing \in Stores(1)
    BY DEF Nothing, Stores
  <2>2. Resolved(Nothing)
    <3>1. Nothing.creds = {} /\ Nothing.groups = {} /\ Nothing.hosts = {} /\ Nothing.rules = {}
      BY DEF Nothing
    <3>2. Acyclic({})
      <4> SUFFICES ASSUME NEW S \in (SUBSET {}) \ {{}} PROVE FALSE
        BY DEF Acyclic
      <4>1. \A y : y \notin S
        OBVIOUS
      <4>2. S = {}
        BY <4>1
      <4> QED BY <4>2
    <3> QED BY <3>1, <3>2 DEF Resolved, Apart
  <2> QED BY <2>1, <2>2 DEF Listed
<1>2. Document(Export(Nothing))
  BY <1>1, Exported
<1> QED BY <1>1, <1>2 DEF ImportInit, ImportInv

LEMMA ImportInvKept == ImportInv /\ [ImportNext]_importVars => ImportInv'
<1> SUFFICES ASSUME ImportInv, [ImportNext]_importVars PROVE ImportInv'
  OBVIOUS
<1>1. ASSUME NEW m \in Machine, RunExport(m) PROVE ImportInv'
  <2>1. Document(Export(store[m]))
    BY Exported DEF ImportInv
  <2> QED BY <1>1, <2>1 DEF RunExport, ImportInv
<1>2. CASE Strike
  BY <1>2, Struck DEF ImportInv, Strike
<1>3. CASE UNCHANGED importVars
  BY <1>3 DEF importVars, ImportInv
<1> QED
  BY <1>1, <1>2, <1>3, EditCredentialKeeps, EditGroupKeeps, EditHostKeeps, EditForwardKeeps, RunImportKeeps
  DEF ImportNext, Edit, Command

LEMMA ImportInvAlways == ImportSpec => []ImportInv
BY ImportInvInit, ImportInvKept, PTL DEF ImportSpec

\* Every reference of every machine's list is to a record that is there, names and ids
\* are of one record, and no group is its own ancestor, for any names, however many
\* machines exchange a document, and whatever is edited between (merge.go:124).
THEOREM ReferencesResolveAlways == ImportSpec => []ReferencesResolve
<1>1. ImportInv => ReferencesResolve
  BY DEF ImportInv, Listed, Resolved, Apart, ReferencesResolve
<1> QED BY <1>1, ImportInvAlways, PTL

LEMMA HadIs ==
    ASSUME NEW rs, Apart(rs), NEW r \in rs
    PROVE  Had(rs, r.name) = r /\ r.name \in NamesIn(rs) /\ Named(rs, r.name) = r
<1>1. r.name \in NamesIn(rs) /\ Named(rs, r.name) = r
  BY NamedOne
<1> QED BY <1>1 DEF Had

\* A record keeps what it is known by, and of each field that it had a value some value.
Kept(r, s) == s.id = r.id /\ s.name = r.name /\ \A f \in DOMAIN r : r[f] # None => s[f] # None

\* An import leaves each record that there was.
LEMMA NothingLost ==
    ASSUME NEW d, Document(d), NEW st, NEW n, Listed(st, n), ~ Refused(d, st, n)
    PROVE  LET a == After2(d, st, n) IN
           /\ st.rules \subseteq a.rules
           /\ \A kind \in {"creds", "groups", "hosts"} : \A r \in st[kind] : \E s \in a[kind] : Kept(r, s)
<1> DEFINE a == After2(d, st, n)
           C == Creds2(d, st, n)
           G == Groups2(d, st, n)
           H == Hosts2(d, st, n)
           N == Hosts3(d, st, n)
<1>1. /\ st.creds \subseteq CredRec(n) /\ st.groups \subseteq GroupRec(n) /\ st.hosts \subseteq HostRec(n)
      /\ Apart(st.creds) /\ Apart(st.groups) /\ Apart(st.hosts)
  BY DEF Listed, Stores, Resolved
<1>2. /\ st.rules \subseteq a.rules
      /\ a.creds = C \cup {c \in st.creds : c.name \notin NamesIn(C)}
      /\ a.groups = G \cup {g \in st.groups : g.name \notin NamesIn(G)}
      /\ a.hosts = Over(st.hosts, N)
  BY DEF After2, AllCreds, Tree2
<1>3. /\ Fits(st.creds, C) /\ \A x \in C : x.user = Pick(Named(d.creds, x.name).user, Had(st.creds, x.name).user)
  BY CredsMerged
<1>4. /\ Fits(st.groups, G)
      /\ \A x \in G : \A f \in {"user", "cred", "parent"} :
            \/ x[f] = Had(st.groups, x.name)[f]
            \/ \E v : x[f] = Pick(v, Had(st.groups, x.name)[f])
  BY GroupsMerged, RefusedIs
<1>5. /\ Fits(st.hosts, H) 
      /\ \A x \in H : \A f \in {"user", "cred", "group"} : \E v : x[f] = Pick(v, Had(st.hosts, x.name)[f])
  BY HostsMerged
<1>6. N \subseteq H /\ \A x : x \in Over(st.hosts, N) <=> x \in N \/ (x \in st.hosts /\ x.name \notin NamesIn(N))
  BY HostsAfter DEF Hosts3
<1> HIDE DEF a, C, G, H, N
<1>7. ASSUME NEW r \in st.creds PROVE \E s \in a.creds : Kept(r, s)
  <2>1. CASE r.name \notin NamesIn(C)
    BY <2>1, <1>2 DEF Kept
  <2>2. CASE r.name \in NamesIn(C)
    <3>1. PICK s \in C : s.name = r.name
      BY <2>2 DEF NamesIn
    <3>2. s.id = r.id
      BY <3>1, <1>1, <1>3, HadIs DEF Fits
    <3>3. r.user # None => s.user # None
      BY <3>1, <1>1, <1>3, HadIs DEF Pick
    <3>4. DOMAIN r = {"id", "name", "user"}
      BY <1>1 DEF CredRec
    <3> QED BY <3>1, <3>2, <3>3, <3>4, <1>2 DEF Kept
  <2> QED BY <2>1, <2>2
<1>8. ASSUME NEW r \in st.groups PROVE \E s \in a.groups : Kept(r, s)
  <2>1. CASE r.name \notin NamesIn(G)
    BY <2>1, <1>2 DEF Kept
  <2>2. CASE r.name \in NamesIn(G)
    <3>1. PICK s \in G : s.name = r.name
      BY <2>2 DEF NamesIn
    <3>2. s.id = r.id
      BY <3>1, <1>1, <1>4, HadIs DEF Fits
    <3>3. \A f \in {"user", "cred", "parent"} : r[f] # None => s[f] # None
      BY <3>1, <1>1, <1>4, HadIs DEF Pick
    <3>4. DOMAIN r = {"id", "name", "user", "parent", "cred"}
      BY <1>1 DEF GroupRec
    <3> QED BY <3>1, <3>2, <3>3, <3>4, <1>2 DEF Kept
  <2> QED BY <2>1, <2>2
<1>9. ASSUME NEW r \in st.hosts PROVE \E s \in a.hosts : Kept(r, s)
  <2>1. CASE r.name \notin NamesIn(N)
    BY <2>1, <1>2, <1>6 DEF Kept
  <2>2. CASE r.name \in NamesIn(N)
    <3>1. PICK s \in N : s.name = r.name
      BY <2>2 DEF NamesIn
    <3>2. s.id = r.id
      BY <3>1, <1>1, <1>5, <1>6, HadIs DEF Fits
    <3>3. \A f \in {"user", "cred", "group"} : r[f] # None => s[f] # None
      BY <3>1, <1>1, <1>5, <1>6, HadIs DEF Pick
    <3>4. DOMAIN r = {"id", "name", "user", "group", "cred"}
      BY <1>1 DEF HostRec
    <3> QED BY <3>1, <3>2, <3>3, <3>4, <1>2, <1>6 DEF Kept
  <2> QED BY <2>1, <2>2
<1> QED BY <1>2, <1>7, <1>8, <1>9 DEF a

\* What RunImport does to the lists.
LEMMA ImportSteps ==
    ASSUME ImportInv, NEW m \in Machine, RunImport(m)
    PROVE  \/ Refused(doc, store[m], next[m]) /\ fresh' = None /\ UNCHANGED <<store, next, doc, skipped>>
           \/ /\ ~ Refused(doc, store[m], next[m])
              /\ store' = [store EXCEPT ![m] = After2(doc, store[m], next[m])]
              /\ next' = [next EXCEPT ![m] = After(doc, store[m], next[m])]
              /\ fresh' = m /\ doc' = doc /\ skipped' = Merge(doc, store[m], next[m]).skips
<1>1. CASE Refused(doc, store[m], next[m])
  BY <1>1 DEF RunImport
<1>2. CASE ~ Refused(doc, store[m], next[m])
  <2> DEFINE p == Merge(doc, store[m], next[m])
             st2 == After2(doc, store[m], next[m])
             k == After(doc, store[m], next[m])
  <2>1. /\ store' = [store EXCEPT ![m] = Apply(store[m], p)] /\ next' = [next EXCEPT ![m] = next[m] + p.used]
        /\ skipped' = p.skips /\ fresh' = m /\ doc' = doc
    BY <1>2 DEF RunImport
  <2>2. Apply(store[m], p) = st2 /\ next[m] + p.used = k
    BY <1>2, PlanApplied DEF ImportInv
  <2> HIDE DEF p, st2, k
  <2>3. /\ store' = [store EXCEPT ![m] = st2] /\ next' = [next EXCEPT ![m] = k]
        /\ skipped' = p.skips /\ fresh' = m /\ doc' = doc
    BY <2>1, <2>2
  <2> QED BY <2>3, <1>2 DEF p, st2, k
<1> QED BY <1>1, <1>2

LEMMA StepBlanksNothing ==
    ASSUME ImportInv, [ImportNext]_importVars, imports' # imports
    PROVE  \A m \in Machine :
             /\ store[m].rules \subseteq store'[m].rules
             /\ \A kind \in {"creds", "groups", "hosts"} : \A r \in store[m][kind] : \E s \in store'[m][kind] : Kept(r, s)
<1>1. PICK o \in Machine : RunImport(o)
  <2>1. ASSUME NEW m \in Machine, NEW kind, NEW r, Form(m, kind, r) PROVE imports' = imports
    BY <2>1 DEF Form, Edits
  <2>2. ASSUME NEW m \in Machine PROVE EditCredential(m) \/ EditGroup(m) \/ EditHost(m) => imports' = imports
    BY <2>1 DEF EditCredential, EditGroup, EditHost
  <2>3. ASSUME NEW m \in Machine PROVE EditForward(m) => imports' = imports
    BY DEF EditForward, Edits
  <2>4. Strike => imports' = imports
    BY DEF Strike
  <2>5. ASSUME NEW m \in Machine PROVE RunExport(m) => imports' = imports
    BY DEF RunExport
  <2>6. ~ UNCHANGED importVars
    BY DEF importVars
  <2> QED BY <2>2, <2>3, <2>4, <2>5, <2>6 DEF ImportNext, Edit, Command
<1>2. \A s : \A kind \in {"creds", "groups", "hosts"} : \A r \in s[kind] : Kept(r, r)
  BY DEF Kept
<1>3. CASE UNCHANGED store
  BY <1>2, <1>3
<1>4. CASE /\ store' = [store EXCEPT ![o] = After2(doc, store[o], next[o])]
           /\ ~ Refused(doc, store[o], next[o])
  <2> DEFINE a == After2(doc, store[o], next[o])
  <2>1. /\ store[o].rules \subseteq a.rules
        /\ \A kind \in {"creds", "groups", "hosts"} : \A r \in store[o][kind] : \E s \in a[kind] : Kept(r, s)
    BY <1>4, NothingLost DEF ImportInv
  <2> HIDE DEF a
  <2>2. \A m \in Machine : store'[m] = IF m = o THEN a ELSE store[m]
    BY <1>4 DEF ImportInv, a
  <2> QED BY <2>1, <2>2, <1>2
<1> QED BY <1>1, <1>3, <1>4, ImportSteps

\* However often anything is imported, every record that is here keeps its id and its
\* name, and no field that has a value loses it (Merge; merge.go:58).
THEOREM NothingIsBlankedAlways == ImportSpec => NothingIsBlanked
<1>1. ImportInv /\ [ImportNext]_importVars => (imports' # imports =>
          \A m \in Machine :
             /\ store[m].rules \subseteq store'[m].rules
             /\ \A kind \in {"creds", "groups", "hosts"} : \A r \in store[m][kind] : \E s \in store'[m][kind] :
                   s.id = r.id /\ s.name = r.name /\ \A f \in DOMAIN r : r[f] # None => s[f] # None)
  BY StepBlanksNothing DEF Kept
<1> QED BY <1>1, ImportInvAlways, PTL DEF ImportSpec, NothingIsBlanked

\* A name, and the record it is of.
LEMMA NameBack ==
    ASSUME NEW rs, Apart(rs), NEW r \in rs
    PROVE  NameOf(rs, r.id) = r.name /\ r.id \in IdsIn(rs)
<1>1. r.id \in IdsIn(rs)
  BY DEF IdsIn
<1> QED BY <1>1, NameOfIs DEF Apart

LEMMA IdBack ==
    ASSUME NEW rs, Apart(rs), NEW id, NEW v, v = None \/ v = NameOf(rs, id)
    PROVE  Pick(IdOf(rs, v), id) = id /\ (v = None \/ v \in NamesIn(rs))
<1>1. CASE v = None
  BY <1>1 DEF Pick, IdOf
<1>2. CASE v # None
  <2>1. id \in IdsIn(rs)
    BY <1>2 DEF NameOf
  <2>2. PICK r \in rs : r.id = id /\ v = r.name
    BY <1>2, <2>1, NameOfIs
  <2>3. v \in NamesIn(rs) /\ Named(rs, v) = r
    BY <2>2, NamedOne
  <2> QED BY <1>2, <2>2, <2>3 DEF Pick, IdOf
<1> QED BY <1>1, <1>2

LEMMA NameGiven ==
    ASSUME NEW rs, Apart(rs), None \notin IdsIn(rs), NEW v, v = None \/ v \in NamesIn(rs), NEW was
    PROVE  v = None \/ v = NameOf(rs, Pick(IdOf(rs, v), was))
<1> SUFFICES ASSUME v # None PROVE v = NameOf(rs, Pick(IdOf(rs, v), was))
  OBVIOUS
<1> DEFINE r == Named(rs, v)
<1>1. r \in rs /\ r.name = v
  BY NamedIs
<1>2. NameOf(rs, r.id) = r.name /\ r.id \in IdsIn(rs)
  BY <1>1, NameBack
<1>3. IdOf(rs, v) = r.id
  BY DEF IdOf
<1> QED BY <1>1, <1>2, <1>3 DEF Pick

LEMMA NoIdIsNone ==
    ASSUME NEW n \in Nat
    PROVE  None \notin Upto(n)
BY ImportAssumption DEF ImportAssumption, Upto

\* What it is for the records of a document to be so, of a list itself.
CredSaid(c, st) == \E x \in st.creds : x.name = c.name /\ c.user \in {None, x.user}
GroupSaid(g, st) ==
    \E x \in st.groups : /\ x.name = g.name /\ g.user \in {None, x.user}
                         /\ g.parent \in {None, NameOf(st.groups, x.parent)}
                         /\ g.cred \in {None, NameOf(st.creds, x.cred)}
HostSaid(h, st, skips) ==
    \E x \in st.hosts : /\ x.name = h.name /\ h.user \in {None, x.user}
                        /\ h.group \in {None, NameOf(st.groups, x.group)}
                        /\ h.name \in skips \/ h.cred \in {None, NameOf(st.creds, x.cred)}
                        /\ \A r \in h.rules : [host |-> x.id, rule |-> r] \in st.rules

LEMMA SoIs ==
    ASSUME NEW d, Document(d), NEW st, NEW n, Listed(st, n), NEW skips
    PROVE  IsSo(d, st, skips) <=> /\ \A c \in d.creds : CredSaid(c, st)
                                  /\ \A g \in d.groups : GroupSaid(g, st)
                                  /\ \A h \in d.hosts : HostSaid(h, st, skips)
<1> DEFINE ex == Export(st)
           C(c) == [name |-> c.name, user |-> c.user]
           G(g) == [name |-> g.name, user |-> g.user, parent |-> NameOf(st.groups, g.parent),
                    cred |-> NameOf(st.creds, g.cred)]
           H(h) == [name |-> h.name, user |-> h.user, group |-> NameOf(st.groups, h.group),
                    cred |-> NameOf(st.creds, h.cred),
                    rules |-> {r.rule : r \in {x \in st.rules : x.host = h.id}}]
           But(h) == IF h.name \in skips THEN {"rules", "cred"} ELSE {"rules"}
<1>1. ex.creds = {C(c) : c \in st.creds} /\ ex.groups = {G(g) : g \in st.groups} /\ ex.hosts = {H(h) : h \in st.hosts}
  BY DEF Export, ByName
<1>2. d.creds \subseteq CredIn /\ d.groups \subseteq GroupIn /\ d.hosts \subseteq HostIn
  BY DEF Document, Documents
<1>3. ASSUME NEW c \in d.creds
      PROVE  (\E is \in ex.creds : Says(c, is, {})) <=> CredSaid(c, st)
  <2>1. DOMAIN c = {"name", "user"}
    BY <1>2 DEF CredIn
  <2>2. ASSUME NEW x PROVE Says(c, C(x), {}) <=> x.name = c.name /\ c.user \in {None, x.user}
    BY <2>1 DEF Says
  <2> HIDE DEF C
  <2> QED BY <1>1, <2>2 DEF CredSaid
<1>4. ASSUME NEW g \in d.groups
      PROVE  (\E is \in ex.groups : Says(g, is, {})) <=> GroupSaid(g, st)
  <2>1. DOMAIN g = {"name", "user", "parent", "cred"}
    BY <1>2 DEF GroupIn
  <2>2. ASSUME NEW x
        PROVE  Says(g, G(x), {}) <=> /\ x.name = g.name /\ g.user \in {None, x.user}
                                     /\ g.parent \in {None, NameOf(st.groups, x.parent)}
                                     /\ g.cred \in {None, NameOf(st.creds, x.cred)}
    BY <2>1 DEF Says
  <2> HIDE DEF G
  <2> QED BY <1>1, <2>2 DEF GroupSaid
<1>5. ASSUME NEW h \in d.hosts
      PROVE  (\E is \in ex.hosts : Says(h, is, But(h)) /\ h.rules \subseteq is.rules) <=> HostSaid(h, st, skips)
  <2>1. DOMAIN h = {"name", "user", "group", "cred", "rules"}
    BY <1>2 DEF HostIn
  <2>2. ASSUME NEW x
        PROVE  Says(h, H(x), But(h)) <=> /\ x.name = h.name /\ h.user \in {None, x.user}
                                         /\ h.group \in {None, NameOf(st.groups, x.group)}
                                         /\ h.name \in skips \/ h.cred \in {None, NameOf(st.creds, x.cred)}
    <3>1. (DOMAIN h) \ But(h) = IF h.name \in skips THEN {"name", "user", "group"} ELSE {"name", "user", "group", "cred"}
      BY <2>1
    <3> DEFINE is == H(x)
    <3>2. /\ is.name = x.name /\ is.user = x.user
          /\ is.group = NameOf(st.groups, x.group) /\ is.cred = NameOf(st.creds, x.cred)
      OBVIOUS
    <3> HIDE DEF is
    <3>3. Says(h, is, But(h)) <=> is.name = h.name /\ \A f \in (DOMAIN h) \ But(h) : h[f] \in {None, is[f]}
      BY DEF Says
    <3> HIDE DEF But
    <3>4. Says(h, is, But(h)) <=> /\ x.name = h.name /\ h.user \in {None, x.user}
                                  /\ h.group \in {None, NameOf(st.groups, x.group)}
                                  /\ h.name \in skips \/ h.cred \in {None, NameOf(st.creds, x.cred)}
      <4>1. CASE h.name \in skips
        <5>1. (DOMAIN h) \ But(h) = {"name", "user", "group"}
          BY <3>1, <4>1
        <5> QED BY <3>2, <3>3, <4>1, <5>1
      <4>2. CASE h.name \notin skips
        <5>1. (DOMAIN h) \ But(h) = {"name", "user", "group", "cred"}
          BY <3>1, <4>2
        <5> QED BY <3>2, <3>3, <4>2, <5>1
      <4> QED BY <4>1, <4>2
    <3> QED BY <3>4 DEF is
  <2>3. st.rules \subseteq RuleRec(n)
    BY DEF Listed, Stores
  <2>4. ASSUME NEW x, NEW r
        PROVE  r \in H(x).rules <=> [host |-> x.id, rule |-> r] \in st.rules
    <3>1. r \in H(x).rules <=> \E y \in st.rules : y.host = x.id /\ y.rule = r
      OBVIOUS
    <3>2. \A y \in st.rules : y.host = x.id /\ y.rule = r => y = [host |-> x.id, rule |-> r]
      BY <2>3 DEF RuleRec
    <3> HIDE DEF H
    <3> QED BY <3>1, <3>2
  <2>5. ASSUME NEW x
        PROVE  h.rules \subseteq H(x).rules <=> \A r \in h.rules : [host |-> x.id, rule |-> r] \in st.rules
    <3> HIDE DEF H
    <3> QED BY <2>4
  <2> HIDE DEF H, But
  <2> QED BY <1>1, <2>2, <2>5 DEF HostSaid
<1> HIDE DEF ex
<1>6. IsSo(d, st, skips) <=> /\ \A kind \in {"creds", "groups"} : \A in \in d[kind] : \E is \in ex[kind] : Says(in, is, {})
                             /\ \A h \in d.hosts : \E is \in ex.hosts : Says(h, is, But(h)) /\ h.rules \subseteq is.rules
  BY DEF IsSo, ex
<1> HIDE DEF But
<1>7. IsSo(d, st, skips) <=> /\ \A c \in d.creds : \E is \in ex.creds : Says(c, is, {})
                             /\ \A g \in d.groups : \E is \in ex.groups : Says(g, is, {})
                             /\ \A h \in d.hosts : \E is \in ex.hosts : Says(h, is, But(h)) /\ h.rules \subseteq is.rules
  BY <1>6
<1> QED BY <1>3, <1>4, <1>5, <1>7

\* A document that says what is so already is not refused, and changes nothing.
LEMMA Again ==
    ASSUME NEW d, Document(d), NEW st, NEW n, Listed(st, n), NEW skips, IsSo(d, st, skips), ~ Unknown(d, st)
    PROVE  ~ Refused(d, st, n) /\ Changes(Merge(d, st, n)) = {}
<1> DEFINE C == Creds2(d, st, n)
           cs == AllCreds(d, st, n)
           D == Declared2(d, st, n)
           all == Known2(d, st, n)
           G == Groups2(d, st, n)
           T == Tree2(d, st, n)
           H == Hosts2(d, st, n)
           N == Hosts3(d, st, n)
           m == After(d, st, n)
<1>1. /\ \A c \in d.creds : CredSaid(c, st)
      /\ \A g \in d.groups : GroupSaid(g, st)
      /\ \A h \in d.hosts : HostSaid(h, st, skips)
  BY SoIs
<1>2. /\ Apart(st.creds) /\ Apart(st.groups) /\ Apart(st.hosts) /\ Acyclic(st.groups)
      /\ st.creds \subseteq CredRec(m) /\ st.groups \subseteq GroupRec(m)
  BY IdsAreGiven, MoreIds DEF Listed, Stores, Resolved
<1>3. C \subseteq CredRec(m) /\ NamesIn(C) = NamesIn(d.creds) /\ Fits(st.creds, C)
      /\ \A x \in C : x.user = Pick(Named(d.creds, x.name).user, Had(st.creds, x.name).user)
  BY CredsMerged
<1>4. cs = C \cup {c \in st.creds : c.name \notin NamesIn(C)} /\ T = G \cup {g \in st.groups : g.name \notin NamesIn(G)}
      /\ all = D \cup st.groups
  BY DEF AllCreds, Tree2, Known2
<1>5. /\ NamesIn(D) = GroupsNamed(d)
      /\ \A x \in D : x.name \in NamesIn(st.groups) => x = Named(st.groups, x.name)
  BY GroupsDeclared
<1>6. /\ G \subseteq GroupRec(m) /\ NamesIn(G) = GroupsNamed(d) /\ Fits(st.groups, G)
      /\ \A x \in G :
            IF x.name \in NamesIn(d.groups)
            THEN LET in == Named(d.groups, x.name)
                     had == Had(st.groups, x.name)
                 IN  /\ x.user = Pick(in.user, had.user) /\ x.cred = Pick(IdOf(cs, in.cred), had.cred)
                     /\ x.parent = Pick(IdOf(all, in.parent), had.parent)
            ELSE \A f \in {"user", "cred", "parent"} : x[f] = Had(st.groups, x.name)[f]
  BY GroupsMerged
<1>7. N = {h \in H : h.name \notin NamesIn(st.hosts) \/ ~ SameHost(h, Named(st.hosts, h.name))}
  BY DEF Hosts3
<1>8. ~ Refused(d, st, n) =>
         /\ NamesIn(H) = NamesIn(d.hosts) /\ Fits(st.hosts, H) /\ Apart(H)
         /\ \A x \in H : /\ x.user = Pick(Named(d.hosts, x.name).user, Had(st.hosts, x.name).user)
                         /\ x.group = Pick(IdOf(G, Named(d.hosts, x.name).group), Had(st.hosts, x.name).group)
  BY HostsMerged
<1>9. Refused(d, st, n) <=> ~ Acyclic(T)
  BY RefusedIs
<1>10. LET p == Merge(d, st, n) IN
       /\ p.creds = C \ st.creds /\ p.groups = G \ st.groups /\ p.hosts = N
       /\ p.rules = {r \in RulesOf(d, H) : r \notin st.rules}
  BY DEF Merge, Queued, IsHere, Hosts3, Hosts2, Groups2, AllCreds, Creds2, GivenIds
<1> HIDE DEF C, cs, D, all, G, T, H, N, m
<1>11. C \subseteq st.creds
  <2> SUFFICES ASSUME NEW x \in C PROVE x \in st.creds
    OBVIOUS
  <2> DEFINE c == Named(d.creds, x.name)
  <2>1. c \in d.creds /\ c.name = x.name
    BY <1>3, NamedIs DEF NamesIn
  <2> HIDE DEF c
  <2>2. PICK y \in st.creds : y.name = x.name /\ c.user \in {None, y.user}
    BY <2>1, <1>1 DEF CredSaid
  <2>3. Had(st.creds, x.name) = y /\ x.name \in NamesIn(st.creds) /\ Named(st.creds, x.name) = y
    BY <2>2, <1>2, HadIs
  <2>4. x.id = y.id /\ x.user = y.user
    BY <2>2, <2>3, <1>3 DEF Fits, Pick, c
  <2> QED BY <2>2, <2>4, <1>2, <1>3 DEF CredRec
<1>12. cs = st.creds
  <2>1. ASSUME NEW c \in st.creds, c.name \in NamesIn(C) PROVE c \in C
    BY <2>1, <1>2, <1>11 DEF NamesIn, Apart
  <2> QED BY <2>1, <1>4, <1>11
<1>13. GroupsNamed(d) \subseteq NamesIn(st.groups)
  <2>1. ASSUME NEW g \in d.groups PROVE g.name \in NamesIn(st.groups)
    BY <1>1 DEF GroupSaid, NamesIn
  <2>2. ASSUME NEW h \in d.hosts, h.group # None PROVE h.group \in NamesIn(st.groups)
    <3>1. PICK x \in st.hosts : h.group \in {None, NameOf(st.groups, x.group)}
      BY <1>1 DEF HostSaid
    <3> QED BY <2>2, <3>1, <1>2, IdBack
  <2> QED BY <2>1, <2>2 DEF GroupsNamed, NamesIn
<1>14. all = st.groups
  <2>1. ASSUME NEW x \in D PROVE x \in st.groups
    <3>1. x.name \in NamesIn(st.groups)
      BY <1>5, <1>13 DEF NamesIn
    <3> QED BY <3>1, <1>5, NamedIs
  <2> QED BY <2>1, <1>4
<1>15. G \subseteq st.groups
  <2> SUFFICES ASSUME NEW x \in G PROVE x \in st.groups
    OBVIOUS
  <2>1. x.name \in NamesIn(st.groups)
    BY <1>6, <1>13 DEF NamesIn
  <2>2. PICK y \in st.groups : y.name = x.name
    BY <2>1 DEF NamesIn
  <2>3. Had(st.groups, x.name) = y /\ Named(st.groups, x.name) = y
    BY <2>2, <1>2, HadIs
  <2>4. x.id = y.id
    BY <2>1, <2>3, <1>6 DEF Fits
  <2>5. x.user = y.user /\ x.cred = y.cred /\ x.parent = y.parent
    <3>1. CASE x.name \in NamesIn(d.groups)
      <4> DEFINE in == Named(d.groups, x.name)
      <4>1. in \in d.groups /\ in.name = x.name
        BY <3>1, NamedIs
      <4>2. /\ x.user = Pick(in.user, y.user) /\ x.cred = Pick(IdOf(st.creds, in.cred), y.cred)
            /\ x.parent = Pick(IdOf(st.groups, in.parent), y.parent)
        BY <3>1, <2>3, <1>6, <1>12, <1>14
      <4> HIDE DEF in
      <4>3. PICK z \in st.groups : /\ z.name = in.name /\ in.user \in {None, z.user}
                                   /\ in.parent \in {None, NameOf(st.groups, z.parent)}
                                   /\ in.cred \in {None, NameOf(st.creds, z.cred)}
        BY <4>1, <1>1 DEF GroupSaid
      <4>4. z = y
        BY <4>1, <4>3, <2>2, <1>2 DEF Apart
      <4>5. Pick(IdOf(st.creds, in.cred), y.cred) = y.cred /\ Pick(IdOf(st.groups, in.parent), y.parent) = y.parent
        BY <4>3, <4>4, <1>2, IdBack
      <4> QED BY <4>2, <4>3, <4>4, <4>5 DEF Pick
    <3>2. CASE x.name \notin NamesIn(d.groups)
      BY <3>2, <2>3, <1>6
    <3> QED BY <3>1, <3>2
  <2> QED BY <2>2, <2>4, <2>5, <1>2, <1>6 DEF GroupRec
<1>16. T = st.groups
  <2>1. ASSUME NEW g \in st.groups, g.name \in NamesIn(G) PROVE g \in G
    BY <2>1, <1>2, <1>15 DEF NamesIn, Apart
  <2> QED BY <2>1, <1>4, <1>15
<1>17. ~ Refused(d, st, n)
  BY <1>2, <1>9, <1>16
<1>18. ASSUME NEW x \in H
       PROVE  \E y \in st.hosts, h \in d.hosts :
                 /\ h.name = x.name /\ y.name = x.name /\ y.id = x.id /\ SameHost(x, y)
                 /\ x.name \in NamesIn(st.hosts) /\ Named(st.hosts, x.name) = y
                 /\ \A r \in h.rules : [host |-> y.id, rule |-> r] \in st.rules
  <2> DEFINE h == Named(d.hosts, x.name)
  <2>1. h \in d.hosts /\ h.name = x.name
    BY <1>8, <1>17, NamedIs DEF NamesIn
  <2>2. x.user = Pick(h.user, Had(st.hosts, x.name).user) /\ x.group = Pick(IdOf(G, h.group), Had(st.hosts, x.name).group)
    BY <1>8, <1>17
  <2> HIDE DEF h
  <2>3. PICK y \in st.hosts : /\ y.name = h.name /\ h.user \in {None, y.user}
                              /\ h.group \in {None, NameOf(st.groups, y.group)}
                              /\ \A r \in h.rules : [host |-> y.id, rule |-> r] \in st.rules
    BY <2>1, <1>1 DEF HostSaid
  <2>4. Had(st.hosts, x.name) = y /\ x.name \in NamesIn(st.hosts) /\ Named(st.hosts, x.name) = y
    BY <2>1, <2>3, <1>2, HadIs
  <2>5. x.id = y.id
    BY <2>4, <1>8, <1>17 DEF Fits
  <2>6. IdOf(G, h.group) = IdOf(st.groups, h.group)
    <3>1. CASE h.group = None
      BY <3>1 DEF IdOf
    <3>2. CASE h.group # None
      <4>1. h.group \in NamesIn(G)
        BY <3>2, <2>1, <1>6 DEF GroupsNamed
      <4>2. Named(G, h.group) \in st.groups /\ Named(G, h.group).name = h.group
        BY <4>1, <1>15, NamedIs
      <4>3. Named(st.groups, h.group) = Named(G, h.group)
        BY <4>2, <1>2, NamedOne
      <4> QED BY <4>3 DEF IdOf
    <3> QED BY <3>1, <3>2
  <2>7. x.group = y.group /\ x.user = y.user
    <3>1. Pick(IdOf(st.groups, h.group), y.group) = y.group
      BY <2>3, <1>2, IdBack
    <3> QED BY <3>1, <2>2, <2>3, <2>4, <2>6 DEF Pick
  <2> QED BY <2>1, <2>3, <2>4, <2>5, <2>7 DEF SameHost
<1>19. N = {}
  BY <1>7, <1>18
<1>20. ASSUME NEW r \in RulesOf(d, H) PROVE r \in st.rules
  <2>1. PICK h \in d.hosts : \E q \in h.rules : r = [host |-> Named(H, h.name).id, rule |-> q]
    BY <1>20 DEF RulesOf
  <2>2. Named(H, h.name) \in H /\ Named(H, h.name).name = h.name
    BY <1>8, <1>17, NamedIs DEF NamesIn
  <2>3. PICK y \in st.hosts, g \in d.hosts :
           /\ g.name = h.name /\ y.id = Named(H, h.name).id
           /\ \A q \in g.rules : [host |-> y.id, rule |-> q] \in st.rules
    BY <2>2, <1>18
  <2>4. g = h
    BY <2>3 DEF Document, OnePerName
  <2> QED BY <2>1, <2>3, <2>4
<1>21. Changes(Merge(d, st, n)) = {}
  <2> DEFINE p == Merge(d, st, n)
  <2>1. p.creds = {} /\ p.groups = {} /\ p.hosts = {} /\ p.rules = {}
    BY <1>10, <1>11, <1>15, <1>19, <1>20
  <2> HIDE DEF p
  <2>2. Changes(p) = {}
    BY <2>1 DEF Changes
  <2> QED BY <2>2 DEF p
<1> QED BY <1>17, <1>21

\* A group keeps its id and its name while what it holds is filled in.
LEMMA TreeNames ==
    ASSUME NEW d, Document(d), NEW st, NEW n, Listed(st, n), ~ Refused(d, st, n), NEW y \in Known2(d, st, n)
    PROVE  \E t \in Tree2(d, st, n) : t.id = y.id /\ t.name = y.name
<1> DEFINE G == Groups2(d, st, n)
           D == Declared2(d, st, n)
           T == Tree2(d, st, n)
<1>1. Fits(st.groups, G) /\ \A g \in D : \E x \in G : x.name = g.name /\ x.id = g.id
  BY GroupsMerged, RefusedIs
<1>2. T = G \cup {g \in st.groups : g.name \notin NamesIn(G)} /\ (y \in D \/ y \in st.groups)
  BY DEF Tree2, Known2
<1>3. Apart(st.groups)
  BY DEF Listed, Resolved
<1> HIDE DEF G, D, T
<1>4. ASSUME y \in D PROVE \E t \in T : t.id = y.id /\ t.name = y.name
  BY <1>1, <1>2, <1>4
<1>5. ASSUME y \in st.groups /\ y.name \in NamesIn(G) PROVE \E t \in T : t.id = y.id /\ t.name = y.name
  <2>1. PICK x \in G : x.name = y.name
    BY <1>5 DEF NamesIn
  <2>2. x.id = y.id
    BY <2>1, <1>1, <1>3, <1>5, HadIs DEF Fits
  <2> QED BY <2>1, <2>2, <1>2
<1>6. ASSUME y \in st.groups /\ y.name \notin NamesIn(G) PROVE \E t \in T : t.id = y.id /\ t.name = y.name
  BY <1>2, <1>6
<1> QED BY <1>2, <1>4, <1>5, <1>6 DEF T

\* Once it is imported, what a document says is so.
LEMMA SoAfter ==
    ASSUME NEW d, Document(d), NEW st, NEW n, Listed(st, n), ~ Refused(d, st, n)
    PROVE  LET a == After2(d, st, n) IN IsSo(d, a, Merge(d, st, n).skips) /\ ~ Unknown(d, a)
<1> DEFINE a == After2(d, st, n)
           m == After(d, st, n)
           C == Creds2(d, st, n)
           cs == AllCreds(d, st, n)
           all == Known2(d, st, n)
           G == Groups2(d, st, n)
           T == Tree2(d, st, n)
           H == Hosts2(d, st, n)
           N == Hosts3(d, st, n)
           O == Over(st.hosts, N)
           skips == Merge(d, st, n).skips
<1>1. /\ a.creds = cs /\ a.groups = T /\ a.hosts = O
      /\ a.rules = st.rules \cup RulesOf(d, H)
  BY DEF After2
<1>2. /\ C \subseteq cs /\ NamesIn(C) = NamesIn(d.creds)
      /\ \A x \in C : x.user = Pick(Named(d.creds, x.name).user, Had(st.creds, x.name).user)
  BY CredsMerged DEF AllCreds
<1>3. Apart(cs) /\ IdsIn(cs) \subseteq Upto(m) /\ NamesIn(cs) = NamesIn(st.creds) \cup NamesIn(d.creds)
  BY CredsAfter
<1>4. /\ Apart(T) /\ IdsIn(T) \subseteq Upto(m) /\ G \subseteq T
      /\ NamesIn(T) = NamesIn(st.groups) \cup GroupsNamed(d) 
  <2>1. G \subseteq T
    BY DEF Tree2
  <2> QED BY <2>1, GroupsAfter
<1>5. /\ NamesIn(G) = GroupsNamed(d)
      /\ \A x \in G : x.name \in NamesIn(d.groups) =>
            LET in == Named(d.groups, x.name)
                had == Had(st.groups, x.name)
            IN  /\ x.user = Pick(in.user, had.user) /\ x.cred = Pick(IdOf(cs, in.cred), had.cred)
                /\ x.parent = Pick(IdOf(all, in.parent), had.parent)
  BY GroupsMerged, RefusedIs
<1>6. /\ NamesIn(H) = NamesIn(d.hosts) /\ Apart(H) /\ Fits(st.hosts, H)
      /\ \A x \in H : LET in == Named(d.hosts, x.name)
                          had == Had(st.hosts, x.name)
                      IN  /\ x.user = Pick(in.user, had.user)
                          /\ x.group = Pick(IdOf(G, in.group), had.group)
                          /\ x.cred = Pick(IdOf(cs, in.cred), had.cred)
  BY HostsMerged
<1>7. \A x : x \in O <=> x \in N \/ (x \in st.hosts /\ x.name \notin NamesIn(N))
  BY HostsAfter
<1>8. N = {h \in H : h.name \notin NamesIn(st.hosts) \/ ~ SameHost(h, Named(st.hosts, h.name))}
  BY DEF Hosts3
<1>9. skips = {h.name : h \in {x \in H : x.name \in NamesIn(st.hosts) /\ SameHost(x, Named(st.hosts, x.name))
                                         /\ x # Named(st.hosts, x.name)}}
  BY DEF Merge, Hosts2, Groups2, AllCreds, Creds2, GivenIds
<1>10. /\ \A x \in d.groups \cup d.hosts : x.cred = None \/ x.cred \in NamesIn(cs)
       /\ \A g \in d.groups : g.parent = None \/ g.parent \in NamesIn(all)
       /\ \A h \in d.hosts : h.group = None \/ h.group \in GroupsNamed(d)
  BY NamesKnown, RefusedIs
<1>11. None \notin Upto(m)
  BY NoIdIsNone, IdsAreGiven
<1>12. OnePerName(d.creds) /\ OnePerName(d.groups) /\ OnePerName(d.hosts)
  BY DEF Document
<1>13. \A y \in all : \E t \in T : t.id = y.id /\ t.name = y.name
  BY TreeNames
<1>14. Listed(a, m)
  BY ListedAfter
<1>15. Apart(st.hosts)
  BY DEF Listed, Resolved
<1>16. NamesIn(all) = NamesIn(T)
  BY <1>4, GroupsKnown
<1> HIDE DEF a, m, C, cs, all, G, T, H, N, O, skips
<1>17. ASSUME NEW c \in d.creds PROVE CredSaid(c, a)
  <2>1. PICK x \in C : x.name = c.name
    BY <1>2 DEF NamesIn
  <2>2. Named(d.creds, x.name) = c
    BY <2>1, <1>12, NamedOnly DEF OnePerName
  <2> QED BY <2>1, <2>2, <1>1, <1>2 DEF CredSaid, Pick
<1>18. ASSUME NEW g \in d.groups PROVE GroupSaid(g, a)
  <2>1. g.name \in NamesIn(d.groups) /\ g.name \in GroupsNamed(d)
    BY DEF NamesIn, GroupsNamed
  <2>2. PICK x \in G : x.name = g.name
    BY <2>1, <1>5 DEF NamesIn
  <2>3. Named(d.groups, x.name) = g
    BY <2>2, <1>12, NamedOnly DEF OnePerName
  <2> DEFINE had == Had(st.groups, x.name)
  <2>4. /\ x.user = Pick(g.user, had.user) /\ x.cred = Pick(IdOf(cs, g.cred), had.cred)
        /\ x.parent = Pick(IdOf(all, g.parent), had.parent)
    BY <2>1, <2>2, <2>3, <1>5
  <2> HIDE DEF had
  <2>5. g.cred \in {None, NameOf(cs, x.cred)}
    BY <2>4, <1>3, <1>10, <1>11, NameGiven
  <2>6. g.parent \in {None, NameOf(T, x.parent)}
    <3>1. CASE g.parent = None
      BY <3>1
    <3>2. CASE g.parent # None
      <4> DEFINE y == Named(all, g.parent)
      <4>1. y \in all /\ y.name = g.parent
        BY <3>2, <1>10, NamedIs
      <4>2. PICK t \in T : t.id = y.id /\ t.name = y.name
        BY <4>1, <1>13
      <4>3. NameOf(T, t.id) = t.name /\ t.id # None
        BY <4>2, <1>4, <1>11, NameBack
      <4>4. IdOf(all, g.parent) = y.id
        BY <3>2 DEF IdOf
      <4>5. x.parent = t.id
        BY <4>2, <4>3, <4>4, <2>4 DEF Pick
      <4> QED BY <4>1, <4>2, <4>3, <4>5
    <3> QED BY <3>1, <3>2
  <2>7. g.user \in {None, x.user}
    BY <2>4 DEF Pick
  <2>8. x \in a.groups
    BY <1>1, <1>4
  <2> QED BY <2>2, <2>5, <2>6, <2>7, <2>8, <1>1 DEF GroupSaid
<1>19. ASSUME NEW h \in d.hosts PROVE HostSaid(h, a, skips)
  <2>1. PICK x \in H : x.name = h.name
    BY <1>6 DEF NamesIn
  <2>2. Named(d.hosts, x.name) = h /\ Named(H, h.name) = x
    BY <2>1, <1>6, <1>12, NamedOnly, NamedOne DEF OnePerName
  <2> DEFINE had == Had(st.hosts, x.name)
  <2>3. /\ x.user = Pick(h.user, had.user) /\ x.group = Pick(IdOf(G, h.group), had.group)
        /\ x.cred = Pick(IdOf(cs, h.cred), had.cred)
    BY <2>2, <1>6
  <2> HIDE DEF had
  <2>4. h.user \in {None, x.user}
    BY <2>3 DEF Pick
  <2>5. h.cred \in {None, NameOf(cs, x.cred)}
    BY <2>3, <1>3, <1>10, <1>11, NameGiven
  <2>6. h.group \in {None, NameOf(T, x.group)}
    <3>1. CASE h.group = None
      BY <3>1
    <3>2. CASE h.group # None
      <4> DEFINE g == Named(G, h.group)
      <4>1. g \in G /\ g.name = h.group
        BY <3>2, <1>5, <1>10, NamedIs
      <4>2. NameOf(T, g.id) = g.name /\ g.id # None
        BY <4>1, <1>4, <1>11, NameBack
      <4>3. IdOf(G, h.group) = g.id
        BY <3>2 DEF IdOf
      <4>4. x.group = g.id
        BY <4>2, <4>3, <2>3 DEF Pick
      <4> QED BY <4>1, <4>2, <4>4
    <3> QED BY <3>1, <3>2
  <2>7. \A r \in h.rules : [host |-> x.id, rule |-> r] \in a.rules
    BY <2>2, <1>1 DEF RulesOf
  <2>8. CASE x \in N
    <3>1. x \in a.hosts
      BY <2>8, <1>1, <1>7
    <3> QED BY <3>1, <2>1, <2>4, <2>5, <2>6, <2>7, <1>1 DEF HostSaid
  <2>9. CASE x \notin N
    <3> DEFINE y == Named(st.hosts, x.name)
    <3>1. x.name \in NamesIn(st.hosts) /\ y.user = x.user /\ y.group = x.group
      BY <2>9, <1>8 DEF SameHost
    <3>2. y \in st.hosts /\ y.name = x.name /\ y.id = x.id
      BY <3>1, <1>6, NamedIs DEF Fits
    <3>3. x.name \notin NamesIn(N)
      <4>1. ASSUME NEW z \in N, z.name = x.name PROVE FALSE
        BY <4>1, <2>9, <1>6, <1>8 DEF Apart
      <4> QED BY <4>1 DEF NamesIn
    <3>4. y \in a.hosts
      BY <3>2, <3>3, <1>1, <1>7
    <3>5. y = x \/ x.name \in skips
      BY <3>1, <1>9, <2>9, <1>8
    <3> HIDE DEF y
    <3>6. h.name \in skips \/ h.cred \in {None, NameOf(cs, y.cred)}
      BY <3>5, <2>1, <2>5
    <3> QED BY <3>1, <3>2, <3>4, <3>6, <2>1, <2>4, <2>6, <2>7, <1>1 DEF HostSaid
  <2> QED BY <2>8, <2>9
<1>20. IsSo(d, a, skips)
  BY <1>14, <1>17, <1>18, <1>19, SoIs
<1>21. ~ Unknown(d, a)
  <2>1. \A x \in d.groups \cup d.hosts : x.cred \in NamesIn(d.creds) \cup NamesIn(a.creds) \cup {None}
    BY <1>1, <1>10
  <2>2. \A g \in d.groups : g.parent \in ParentsKnown(d, a)
    BY <1>1, <1>10, <1>16 DEF ParentsKnown
  <2> QED BY <2>1, <2>2 DEF Unknown
<1> QED BY <1>20, <1>21 DEF a, skips

\* What is so since the last import, of the machine it was to.
FreshInv ==
    fresh # None => fresh \in Machine /\ IsSo(doc, store[fresh], skipped) /\ ~ Unknown(doc, store[fresh])

LEMMA FreshInvKept == ImportInv /\ FreshInv /\ [ImportNext]_importVars => FreshInv'
<1> SUFFICES ASSUME ImportInv, FreshInv, [ImportNext]_importVars PROVE FreshInv'
  OBVIOUS
<1>1. ASSUME UNCHANGED <<doc, skipped>>, fresh' = fresh \/ fresh' = None,
             fresh' # None => store'[fresh] = store[fresh]
      PROVE  FreshInv'
  BY <1>1 DEF FreshInv
<1>2. ASSUME NEW m \in Machine, Edits(m), NEW x, store' = [store EXCEPT ![m] = x] PROVE FreshInv'
  <2>1. UNCHANGED <<doc, skipped>> /\ fresh' = (IF fresh = m THEN None ELSE fresh)
    BY <1>2 DEF Edits
  <2>2. \A o \in Machine : o # m => store'[o] = store[o]
    BY <1>2 DEF ImportInv
  <2> QED BY <2>1, <2>2, <1>1 DEF FreshInv
<1>3. ASSUME NEW m \in Machine, NEW kind, NEW r, Form(m, kind, r) PROVE FreshInv'
  BY <1>2, <1>3 DEF Form
<1>4. ASSUME NEW m \in Machine PROVE EditCredential(m) \/ EditGroup(m) \/ EditHost(m) => FreshInv'
  BY <1>3 DEF EditCredential, EditGroup, EditHost
<1>5. ASSUME NEW m \in Machine, EditForward(m) PROVE FreshInv'
  BY <1>2, <1>5 DEF EditForward
<1>6. CASE Strike
  BY <1>6 DEF Strike, FreshInv
<1>7. ASSUME NEW m \in Machine, RunExport(m) PROVE FreshInv'
  BY <1>7 DEF RunExport, FreshInv
<1>8. ASSUME NEW m \in Machine, RunImport(m) PROVE FreshInv'
  <2>1. CASE fresh' = None
    BY <2>1 DEF FreshInv
  <2>2. CASE /\ ~ Refused(doc, store[m], next[m])
             /\ store' = [store EXCEPT ![m] = After2(doc, store[m], next[m])]
             /\ fresh' = m /\ doc' = doc /\ skipped' = Merge(doc, store[m], next[m]).skips
    <3> DEFINE a == After2(doc, store[m], next[m])
    <3>1. IsSo(doc, a, Merge(doc, store[m], next[m]).skips) /\ ~ Unknown(doc, a)
      BY <2>2, SoAfter DEF ImportInv
    <3>2. store'[m] = a
      BY <2>2 DEF ImportInv
    <3> HIDE DEF a
    <3> QED BY <2>2, <3>1, <3>2 DEF FreshInv
  <2> QED BY <2>1, <2>2, <1>8, ImportSteps
<1>9. CASE UNCHANGED importVars
  BY <1>1, <1>9 DEF importVars
<1> QED BY <1>4, <1>5, <1>6, <1>7, <1>8, <1>9 DEF ImportNext, Edit, Command

LEMMA FreshInvAlways == ImportSpec => []FreshInv
<1>1. ImportInit => FreshInv
  BY DEF ImportInit, FreshInv
<1> QED BY <1>1, FreshInvKept, ImportInvAlways, PTL DEF ImportSpec

\* A machine takes back what it exported, and that changes nothing.
LEMMA OwnExport ==
    ASSUME NEW st, NEW n, Listed(st, n)
    PROVE  ~ Refused(Export(st), st, n) /\ Changes(Merge(Export(st), st, n)) = {}
<1> DEFINE d == Export(st)
<1>1. Document(d)
  BY Exported
<1>2. IsSo(d, st, {})
  BY DEF IsSo, Says
<1>3. Apart(st.groups) /\ Apart(st.creds)
  BY DEF Listed, Resolved
<1>4. /\ \A x \in d.groups \cup d.hosts : \E id : x.cred = NameOf(st.creds, id)
      /\ \A g \in d.groups : \E id : g.parent = NameOf(st.groups, id)
  BY DEF Export, ByName
<1>5. ~ Unknown(d, st)
  BY <1>3, <1>4, IdBack DEF Unknown, ParentsKnown
<1> HIDE DEF d
<1>6. ~ Refused(d, st, n) /\ Changes(Merge(d, st, n)) = {}
  BY <1>1, <1>2, <1>5, Again
<1> QED BY <1>6 DEF d

\* An import is what it says, for any names and however many machines: what the document
\* says is so until something is edited, nothing that was there is blanked, and neither a
\* second import of it nor one of the machine's own export changes anything (merge.go:58).
THEOREM ImportIsWhatItSaysAlways == ImportSpec => ImportIsWhatItSays
<1>1. ImportInv /\ FreshInv => ImportedIsSo
  BY DEF FreshInv, ImportedIsSo
<1>2. ImportInv /\ FreshInv => AgainChangesNothing
  BY Again DEF ImportInv, FreshInv, AgainChangesNothing
<1>3. ImportInv => TakenBack
  BY OwnExport DEF ImportInv, TakenBack
<1> QED BY <1>1, <1>2, <1>3, ImportInvAlways, FreshInvAlways, NothingIsBlankedAlways, PTL DEF ImportIsWhatItSays

\* Every list holds records of its kind, of ids that its machine has given, and the
\* document holds what a document may.
THEOREM ImportTypesAlways == ImportSpec => []ImportTypes
<1> DEFINE Counts == edits \in 0..MaxEdits /\ imports \in 0..MaxImports /\ skipped \subseteq Hosts
<1>1. ImportInit => Counts
  BY ImportAssumption DEF ImportAssumption, ImportInit
<1>2. ImportInv /\ Counts /\ [ImportNext]_importVars => Counts'
  <2> SUFFICES ASSUME ImportInv, Counts, [ImportNext]_importVars PROVE Counts'
    OBVIOUS
  <2>1. ASSUME edits < MaxEdits, edits' = edits + 1, UNCHANGED <<imports, skipped>> PROVE Counts'
    BY <2>1, ImportAssumption DEF ImportAssumption
  <2>2. ASSUME NEW m \in Machine, NEW kind, NEW r, Form(m, kind, r) PROVE Counts'
    BY <2>1, <2>2 DEF Form, Edits
  <2>3. ASSUME NEW m \in Machine PROVE EditCredential(m) \/ EditGroup(m) \/ EditHost(m) => Counts'
    BY <2>2 DEF EditCredential, EditGroup, EditHost
  <2>4. ASSUME NEW m \in Machine, EditForward(m) PROVE Counts'
    BY <2>1, <2>4 DEF EditForward, Edits
  <2>5. CASE Strike
    BY <2>1, <2>5 DEF Strike
  <2>6. ASSUME NEW m \in Machine, RunExport(m) PROVE Counts'
    BY <2>6 DEF RunExport
  <2>7. ASSUME NEW m \in Machine, RunImport(m) PROVE Counts'
    <3>1. edits' = edits /\ imports' \in 0..MaxImports
      BY <2>7, ImportAssumption DEF RunImport, ImportAssumption
    <3>2. ~ Refused(doc, store[m], next[m]) => Merge(doc, store[m], next[m]).skips \subseteq Hosts
      <4>1. ~ Refused(doc, store[m], next[m]) => Hosts2(doc, store[m], next[m]) \subseteq HostRec(After(doc, store[m], next[m]))
        BY HostsMerged DEF ImportInv
      <4>2. Merge(doc, store[m], next[m]).skips \subseteq NamesIn(Hosts2(doc, store[m], next[m]))
        BY DEF Merge, Hosts2, Groups2, AllCreds, Creds2, GivenIds, NamesIn
      <4> QED BY <4>1, <4>2 DEF NamesIn, HostRec
    <3> QED BY <3>1, <3>2, <2>7, ImportSteps
  <2>8. CASE UNCHANGED importVars
    BY <2>8 DEF importVars
  <2> QED BY <2>3, <2>4, <2>5, <2>6, <2>7, <2>8 DEF ImportNext, Edit, Command
<1>3. ImportInv /\ FreshInv /\ Counts => ImportTypes
  BY DEF ImportInv, FreshInv, Listed, Document, ImportTypes
<1> HIDE DEF Counts
<1> QED BY <1>1, <1>2, <1>3, ImportInvAlways, FreshInvAlways, PTL DEF ImportSpec

=============================================================================
