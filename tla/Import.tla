--------------------------------- MODULE Import ---------------------------------
(***************************************************************************)
(* Moving a host list between machines as text: internal/portable's        *)
(* Export and Merge, and the commands export and import of                 *)
(* cmd/omassh/main.go.  Each machine has a store with ids of its own; the  *)
(* document they share has names, and is matched by them.                  *)
(*                                                                         *)
(* Names stand for themselves with case and spaces folded (key).  "user"   *)
(* is any field that pick fills in: user, identity, jump, address, port    *)
(* and, taken whole, tags.  Snippets are folded in as credentials are, and *)
(* nothing names them.  The rules against jump loops are in Store.         *)
(***************************************************************************)
EXTENDS Integers, FiniteSets, Functions

CONSTANTS
    Machine,
    Creds, Groups, Hosts, \* names
    Users, Rules,
    MaxEdits,    \* how many records are saved in a form or struck from the document,
    MaxImports,  \* and how many imports there are
    None         \* an empty field

ASSUME ImportAssumption ==
    /\ MaxEdits \in Nat /\ MaxImports \in Nat
    /\ IsFiniteSet(Creds \cup Groups \cup Hosts)
    /\ None \notin Creds \cup Groups \cup Hosts \cup Machine \cup Nat

VARIABLES
    store,    \* each machine's records
    next,     \* and the ids it has not used yet
    doc,      \* the document
    edits, imports,
    fresh,    \* HISTORY: the machine just imported to, with no edit of it or of the document since
    skipped   \* HISTORY: the hosts of that import of which only the credential was another

importVars == <<store, next, doc, edits, imports, fresh, skipped>>

Nothing == [creds |-> {}, groups |-> {}, hosts |-> {}, rules |-> {}]

NamesIn(rs) == {r.name : r \in rs}
IdsIn(rs) == {r.id : r \in rs}
Named(rs, name) == CHOOSE r \in rs : r.name = name
NameOf(rs, id) == IF id \in IdsIn(rs) THEN (CHOOSE r \in rs : r.id = id).name ELSE None
Pick(new, was) == IF new # None THEN new ELSE was

\* No group is its own ancestor.
Acyclic(gs) == \A S \in (SUBSET gs) \ {{}} : \E g \in S : g.parent \notin IdsIn(S)

-----------------------------------------------------------------------------
(* Export.                                                                 *)

ByName(rs, id) == NameOf(rs, id)

Export(st) ==
    [creds  |-> {[name |-> c.name, user |-> c.user] : c \in st.creds},
     groups |-> {[name |-> g.name, user |-> g.user, parent |-> ByName(st.groups, g.parent),
                  cred |-> ByName(st.creds, g.cred)] : g \in st.groups},
     hosts  |-> {[name |-> h.name, user |-> h.user, group |-> ByName(st.groups, h.group),
                  cred |-> ByName(st.creds, h.cred),
                  rules |-> {r.rule : r \in {x \in st.rules : x.host = h.id}}] : h \in st.hosts}]

-----------------------------------------------------------------------------
(* Merge.                                                                  *)

GroupsNamed(d) == NamesIn(d.groups) \cup ({h.group : h \in d.hosts} \ {None})

\* The groups there are before any host is read.
ParentsKnown(d, st) == NamesIn(st.groups) \cup NamesIn(d.groups) \cup {None}

\* The names it brings, and an id for each.
Brought(d, st) == ({"cred"} \X (NamesIn(d.creds) \ NamesIn(st.creds)))
            \cup ({"group"} \X (GroupsNamed(d) \ NamesIn(st.groups)))
            \cup ({"host"} \X (NamesIn(d.hosts) \ NamesIn(st.hosts)))
\* A mistake: beginning at the one last used.
UsedIDs(ns, n) == CHOOSE f \in [ns -> (n - 1)..(n + Cardinality(ns) - 2)] : IsInjective(f)
NewIDs(ns, n) == CHOOSE f \in [ns -> n..(n + Cardinality(ns) - 1)] : IsInjective(f)

\* A mistake: what the document leaves empty, emptied.
AsWritten(new, was) == new
Filled(new, was) == Pick(new, was)

Was(rs, name, blank) == IF name \in NamesIn(rs) THEN Named(rs, name) ELSE blank

MergedCreds(d, st, ids) ==
    {LET was == Was(st.creds, c.name, [id |-> ids[<<"cred", c.name>>], name |-> c.name, user |-> None])
     IN  [was EXCEPT !.user = Filled(c.user, @)] : c \in d.creds}

\* The groups declared, and those that only a host names.
Declared(d, st, ids) ==
    {Was(st.groups, n, [id |-> ids[<<"group", n>>], name |-> n, user |-> None, parent |-> None, cred |-> None])
        : n \in GroupsNamed(d)}
IdOf(rs, name) == IF name = None THEN None ELSE Named(rs, name).id
MergedGroups(d, st, ids, creds) ==
    LET gs == Declared(d, st, ids)
        all == gs \cup st.groups
        Into(g, in) == [g EXCEPT !.user = Filled(in.user, @), !.cred = Pick(IdOf(creds, in.cred), @),
                                 !.parent = Pick(IdOf(all, in.parent), @)]
    IN  {IF g.name \in NamesIn(d.groups) THEN Into(g, Named(d.groups, g.name)) ELSE g : g \in gs}

MergedHosts(d, st, ids, creds, groups) ==
    {LET was == Was(st.hosts, h.name, [id |-> ids[<<"host", h.name>>], name |-> h.name, user |-> None,
                                       group |-> None, cred |-> None])
     IN  [was EXCEPT !.user = Filled(h.user, @), !.group = Pick(IdOf(groups, h.group), @),
                     !.cred = Pick(IdOf(creds, h.cred), @)] : h \in d.hosts}

\* A mistake: two rules told apart by what they bind alone, here not at all.
OneOfItsKind(r, rs) == \E x \in rs : x.host = r.host
\* A mistake: rules added, whatever is here.
NeverHere(r, rs) == FALSE
\* ruleKey: a rule is the one that is here if all of it is.
IsHere(r, rs) == r \in rs
RulesOf(d, hosts) == UNION {{[host |-> Named(hosts, h.name).id, rule |-> r] : r \in h.rules} : h \in d.hosts}

\* A mistake: every host named written again.
NeverSame(a, b) == FALSE
\* sameHost.
SameHost(a, b) == a.user = b.user /\ a.group = b.group

\* A mistake: a group that only a host names given an id and not written.
DeclaredOnly(groups, d) == {g \in groups : g.name \in NamesIn(d.groups)}
\* addGroup.
Queued(groups, d) == groups

\* All that a plan holds: the records to write, with their ids, and those that match already.
Merge(d, st, n) ==
    LET ids    == NewIDs(Brought(d, st), n)
        creds  == MergedCreds(d, st, ids)
        allc   == creds \cup {c \in st.creds : c.name \notin NamesIn(creds)}
        groups == MergedGroups(d, st, ids, allc)
        hosts  == MergedHosts(d, st, ids, allc, groups)
        isNew(h) == h.name \notin NamesIn(st.hosts)
    IN  [creds  |-> creds \ st.creds,
         groups |-> Queued(groups, d) \ st.groups,
         hosts  |-> {h \in hosts : isNew(h) \/ ~ SameHost(h, Named(st.hosts, h.name))},
         rules  |-> {r \in RulesOf(d, hosts) : ~ IsHere(r, st.rules)},
         tree   |-> groups \cup {g \in st.groups : g.name \notin NamesIn(groups)},
         used   |-> Cardinality(Brought(d, st)),
         skips  |-> {h.name : h \in {x \in hosts : ~ isNew(x) /\ SameHost(x, Named(st.hosts, x.name))
                                                  /\ x # Named(st.hosts, x.name)}}]

\* What Merge refuses, before any of it is applied.
Unknown(d, st) ==
    \/ \E x \in d.groups \cup d.hosts : x.cred \notin NamesIn(d.creds) \cup NamesIn(st.creds) \cup {None}
    \/ \E g \in d.groups : g.parent \notin ParentsKnown(d, st)
Refused(d, st, n) == Unknown(d, st) \/ ~ Acyclic(Merge(d, st, n).tree)
Changes(p) == p.creds \cup p.groups \cup p.hosts \cup p.rules

\* PutAll: records written over those of their id.
Over(rs, new) == {r \in rs : r.id \notin IdsIn(new)} \cup new
Apply(st, p) == [creds |-> Over(st.creds, p.creds), groups |-> Over(st.groups, p.groups),
                 hosts |-> Over(st.hosts, p.hosts), rules |-> st.rules \cup p.rules]

-----------------------------------------------------------------------------
(* The commands, and the forms between them.                               *)

\* omassh export: the document is written anew.
RunExport(m) ==
    /\ store[m] # Nothing
    /\ doc' = Export(store[m]) /\ doc' # doc
    /\ fresh' = None
    /\ UNCHANGED <<store, next, edits, imports, skipped>>

\* omassh import: all of it, in one transaction, or none.
RunImport(m) ==
    /\ imports < MaxImports /\ imports' = imports + 1
    /\ doc.creds \cup doc.groups \cup doc.hosts # {}
    /\ IF Refused(doc, store[m], next[m])
       THEN fresh' = None /\ UNCHANGED <<store, next, skipped>>
       ELSE LET p == Merge(doc, store[m], next[m])
            IN  /\ store' = [store EXCEPT ![m] = Apply(@, p)]
                /\ next' = [next EXCEPT ![m] = @ + p.used]
                /\ skipped' = p.skips /\ fresh' = m
    /\ UNCHANGED <<doc, edits>>

Edits(m) == /\ edits < MaxEdits /\ edits' = edits + 1
            /\ fresh' = (IF fresh = m THEN None ELSE fresh)
            /\ UNCHANGED <<doc, imports, skipped>>

\* A form saved: a record of a new name, or the one of that name changed.
OwnID(m, kind, name) ==
    IF name \in NamesIn(store[m][kind]) THEN Named(store[m][kind], name).id ELSE next[m]
Form(m, kind, r) ==
    /\ r \notin store[m][kind]
    /\ store' = [store EXCEPT ![m][kind] = Over(@, {r})]
    /\ next' = [next EXCEPT ![m] = IF r.id = @ THEN @ + 1 ELSE @]
    /\ Edits(m)
EditCredential(m) ==
    \E c \in Creds, u \in Users \cup {None} :
       Form(m, "creds", [id |-> OwnID(m, "creds", c), name |-> c, user |-> u])
EditGroup(m) ==
    \E g \in Groups, u \in Users \cup {None}, up \in IdsIn(store[m].groups) \cup {None},
       c \in IdsIn(store[m].creds) \cup {None} :
       /\ Form(m, "groups", [id |-> OwnID(m, "groups", g), name |-> g, user |-> u, parent |-> up, cred |-> c])
       /\ Acyclic(store'[m].groups)
EditHost(m) ==
    \E h \in Hosts, u \in Users \cup {None}, g \in IdsIn(store[m].groups) \cup {None},
       c \in IdsIn(store[m].creds) \cup {None} :
       Form(m, "hosts", [id |-> OwnID(m, "hosts", h), name |-> h, user |-> u, group |-> g, cred |-> c])
EditForward(m) ==
    \E h \in store[m].hosts, r \in Rules :
       /\ [host |-> h.id, rule |-> r] \notin store[m].rules
       /\ store' = [store EXCEPT ![m].rules = @ \cup {[host |-> h.id, rule |-> r]}]
       /\ UNCHANGED next /\ Edits(m)

\* Somebody strikes a record out of the document, or empties a field of it.
Strike ==
    /\ edits < MaxEdits /\ edits' = edits + 1
    /\ \E kind \in {"creds", "groups", "hosts"} : \E r \in doc[kind] :
          \/ doc' = [doc EXCEPT ![kind] = @ \ {r}]
          \/ r.user # None /\ doc' = [doc EXCEPT ![kind] = (@ \ {r}) \cup {[r EXCEPT !.user = None]}]
    /\ fresh' = None
    /\ UNCHANGED <<store, next, imports, skipped>>

ImportInit ==
    /\ store = [m \in Machine |-> Nothing] /\ next = [m \in Machine |-> 1]
    /\ doc = Export(Nothing) /\ edits = 0 /\ imports = 0 /\ fresh = None /\ skipped = {}

Edit == \E m \in Machine : EditCredential(m) \/ EditGroup(m) \/ EditHost(m) \/ EditForward(m)
Command == \E m \in Machine : RunExport(m) \/ RunImport(m)
ImportNext == Edit \/ Strike \/ Command
ImportSpec == ImportInit /\ [][ImportNext]_importVars

-----------------------------------------------------------------------------
(* Correctness.                                                            *)

Field == Users \cup {None}
Upto(n) == 1..(n - 1)
CredRec(n)  == [id : Upto(n), name : Creds, user : Field]
GroupRec(n) == [id : Upto(n), name : Groups, user : Field, parent : Upto(n) \cup {None}, cred : Upto(n) \cup {None}]
HostRec(n)  == [id : Upto(n), name : Hosts, user : Field, group : Upto(n) \cup {None}, cred : Upto(n) \cup {None}]
RuleRec(n)  == [host : Upto(n), rule : Rules]
Stores(n)   == [creds : SUBSET CredRec(n), groups : SUBSET GroupRec(n), hosts : SUBSET HostRec(n), rules : SUBSET RuleRec(n)]

CredIn  == [name : Creds, user : Field]
GroupIn == [name : Groups, user : Field, parent : Groups \cup {None}, cred : Creds \cup {None}]
HostIn  == [name : Hosts, user : Field, group : Groups \cup {None}, cred : Creds \cup {None}, rules : SUBSET Rules]
Documents == [creds : SUBSET CredIn, groups : SUBSET GroupIn, hosts : SUBSET HostIn]

\* Type correctness: each store holds records of the fields model.go has, of ids it
\* has given, and the document those of portable.go.
ImportTypes ==
    /\ \A m \in Machine : next[m] \in Nat \ {0} /\ store[m] \in Stores(next[m])
    /\ doc \in Documents
    /\ edits \in 0..MaxEdits /\ imports \in 0..MaxImports
    /\ fresh \in Machine \cup {None} /\ skipped \subseteq Hosts

\* Every group, parent and credential a record points at is there, names are
\* unique and no group is its own ancestor, on every machine, in whatever order
\* groups were declared and named (Merge's ensure; merge.go:124).
ReferencesResolve ==
    \A m \in Machine : LET st == store[m] IN
        /\ \A rs \in {st.creds, st.groups, st.hosts} :
              \A a, b \in rs : (a.name = b.name \/ a.id = b.id) => a = b
        /\ \A h \in st.hosts : h.group \in IdsIn(st.groups) \cup {None} /\ h.cred \in IdsIn(st.creds) \cup {None}
        /\ \A g \in st.groups : g.parent \in IdsIn(st.groups) \cup {None} /\ g.cred \in IdsIn(st.creds) \cup {None}
        /\ \A r \in st.rules : r.host \in IdsIn(st.hosts)
        /\ Acyclic(st.groups)

\* Import fills in and corrects; it does not blank things and removes nothing:
\* every record keeps its id, and each of its fields a value (Merge; merge.go:58).
NothingIsBlanked ==
    [][ imports' # imports =>
          \A m \in Machine :
             /\ store[m].rules \subseteq store'[m].rules
             /\ \A kind \in {"creds", "groups", "hosts"} : \A r \in store[m][kind] : \E s \in store'[m][kind] :
                   s.id = r.id /\ s.name = r.name /\ \A f \in DOMAIN r : r[f] # None => s[f] # None ]_importVars

\* What a document says is so once it is imported: the fields, the group, its
\* parent, the rules; and the credential, unless nothing else of the host was to
\* be written (Merge; main.go:464).
Says(in, is, but) == in.name = is.name /\ \A f \in (DOMAIN in) \ but : in[f] \in {None, is[f]}
IsSo(d, st, skips) ==
    LET ex == Export(st) IN
    /\ \A kind \in {"creds", "groups"} : \A in \in d[kind] : \E is \in ex[kind] : Says(in, is, {})
    /\ \A in \in d.hosts : \E is \in ex.hosts :
          /\ Says(in, is, IF in.name \in skips THEN {"rules", "cred"} ELSE {"rules"})
          /\ in.rules \subseteq is.rules
ImportedIsSo == fresh # None => IsSo(doc, store[fresh], skipped)

\* Importing what was just imported changes nothing (Merge; merge.go:63).
AgainChangesNothing ==
    fresh # None => /\ ~ Refused(doc, store[fresh], next[fresh])
                    /\ Changes(Merge(doc, store[fresh], next[fresh])) = {}

\* What a machine exports it takes back, and that changes nothing either
\* (Export; portable.go:196).
TakenBack ==
    \A m \in Machine : LET d == Export(store[m]) IN
        ~ Refused(d, store[m], next[m]) /\ Changes(Merge(d, store[m], next[m])) = {}

-----------------------------------------------------------------------------
(* What the comments say and the code does not do.                         *)

\* merge.go:419, "sameHost compares everything import writes": the credential too.
CredentialIsSo == fresh # None => skipped = {}


\* An import says what it did: what the document says is so, nothing that was here is
\* blanked, and a second import of it, or of the machine's own export, changes nothing.
ImportIsWhatItSays == [](ImportedIsSo /\ AgainChangesNothing /\ TakenBack) /\ NothingIsBlanked
=============================================================================
