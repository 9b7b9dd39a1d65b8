------------------------------ MODULE MCStore ------------------------------
(***************************************************************************)
(* Store on small instances.  Each cfg keeps the kinds of record its       *)
(* question is about and leaves the others' id sets empty.                 *)
(***************************************************************************)
EXTENDS Store, TLC

CONSTANTS g1, g2, g3, g4, h1, h2, c1, f1

\* Ids and names of a kind are interchangeable: nothing tells two apart.
Symmetry == Permutations(GroupId) \cup Permutations(HostId)
              \cup Permutations(GroupNames) \cup Permutations(HostNames)
              \cup Permutations(ForwardId) \cup Permutations(CredId)
              \cup Permutations(CredNames) \cup Permutations(SnippetId)
              \cup Permutations(SnippetNames)

-----------------------------------------------------------------------------
(* Two imports planned from the same reading of the store, each bringing a *)
(* group under the other's, a host in it, and a rule for a host.           *)

NoPlan == [groups   |-> [i \in GroupId |-> Nil],   hosts |-> [i \in HostId |-> Nil],
           forwards |-> [i \in ForwardId |-> Nil], creds |-> [i \in CredId |-> Nil],
           snippets |-> [i \in SnippetId |-> Nil]]
AGroup(n, p) == [name |-> n, parent |-> p, jump |-> Nil, cred |-> Nil]
AHost(n, g)  == [name |-> n, group |-> g, jump |-> Nil, cred |-> Nil]

NoImports == {}
CrossedImports ==
    LET n1 == CHOOSE n \in GroupNames : TRUE
        m1 == CHOOSE n \in HostNames : TRUE
    IN  {[NoPlan EXCEPT !.groups = (g1 :> AGroup(n1, g2)) @@ @,
                        !.hosts = (h1 :> AHost(m1, g1)) @@ @],
         [NoPlan EXCEPT !.groups = (g2 :> AGroup(n1, g1)) @@ @,
                        !.forwards = (f1 :> [host |-> h1]) @@ @],
         [NoPlan EXCEPT !.groups = (g1 :> AGroup(n1, g2) @@ g2 :> AGroup(n1, Nil)) @@ @,
                        !.forwards = (f1 :> [host |-> h1]) @@ @]}

-----------------------------------------------------------------------------
(* Stores an Omassh can be opened on, other than the empty one.            *)

StoredInit(gs, hs) ==
    /\ groups = gs
    /\ hosts = hs
    /\ creds = NoPlan.creds /\ forwards = NoPlan.forwards /\ snippets = NoPlan.snippets
    /\ stats = [i \in HostId |-> 0]
    /\ minted = {i \in GroupId : Has(gs, i)} \cup {i \in HostId : Has(hs, i)}

\* What a build from before the check may have left: g1 and g2 each under the
\* other, g3 below them and g4 below that.
Loop(names) == g1 :> AGroup(names[1], g2) @@ g2 :> AGroup(names[2], g1)
            @@ g3 :> AGroup(names[3], g1) @@ g4 :> AGroup(names[4], g3)
LegacyInit == \E names \in [1..4 -> GroupNames] :
                  /\ \A i, j \in 1..4 : i # j => names[i] # names[j]
                  /\ StoredInit(Loop(names), NoPlan.hosts)
LegacySpec == LegacyInit /\ [][Next]_vars
=============================================================================
