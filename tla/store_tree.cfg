SPECIFICATION Spec
CONSTANTS
  g1 = g1
  g2 = g2
  g3 = g3
  g4 = g4
  h1 = h1
  h2 = h2
  c1 = c1
  f1 = f1
  GroupId = {g1, g2, g3}
  HostId = {h1}
  CredId = {}
  ForwardId = {f1}
  SnippetId = {}
  GroupNames = {gn1, gn2, gn3}
  HostNames = {hn1}
  CredNames = {}
  SnippetNames = {}
  JumpNames = {}
  MaxJumpHops = 8
  MaxSessions = 0
  Imports <- CrossedImports
  Nil = Nil
INVARIANT GroupsFormAForest
INVARIANT RulesHaveHosts
PROPERTY DeletingAGroupKeepsTheRest
