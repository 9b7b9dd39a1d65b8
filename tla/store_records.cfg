SPECIFICATION Spec
CONSTANTS
  g1 = g1
  g2 = g2
  g3 = g3
  g4 = g4
  h1 = h1
  h2 = h2
  c1 = c1
  f1 = f1
  GroupId = {g1}
  HostId = {h1, h2}
  CredId = {c1}
  ForwardId = {}
  SnippetId = {s1}
  GroupNames = {gn1}
  HostNames = {hn1, hn2}
  CredNames = {cn1}
  SnippetNames = {sn1}
  JumpNames = {hn1, hn2, elsewhere}
  MaxJumpHops = 8
  MaxSessions = 1
  Imports <- NoImports
  Nil = Nil
SYMMETRY Symmetry
INVARIANTS
    NamesAreUnique
    NoHostJumpsThroughItself
PROPERTIES
    DeletedStaysDeleted
