\* Two clients, three committed versions and one automerge on one branch.
CONSTANTS
  c1 = c1
  c2 = c2
  v1 = v1
  v2 = v2
  v3 = v3
  m1 = m1
  trunk = trunk
  side = side
  Clients <- Two
  Versions <- ThreeVersions
  MergeIds <- OneMerge
  Branches <- OneBranch
  Trunk = trunk
  Root = Root
  None = None
SPECIFICATION Spec
SYMMETRY Symmetry
INVARIANTS HistoryComplete NothingLost OneHeadAtImport
PROPERTIES VaultKeepsPromise
