\* A commit beside a rebase.
CONSTANTS
  p1 = p1
  p2 = p2
  v1 = v1
  v2 = v2
  v3 = v3
  trunk = trunk
  side = side
  Procs <- Two
  Ids <- ThreeIds
  Branches <- OneBranch
  Commands <- CommitAndRebase
  Fragile <- NoCommands
  Trunk = trunk
  Root = Root
  Edit = Edit
  None = None
SPECIFICATION Spec
SYMMETRY Symmetry
PROPERTIES CommitBecomesHead
