\* Two processes, all commands but rebase, that can die anywhere.
CONSTANTS
  p1 = p1
  p2 = p2
  v1 = v1
  v2 = v2
  v3 = v3
  trunk = trunk
  side = side
  Procs <- Two
  Ids <- TwoIds
  Branches <- OneBranch
  Commands <- AllButRebase
  Fragile <- AllButRebase
  Trunk = trunk
  Root = Root
  Edit = Edit
  None = None
SPECIFICATION Spec
SYMMETRY Symmetry
INVARIANTS TypeOK DataStored MergeRecorded
PROPERTIES UnforcedKeepsHeads CommitBecomesHead RepositoryKeepsPromise
