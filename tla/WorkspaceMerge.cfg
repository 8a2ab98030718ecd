\* One process, all commands, three versions on two branches.
CONSTANTS
  p1 = p1
  p2 = p2
  v1 = v1
  v2 = v2
  v3 = v3
  trunk = trunk
  side = side
  Procs <- One
  Ids <- ThreeIds
  Branches <- TwoBranches
  Commands <- AllCommands
  Fragile <- AllCommands
  Trunk = trunk
  Root = Root
  Edit = Edit
  None = None
SPECIFICATION Spec
SYMMETRY Symmetry
INVARIANTS TipStored
PROPERTIES RepositoryKeepsPromise
