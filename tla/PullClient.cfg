\* Three versions and one automerge on two branches.
CONSTANTS
  v1 = v1
  v2 = v2
  v3 = v3
  v4 = v4
  m1 = m1
  trunk = trunk
  side = side
  Versions <- ThreeVersions
  MergeIds <- OneMerge
  Branches <- TwoBranches
  Trunk = trunk
  Root = Root
  None = None
SPECIFICATION Spec
SYMMETRY Symmetry
INVARIANTS TypeOK PulledIsStored
PROPERTIES HeadsApart RepositoryKeepsPromise
