\* Two clients and two committed versions on two branches, under fairness.
CONSTANTS
  c1 = c1
  c2 = c2
  v1 = v1
  v2 = v2
  v3 = v3
  m1 = m1
  trunk = trunk
  side = side
  Clients <- Two
  Versions <- TwoVersions
  MergeIds <- NoMerge
  Branches <- TwoBranches
  Trunk = trunk
  Root = Root
  None = None
SPECIFICATION FairSpec
INVARIANTS TypeOK AcceptedIsStored
PROPERTIES PushEndsUnlessStuck
