\* Two clients, two branches, a directory, a file in it and one outside, two locks.
CONSTANTS
  c1 = c1
  c2 = c2
  trunk = trunk
  side = side
  r1 = r1
  Client <- TwoClients
  Branch <- TwoBranches
  AllBranches = AllBranches
  Path <- Paths
  Full = ""
  Root = "/"
  Directory <- Directories
  PrefixesOf <- TextPrefixes
  Record <- OneRecord
  PathOf <- FileOf
  Target <- Targets
  MaxLocks = 2
  MaxVersions = 2
SPECIFICATION Spec
SYMMETRY Symmetry
INVARIANTS TypeOK LocksExclude NeverBlockedBySelf
PROPERTIES LockedPathsKept NoTheftUnasked
