\* Two sessions under RunLocked and one that also bypasses it.
CONSTANTS
  s1 = s1
  s2 = s2
  s3 = s3
  Sessions <- AllSessions
  Direct <- OneDirect
  None = None
SPECIFICATION FairSpec
INVARIANTS TypeOK Exclusion WritesOnLatest
PROPERTIES StaleOnlyByDirect ServedUnlessStuck
