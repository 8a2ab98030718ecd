\* Two clients and a vault, one connection each.
CONSTANTS
  a = a
  b = b
  v = v
  s1 = s1
  s2 = s2
  n1 = n1
  n2 = n2
  Clients <- Two
  Vault = v
  Writers <- Two
  Sessions <- OneEach
  Owner <- OwnerOneEach
  Names <- TwoNames
  First = n1
  Answers <- AskedToKeep
  MaxEntries = 3
  MaxVersion = 1
  None = None
SPECIFICATION Spec
INVARIANTS TypeOK TipIsLast NothingMissing
PROPERTIES ImportDelivers HeadsSurvive
