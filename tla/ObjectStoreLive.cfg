\* Two sessions that record, receive and erase, under fairness.
CONSTANTS
  s1 = s1
  s2 = s2
  a = a
  b = b
  c = c
  None = None
  Sessions <- Two
  Data <- TwoData
  Recordable <- OnlyA
  Receivable <- OnlyB
  Erasable <- OnlyB
  Encodings <- OneRemote
  Places <- AllPlaces
  Fragile = FALSE
SPECIFICATION FairSpec
PROPERTIES CompleteEnds
