\* Two sessions that record, receive and prune the same data in two encodings, as
\* a blob and a file, with failures anywhere.
CONSTANTS
  s1 = s1
  s2 = s2
  a = a
  b = b
  c = c
  None = None
  Sessions <- Two
  Data <- TwoData
  Recordable <- TwoData
  Receivable <- OnlyB
  Erasable <- OnlyA
  Encodings <- TwoRemotes
  Places <- BySize
  Fragile = TRUE
SPECIFICATION Spec
INVARIANTS TypeOK RowsHavePayload KeptIsReadable
SYMMETRY Symmetry
