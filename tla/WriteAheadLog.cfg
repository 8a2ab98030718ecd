\* Two connections, two transactions that write one or two pages, failures
\* anywhere; checkpoints may overrun a restart of the log, and what the code keeps is
\* asked until one has (slips).
CONSTANTS
  c1 = c1
  c2 = c2
  c3 = c3
  Conns <- TwoConns
  Pages <- TwoPages
  Changes <- FirstOrBoth
  Marks <- TwoMarks
  MaxTx = 2
  None = None
SPECIFICATION Spec
SYMMETRY Symmetry
INVARIANTS TypeOK
PROPERTIES StoreIsKept
