--------------------------- MODULE MCWriteAheadLog ---------------------------
EXTENDS WriteAheadLog, TLC

CONSTANTS c1, c2, c3

TwoConns == {c1, c2}
ThreeConns == {c1, c2, c3}
TwoPages == {1, 2}
FirstOrBoth == {{1}, {1, 2}}
TwoMarks == {1, 2}

Symmetry == Permutations(Conns)
=============================================================================
