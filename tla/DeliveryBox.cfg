\* Two characters send to each other and to themselves.
CONSTANTS
    Player = {p1, p2}
    Kind = {k}
    Cells = 2
    Capacity = 1
    Stock = 1
    SlotWidth = 256
    MaxSends = 3
    AH = AH
SYMMETRY Symmetry
SPECIFICATION Spec
INVARIANT TypeOK
INVARIANT Conserved
INVARIANT PendingIsQueued
INVARIANT CopyIsTable
INVARIANT QueueInOrder
