SPECIFICATION Spec
CONSTANTS
    Messages <- MCMessages
    Cells <- MCCells
    Null = Null
    Margin = 1
    MaxInt = 9
    LongMax = 3
    MaxTime = 5
    MaxAccept = 2
INVARIANTS
    HeapIsList
PROPERTIES
    Implements
    FewDead
