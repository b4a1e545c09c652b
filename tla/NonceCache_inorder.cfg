SPECIFICATION SpecInOrder
CONSTANTS
    Messages <- MCInOrderMessages
    Margin = 1
    MaxInt = 9
    LongMax = 3
    MaxTime = 6
    MaxAccept = 3
INVARIANTS
    TypeOK
    RefusedIsRepeat
    Sorted
    RemembersOpen
    AtMostTwice
