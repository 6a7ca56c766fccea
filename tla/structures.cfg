CONSTANTS
    Keys = {1, 2, 3, 4, 5, 6, 7, 8, 9}
    NULL = NULL
    Freed = Freed
    Values = {m1, m2}
    Timers = {f1, f2, f3}
    Users = {u1, u2}
    Nodes = {n1, n2, n3, n4}
    Names = {"a"}
    Dotted = {"a"}
    MaxNodes = 4
    MaxDepth = 2
    MaxHeld = 1
    Slots = {x, y}
    MaxBlocks = 3
    MaxLength = 2
    MaxTexts = 10
    MaxItems = 2
SPECIFICATION StructuresSpec
SYMMETRY Symmetry
INVARIANTS EachTypeOK RedBlack PendingInOrder NothingLost  OwnedOnce FreedOnce
PROPERTIES ImplementsMap TimerHasOneUser
CHECK_DEADLOCK FALSE
