CONSTANTS
    t1 = t1
    t2 = t2
    t3 = t3
    t4 = t4
    t5 = t5
    t6 = t6
    t7 = t7
    Nodes <- SevenTasks
    Null = Null
    Nil = Nil
    Delays = {0, 3}
    Wrap = 8
SYMMETRY TaskSymmetry
SPECIFICATION Spec
INVARIANTS
    TypeOK
    RedBlack
PROPERTIES
    ImplementsEdf
CHECK_DEADLOCK FALSE
