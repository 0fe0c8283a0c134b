SPECIFICATION Spec
CONSTANTS
    p1 = p1
    p2 = p2
    p3 = p3
    first = first
    second = second
    Payments <- ThreePayments
    Teacher <- TwoTeachers
    Limit = 2
    TeacherLimit = 1
    Faults <- AllFaults
INVARIANTS
    UsesCounted
CHECK_DEADLOCK FALSE
