CONSTANTS
    p1 = p1
    p2 = p2
    p3 = p3
    p4 = p4
    first = first
    second = second
    third = third
    Payments <- FourPayments
    NoPayment = NoPayment
    Teacher <- ThreeTeachers
    Grants <- OneGrant
    Limit = 2
    TeacherLimit = 1
    Faults <- OneFaulty
SPECIFICATION Spec
INVARIANTS
    NoPlaceLeftBehind
PROPERTIES
    RespectsLimits
CHECK_DEADLOCK FALSE
