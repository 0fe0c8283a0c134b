SPECIFICATION Spec
CONSTANTS
    teacher = teacher
    student = student
    Users <- Two
    Moderators <- Teachers
    Removable <- Students
    Modes <- Forcing
    MaxAutoSwitches = 1
    MinReporters = 2
    Window = 0
    Cooldown = 1
    MaxGeneration = 4
INVARIANTS
    CallersNeverAhead
PROPERTIES
    OneMovePerGeneration
    NoAutomaticReturn
    CallersNeverRollBack
    RevokedStayOut
CHECK_DEADLOCK FALSE
