SPECIFICATION FairSpec
CONSTANTS
    teacher = teacher
    student = student
    Users <- Two
    Moderators <- Teachers
    Removable <- Nobody
    Modes <- JustAuto
    MaxAutoSwitches = 1
    MinReporters = 2
    Window = 0
    Cooldown = 1
    MaxGeneration = 4
INVARIANTS
    AutoSwitchBudget
    EvidenceIsFresh
CHECK_DEADLOCK FALSE
PROPERTIES
    LaggingCallersCatchUp
