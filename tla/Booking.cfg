SPECIFICATION Spec
CONSTANTS
  ann = ann
  bob = bob
  draft = draft
  browser = browser
  Students <- TwoStudents
  Drafts <- OneDraft
  Tabs <- OneTab
  LastDay = 2
  Times = {1}
  Patterns <- SomePatterns
  Weekly <- WeeklyPattern
  Weekday <- Weekdays
  DateShift <- DawnHour
  MaxActs = 3
SYMMETRY Swap
INVARIANTS
  HeldWhileRunning
  NoDoubleBooking
  NothingLeftBehind
PROPERTY StaysCancelled
CHECK_DEADLOCK FALSE
