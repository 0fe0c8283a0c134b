----------------------------- MODULE MCBooking -----------------------------
EXTENDS Booking, TLC

CONSTANTS ann, bob, draft, browser

TwoStudents == {ann, bob}
OneDraft == {draft}
OneTab == {browser}
Weekdays == <<1, 2>>
SomePatterns == {{1, 2}, {2}}
WeeklyPattern == {{1, 2}}
\* An hour that is still the day before in the server's zone.
DawnHour == <<-1>>
Swap == Permutations(TwoStudents)
=============================================================================
