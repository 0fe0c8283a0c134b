------------------------------ MODULE Booking ------------------------------
(***************************************************************************)
(* The calendar of one teacher: students book a permanent time through the *)
(* teacher's page and cancel it, while the teacher creates, moves, edits,  *)
(* cancels, restores, skips and deletes lessons.                           *)
(*                                                                         *)
(* A booking runs in one transaction that locks the teacher's row from     *)
(* before it reads the busy time until its lessons are written             *)
(* (availability_service.py).  Nothing the teacher does takes that lock:   *)
(* each of those requests checks for conflicts, or reads the lesson, in    *)
(* one step and writes in a later one (views.py, schedule_service.py,      *)
(* lesson_lifecycle.py).  Lessons last one cell <<day, time>> and travel   *)
(* takes no time; the dates of a series are a set of days.                 *)
(*                                                                         *)
(* Days are the teacher's.  The server has a zone of its own, in which an  *)
(* early or a late hour may belong to the day before or to the next one,   *)
(* and a series is cancelled from a date on by the server's dates.         *)
(***************************************************************************)
EXTENDS Integers

CONSTANTS
  Students,    \* requests to book, one series each
  Drafts,      \* series the teacher creates
  Tabs,        \* requests of the teacher that run at the same time
  LastDay,     \* bound: the calendar ends here
  Times,       \* the times of day on offer
  Patterns,    \* the sets of days a series may have
  Weekly,      \* those of them that are weekly
  Weekday,     \* the weekday of each day
  DateShift,   \* by time: the server's date of a lesson (TIME_ZONE) less its day
  MaxActs      \* bound: requests the teacher makes

Days == 1..LastDay
Series == Students \union Drafts
Lessons == Series \X Days            \* a lesson is named by the date it was made for
Cells == Days \X Times

ASSUME BookingAssumption ==
  /\ Students \intersect Drafts = {}
  /\ LastDay \in Nat \ {0}
  /\ 0 \notin Times
  /\ Patterns \subseteq SUBSET Days
  /\ \A dates \in Patterns : \E d \in dates : \A e \in dates : d <= e
  /\ Weekly \subseteq Patterns
  /\ DateShift \in [Times -> {-1, 0, 1}]
  /\ MaxActs \in Nat
  /\ "nobody" \notin Students

VARIABLES
  today,
  series,      \* ScheduleEventSeries and the TeacherBooking made with it
  lesson,      \* ScheduleEvent
  holder,      \* the booking that holds the teacher's row
  ask,         \* what each student's request has read
  tab,         \* what each request of the teacher has read
  acts,        \* requests the teacher has made (bounded)
  placed,      \* history: lessons that stand where the teacher has put them
  late         \* history: lessons the teacher touched after the student began to cancel

vars == <<today, series, lesson, holder, ask, tab, acts, placed, late>>

-----------------------------------------------------------------------------
NoSeries == [dates |-> {}, time |-> 0, excluded |-> {}, active |-> FALSE,
             booking |-> "none"]
NoLesson == [at |-> <<0, 0>>, status |-> "none"]
NewAsk == [pc |-> "new", dates |-> {}, time |-> 0, occupied |-> {}, listed |-> {},
           from |-> 0]
Refused == [NewAsk EXCEPT !.pc = "refused"]
Idle == [op |-> "idle", lesson |-> <<>>, to |-> <<>>, row |-> NoLesson,
         todo |-> {}, dates |-> {}]

Live(l) == lesson[l].status \in {"planned", "moved"}
Inactive(l) == lesson[l].status \in {"cancelled", "skipped"}
Day(l) == lesson[l].at[1]
First(dates) == CHOOSE d \in dates : \A e \in dates : d <= e
Recurs(dates) == \A d \in dates : dates # {d}

\* A restoration holds the lesson's row from its check to its write.
RowLocked(l) == \E t \in Tabs : tab[t].op = "restore" /\ tab[t].lesson = l

\* A date of a series counts as made when a lesson of the series is on it now,
\* whatever date that lesson was made for; a live lesson left out of the query
\* does not count.
Made(s, day, except) ==
  \E d \in Days : /\ lesson[s, d].status # "none"
                  /\ Day(<<s, d>>) = day
                  /\ ~(<<s, d>> \in except /\ Live(<<s, d>>))

Busy(cell, except) ==
  \/ \E l \in Lessons \ except : Live(l) /\ lesson[l].at = cell
  \/ \E s \in Series : /\ series[s].active
                       /\ Recurs(series[s].dates)
                       /\ cell[1] \in series[s].dates \ series[s].excluded
                       /\ cell[2] = series[s].time
                       /\ ~Made(s, cell[1], except)

\* The unique constraint on active weekly bookings: weekday and start time.
SlotKey(b) == <<Weekday[First(ask[b].dates)], ask[b].time>>
SlotTaken(b) ==
  /\ ask[b].dates \in Weekly
  /\ \E c \in Students \ {b} : /\ series[c].booking = "active"
                               /\ ask[c].dates \in Weekly
                               /\ SlotKey(c) = SlotKey(b)

NewLessons(s, dates, time) ==
  [l \in Lessons |-> IF l[1] = s /\ l[2] \in dates
                     THEN [at |-> <<l[2], time>>, status |-> "planned"]
                     ELSE lesson[l]]

Cancelled(which) ==
  [l \in Lessons |-> IF l \in which /\ lesson[l].status # "none"
                     THEN [lesson[l] EXCEPT !.status = "cancelled"]
                     ELSE lesson[l]]

\* The date of a lesson in the server's zone, by which a query filters it.
ServerDate(l) == Day(l) + DateShift[lesson[l].at[2]]

\* Mutant: a moved lesson is forgotten.
PlannedFrom(s, date) ==
  {l \in Lessons : l[1] = s /\ lesson[l].status = "planned" /\ ServerDate(l) >= date}

\* Lessons of a series that a cancellation of the series takes along. The date is
\* one of the teacher's calendar, the lessons are filtered by the server's.
LiveFrom(s, date) == {l \in Lessons : l[1] = s /\ Live(l) /\ ServerDate(l) >= date}

\* The teacher has put the lesson where it is.
Touch(l) ==
  /\ placed' = placed \union {l}
  /\ late' = IF l[1] \in Students /\ ask[l[1]].pc \in {"cancelling", "over"}
             THEN late \union {l} ELSE late

-----------------------------------------------------------------------------
Init ==
  /\ today = 1
  /\ series = [s \in Series |-> NoSeries]
  /\ lesson = [l \in Lessons |-> NoLesson]
  /\ holder = "nobody"
  /\ ask = [b \in Students |-> NewAsk]
  /\ tab = [t \in Tabs |-> Idle]
  /\ acts = 0
  /\ placed = {}
  /\ late = {}

\* A day passes.
Tick ==
  /\ today < LastDay
  /\ today' = today + 1
  /\ UNCHANGED <<series, lesson, holder, ask, tab, acts, placed, late>>

-----------------------------------------------------------------------------
(* The student.                                                            *)

\* Mutant: the teacher's row is not locked.
LockNoTeacher(b, dates, time) ==
  /\ ask[b].pc = "new"
  /\ First(dates) >= today
  /\ ask' = [ask EXCEPT ![b] = [@ EXCEPT !.pc = "locked", !.dates = dates,
                                         !.time = time]]
  /\ UNCHANGED <<today, series, lesson, holder, tab, acts, placed, late>>

\* book_slot: lock the link, the student and the teacher; the slot is on offer.
Lock(b, dates, time) ==
  /\ ask[b].pc = "new"
  /\ holder = "nobody"
  /\ First(dates) >= today
  /\ holder' = b
  /\ ask' = [ask EXCEPT ![b] = [@ EXCEPT !.pc = "locked", !.dates = dates,
                                         !.time = time]]
  /\ UNCHANGED <<today, series, lesson, tab, acts, placed, late>>

\* build_booking_preview: the busy time is read and the dates are sorted; a date
\* that is taken is left out only if the student has said so.
Preview(b, available_only) ==
  /\ ask[b].pc = "locked"
  /\ LET occupied == {d \in ask[b].dates : Busy(<<d, ask[b].time>>, {})}
         refused == \/ First(ask[b].dates) \in occupied
                    \/ occupied # {} /\ ~available_only
     IN IF refused
        THEN ask' = [ask EXCEPT ![b] = Refused] /\ holder' = "nobody"
        ELSE /\ ask' = [ask EXCEPT ![b] = [@ EXCEPT !.pc = "read", !.occupied = occupied]]
             /\ UNCHANGED holder
  /\ UNCHANGED <<today, series, lesson, tab, acts, placed, late>>

\* The series, its lessons and the booking are written and the transaction
\* commits, unless the constraint on bookings refuses.
Book(b) ==
  /\ ask[b].pc = "read"
  /\ holder' = "nobody"
  /\ IF SlotTaken(b)
     THEN /\ ask' = [ask EXCEPT ![b] = Refused]
          /\ UNCHANGED <<series, lesson>>
     ELSE /\ ask' = [ask EXCEPT ![b] = [@ EXCEPT !.pc = "booked", !.occupied = {}]]
          /\ series' = [series EXCEPT ![b] =
               [dates |-> ask[b].dates, time |-> ask[b].time,
                excluded |-> ask[b].occupied, active |-> TRUE,
                booking |-> "active"]]
          /\ lesson' = NewLessons(b, ask[b].dates \ ask[b].occupied, ask[b].time)
  /\ UNCHANGED <<today, tab, acts, placed, late>>

\* cancel_student_booking locks the booking and lists the lessons from the date on
\* that it is for the teacher.
BeginCancel(b) ==
  /\ ask[b].pc = "booked"
  /\ series[b].booking = "active"
  /\ ask' = [ask EXCEPT ![b] = [@ EXCEPT !.pc = "cancelling", !.from = today,
                                         !.listed = LiveFrom(b, today)]]
  /\ UNCHANGED <<today, series, lesson, holder, tab, acts, placed, late>>

\* Each listed lesson is locked, read again and cancelled; all of it commits at once.
EndCancel(b) ==
  /\ ask[b].pc = "cancelling"
  /\ \A l \in ask[b].listed : ~RowLocked(l)
  /\ lesson' = Cancelled(ask[b].listed)
  /\ series' = [series EXCEPT ![b] = [@ EXCEPT !.active = FALSE, !.booking = "cancelled"]]
  /\ ask' = [ask EXCEPT ![b] = [@ EXCEPT !.pc = "over", !.listed = {}]]
  /\ UNCHANGED <<today, holder, tab, acts, placed, late>>

-----------------------------------------------------------------------------
(* The teacher.                                                            *)

Begin(t, request) ==
  /\ tab[t] = Idle
  /\ acts < MaxActs
  /\ acts' = acts + 1
  /\ tab' = [tab EXCEPT ![t] = request]
  /\ UNCHANGED <<today, series, lesson, holder, ask, placed, late>>

End(t) == tab' = [tab EXCEPT ![t] = Idle]

\* A new series: only its first lesson is checked, and not when forced.
BeginCreate(t, n, dates, time, force) ==
  /\ series[n] = NoSeries
  /\ \A u \in Tabs : ~(tab[u].op = "create" /\ tab[u].lesson[1] = n)
  /\ force \/ ~Busy(<<First(dates), time>>, {})
  /\ Begin(t, [Idle EXCEPT !.op = "create", !.lesson = <<n, First(dates)>>,
                           !.to = <<First(dates), time>>, !.dates = dates])

Create(t) ==
  /\ tab[t].op = "create"
  /\ LET n == tab[t].lesson[1]
         time == tab[t].to[2]
     IN /\ series' = [series EXCEPT ![n] =
             [dates |-> tab[t].dates, time |-> time, excluded |-> {},
              active |-> TRUE, booking |-> "none"]]
        /\ lesson' = NewLessons(n, tab[t].dates, time)
  /\ End(t)
  /\ UNCHANGED <<today, holder, ask, acts, placed, late>>

\* The edit view checks the new time, unless forced.
BeginMove(t, l, to, force) ==
  /\ lesson[l].status # "none"
  /\ to # lesson[l].at
  /\ force \/ ~Busy(to, {l})
  /\ Begin(t, [Idle EXCEPT !.op = "move", !.lesson = l, !.to = to])

\* Mutant: whatever is moved is on again.
MovedStatus(l) == "moved"

\* A lesson that is not on stays so when it is moved.
StatusAfterMove(l) == IF Inactive(l) THEN lesson[l].status ELSE "moved"

\* move_event locks the row and reads it again: an inactive lesson is moved and
\* stays inactive.  The view then goes on with the row it reads back.
Move(t) ==
  LET l == tab[t].lesson IN
  /\ tab[t].op = "move"
  /\ ~RowLocked(l)
  /\ IF lesson[l].status = "none"
     THEN /\ End(t)
          /\ UNCHANGED lesson
     ELSE /\ lesson' = IF lesson[l].at = tab[t].to THEN lesson
                       ELSE [lesson EXCEPT ![l] = [at |-> tab[t].to,
                                                   status |-> StatusAfterMove(l)]]
          /\ tab' = [tab EXCEPT ![t] = [Idle EXCEPT !.op = "edit", !.lesson = l,
                                                   !.row = lesson'[l]]]
  /\ IF lesson' = lesson THEN UNCHANGED <<placed, late>> ELSE Touch(l)
  /\ UNCHANGED <<today, series, holder, ask, acts>>

\* The edit view reads the lesson with no lock ...
BeginEdit(t, l) ==
  /\ lesson[l].status # "none"
  /\ Begin(t, [Idle EXCEPT !.op = "edit", !.lesson = l, !.row = lesson[l]])

\* ... and saves every field of what it has read.
Save(t) ==
  LET l == tab[t].lesson IN
  /\ tab[t].op = "edit"
  /\ ~RowLocked(l)
  /\ lesson' = [lesson EXCEPT ![l] = tab[t].row]
  /\ IF lesson' = lesson THEN UNCHANGED <<placed, late>> ELSE Touch(l)
  /\ End(t)
  /\ UNCHANGED <<today, series, holder, ask, acts>>

\* restore_event locks the lesson, checks its place or a new one ...
BeginRestore(t, l, to) ==
  /\ Inactive(l)
  /\ ~RowLocked(l)
  /\ ~Busy(to, {l})
  /\ Begin(t, [Idle EXCEPT !.op = "restore", !.lesson = l, !.to = to])

\* ... and makes it a planned lesson.
Restore(t) ==
  LET l == tab[t].lesson IN
  /\ tab[t].op = "restore"
  /\ lesson' = [lesson EXCEPT ![l] = [at |-> tab[t].to, status |-> "planned"]]
  /\ Touch(l)
  /\ End(t)
  /\ UNCHANGED <<today, series, holder, ask, acts>>

\* cancel_series lists the lessons from a date on, or all of them (from 0) ...
BeginCancelSeries(t, s, from) ==
  /\ series[s] # NoSeries
  /\ s \in Students \/ Recurs(series[s].dates)
  /\ Begin(t, [Idle EXCEPT !.op = "cancel", !.lesson = <<s, 1>>,
                           !.todo = LiveFrom(s, from)])

\* ... cancels them one by one, each in its own transaction ...
CancelNext(t) ==
  /\ tab[t].op = "cancel"
  /\ \E l \in tab[t].todo :
       /\ \A k \in tab[t].todo : l[2] <= k[2]
       /\ ~RowLocked(l)
       /\ lesson' = Cancelled({l})
       /\ tab' = [tab EXCEPT ![t].todo = @ \ {l}]
  /\ UNCHANGED <<today, series, holder, ask, acts, placed, late>>

\* Mutant: the booking keeps the weekday.
CloseSeriesOnly(t) ==
  /\ tab[t].op = "cancel"
  /\ tab[t].todo = {}
  /\ series' = [series EXCEPT ![tab[t].lesson[1]].active = FALSE]
  /\ End(t)
  /\ UNCHANGED <<today, lesson, holder, ask, acts, placed, late>>

\* ... and closes the series ...
CloseSeries(t) ==
  /\ tab[t].op = "cancel"
  /\ tab[t].todo = {}
  /\ series' = [series EXCEPT ![tab[t].lesson[1]] = [@ EXCEPT !.active = FALSE]]
  /\ tab' = [tab EXCEPT ![t] = [@ EXCEPT !.op = "release"]]
  /\ UNCHANGED <<today, lesson, holder, ask, acts, placed, late>>

\* ... and the booking, so that the weekday can be taken again.
Release(t) ==
  LET s == tab[t].lesson[1] IN
  /\ tab[t].op = "release"
  /\ ~(s \in Students /\ ask[s].pc = "cancelling")
  /\ series' = [series EXCEPT ![s] =
       IF @.booking = "active" THEN [@ EXCEPT !.booking = "cancelled"] ELSE @]
  /\ End(t)
  /\ UNCHANGED <<today, lesson, holder, ask, acts, placed, late>>

\* A single lesson is cancelled or skipped in one transaction.
SetAside(l, status) ==
  /\ lesson[l].status \notin {"none", status}
  /\ ~RowLocked(l)
  /\ acts < MaxActs
  /\ acts' = acts + 1
  /\ lesson' = [lesson EXCEPT ![l] = [@ EXCEPT !.status = status]]
  /\ UNCHANGED <<today, series, holder, ask, tab, placed, late>>

\* A lesson that is cancelled or skipped is deleted, and the date it stood on is
\* excluded from its series.
Delete(l) ==
  /\ Inactive(l)
  /\ ~RowLocked(l)
  /\ acts < MaxActs
  /\ acts' = acts + 1
  /\ lesson' = [lesson EXCEPT ![l] = NoLesson]
  /\ series' = [series EXCEPT ![l[1]].excluded = @ \union {Day(l)}]
  /\ UNCHANGED <<today, holder, ask, tab, placed, late>>

-----------------------------------------------------------------------------
Student(b) ==
  \/ \E dates \in Patterns, time \in Times : Lock(b, dates, time)
  \/ \E available_only \in BOOLEAN : Preview(b, available_only)
  \/ Book(b)
  \/ BeginCancel(b)
  \/ EndCancel(b)

Teacher(t) ==
  \/ \E n \in Drafts, dates \in Patterns, time \in Times, force \in BOOLEAN :
       BeginCreate(t, n, dates, time, force)
  \/ \E l \in Lessons, to \in Cells, force \in BOOLEAN : BeginMove(t, l, to, force)
  \/ \E l \in Lessons : BeginEdit(t, l)
  \/ \E l \in Lessons, to \in Cells : BeginRestore(t, l, to)
  \/ \E s \in Series, from \in Days \union {0} : BeginCancelSeries(t, s, from)
  \/ Create(t)
  \/ Move(t)
  \/ Save(t)
  \/ Restore(t)
  \/ CancelNext(t)
  \/ CloseSeries(t)
  \/ Release(t)

Next ==
  \/ Tick
  \/ \E b \in Students : Student(b)
  \/ \E t \in Tabs : Teacher(t)
  \/ \E l \in Lessons, status \in {"cancelled", "skipped"} : SetAside(l, status)
  \/ \E l \in Lessons : Delete(l)

Spec == Init /\ [][Next]_vars

-----------------------------------------------------------------------------
(* What must hold.                                                         *)

Rows == [at : Cells \union {<<0, 0>>},
         status : {"none", "planned", "moved", "cancelled", "skipped"}]
SeriesRows == [dates : SUBSET Days, time : Times \union {0}, excluded : SUBSET (Days \union {0}),
               active : BOOLEAN, booking : {"none", "active", "cancelled"}]
Asks == [pc : {"new", "locked", "read", "refused", "booked", "cancelling", "over"},
         dates : SUBSET Days, time : Times \union {0}, occupied : SUBSET Days,
         listed : SUBSET Lessons, from : Days \union {0}]
Requests == [op : {"idle", "create", "move", "edit", "restore", "cancel", "release"},
             lesson : Lessons \union {<<>>}, to : Cells \union {<<>>}, row : Rows,
             todo : SUBSET Lessons, dates : SUBSET Days]
\* A request that runs names its lesson, and one that will place it its cell.
Proper(request) ==
  /\ request.op # "idle" => request.lesson \in Lessons
  /\ request.op = "create" => request.lesson[1] \in Drafts
  /\ request.op \in {"create", "move", "restore"} => request.to \in Cells

TypeOK ==
  /\ today \in Days
  /\ series \in [Series -> SeriesRows]
  /\ lesson \in [Lessons -> Rows]
  /\ holder \in Students \union {"nobody"}
  /\ ask \in [Students -> Asks]
  /\ \A b \in Students : ask[b].pc \in {"locked", "read"} => ask[b].time \in Times
  /\ tab \in [Tabs -> Requests]
  /\ \A t \in Tabs : Proper(tab[t])
  /\ acts \in 0..MaxActs
  /\ placed \subseteq Lessons
  /\ late \subseteq Lessons

\* Two students never have a lesson in the same cell, unless the teacher has put
\* one of them there: bookings of one teacher wait for each other (book_slot).
NoDoubleBooking ==
  \A k, l \in Lessons :
    k[1] \in Students /\ l[1] \in Students /\ k[1] # l[1]
    /\ Live(k) /\ Live(l) /\ lesson[k].at = lesson[l].at
    => k \in placed \/ l \in placed

\* Once a student has cancelled a booking, nothing of it is left from that day
\* on but what the teacher has touched since, and but a lesson of that very day
\* whose hour belongs to the day before in the server's zone: the cut-off is the
\* teacher's date, the query's dates are the server's (cancel_student_booking,
\* cancel_series).
NothingLeftBehind ==
  \A l \in Lessons :
    l[1] \in Students /\ ask[l[1]].pc = "over" /\ Live(l)
    /\ Day(l) >= ask[l[1]].from
    => \/ l \in late
       \/ Day(l) = ask[l[1]].from /\ DateShift[lesson[l].at[2]] = -1

\* A booking holds its weekday for others exactly as long as its series runs: a
\* series that is closed has given it up, or the request that closed it is about
\* to (cancel_series, cancel_student_booking).
HeldWhileRunning ==
  \A b \in Students :
    (series[b].booking = "active") # series[b].active
    => \E t \in Tabs : tab[t].op = "release" /\ tab[t].lesson[1] = b

\* A lesson that was cancelled or skipped comes back only when it is restored or
\* when an edit that had read it as live saves it (move_event keeps it inactive).
StaysCancelled ==
  [][\A l \in Lessons :
       Inactive(l) /\ Live(l)' =>
         \E t \in Tabs : /\ tab[t].lesson = l
                         /\ \/ tab[t].op = "restore"
                            \/ tab[t].op = "edit"
                               /\ tab[t].row.status \in {"planned", "moved"}]_vars
=============================================================================
