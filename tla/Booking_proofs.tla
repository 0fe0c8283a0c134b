--------------------------- MODULE Booking_proofs ---------------------------
(***************************************************************************)
(* Booking for any students, drafts, tabs, days and times: the lock on the *)
(* teacher's row is enough for the students' bookings, whatever the        *)
(* teacher's own requests write without it.                                *)
(***************************************************************************)
EXTENDS Booking, TLAPS

(* Types.                                                                  *)

LEMMA FirstDay ==
  ASSUME NEW dates \in Patterns
  PROVE  dates \in SUBSET Days /\ First(dates) \in dates /\ First(dates) \in Days
BY BookingAssumption DEF First

LEMMA Bounds == LastDay \in Nat /\ LastDay >= 1 /\ MaxActs \in Nat
BY BookingAssumption

LEMMA Initials ==
  /\ NoLesson \in Rows
  /\ NoSeries \in SeriesRows
  /\ NewAsk \in Asks /\ NewAsk.pc = "new"
  /\ Refused \in Asks /\ Refused.pc = "refused"
  /\ Idle \in Requests /\ Idle.op = "idle" /\ Proper(Idle)
<1>1. NoLesson \in Rows
  BY DEF NoLesson, Rows
<1>2. NewAsk \in Asks /\ NewAsk.pc = "new"
  BY DEF NewAsk, Asks
<1>3. Refused \in Asks /\ Refused.pc = "refused"
  BY <1>2 DEF Refused, Asks
<1>4. Idle \in Requests /\ Idle.op = "idle"
  BY <1>1 DEF Idle, Requests
<1>5. NoSeries \in SeriesRows
  BY DEF NoSeries, SeriesRows
<1> QED BY <1>1, <1>2, <1>3, <1>4, <1>5 DEF Proper

LEMMA InitTypes == Init => TypeOK
<1> SUFFICES ASSUME Init PROVE TypeOK
  OBVIOUS
<1>1. today \in Days /\ acts \in 0..MaxActs
  BY Bounds DEF Init, Days
<1> QED BY <1>1, Initials DEF Init, TypeOK

Chosen(row) == row.pc \in {"locked", "read"} => row.time \in Times

\* The request of a student that is written keeps the types of the rest.
LEMMA AskTypes ==
  ASSUME TypeOK, NEW b \in Students, NEW row \in Asks, Chosen(row),
         ask' = [ask EXCEPT ![b] = row]
  PROVE  /\ ask' \in [Students -> Asks]
         /\ \A c \in Students : ask'[c].pc \in {"locked", "read"} => ask'[c].time \in Times
BY DEF TypeOK, Chosen

LEMMA StudentTypes == ASSUME TypeOK, NEW b \in Students, Student(b) PROVE TypeOK'
<1>a. ask[b] \in Asks /\ b \in Series /\ Chosen(ask[b])
  BY DEF TypeOK, Series, Chosen
<1>b. Chosen(Refused)
  BY Initials DEF Chosen
<1>1. CASE \E dates \in Patterns, time \in Times : Lock(b, dates, time)
  <2> PICK dates \in Patterns, time \in Times : Lock(b, dates, time)
    BY <1>1
  <2> DEFINE row == [ask[b] EXCEPT !.pc = "locked", !.dates = dates, !.time = time]
  <2>1. row \in Asks /\ Chosen(row)
    BY <1>a, FirstDay DEF Asks, Chosen
  <2>2. ask' = [ask EXCEPT ![b] = row]
    BY DEF Lock
  <2> HIDE DEF row
  <2> QED BY <2>1, <2>2, AskTypes DEF Lock, TypeOK
<1>2. CASE \E available_only \in BOOLEAN : Preview(b, available_only)
  <2> DEFINE occupied == {d \in ask[b].dates : Busy(<<d, ask[b].time>>, {})}
             row == [ask[b] EXCEPT !.pc = "read", !.occupied = occupied]
  <2>1. ask[b].pc = "locked" /\ ask[b].time \in Times
    BY <1>2, <1>a DEF Preview, Chosen
  <2>2. row \in Asks /\ Chosen(row)
    BY <1>a, <2>1 DEF Asks, Chosen
  <2>3. \/ ask' = [ask EXCEPT ![b] = Refused] /\ holder' = "nobody"
        \/ ask' = [ask EXCEPT ![b] = row] /\ holder' = holder
    BY <1>2 DEF Preview
  <2> HIDE DEF row
  <2> QED BY <1>2, <1>b, <2>2, <2>3, AskTypes, Initials DEF Preview, TypeOK
<1>3. CASE Book(b)
  <2> DEFINE row == [ask[b] EXCEPT !.pc = "booked", !.occupied = {}]
  <2>1. [dates |-> ask[b].dates, time |-> ask[b].time, excluded |-> ask[b].occupied,
         active |-> TRUE, booking |-> "active"] \in SeriesRows
    BY <1>a DEF Asks, SeriesRows
  <2>2. row \in Asks /\ Chosen(row)
    BY <1>a DEF Asks, Chosen
  <2>3. CASE SlotTaken(b)
    BY <1>3, <1>b, <2>3, Initials, AskTypes DEF Book, TypeOK
  <2>4. CASE ~SlotTaken(b)
    <3>1. lesson' \in [Lessons -> Rows]
      <4>1. ask[b].time \in Times
        BY <1>3 DEF Book, TypeOK
      <4>2. \A l \in Lessons : [at |-> <<l[2], ask[b].time>>, status |-> "planned"] \in Rows
        BY <4>1 DEF Rows, Lessons, Cells
      <4>3. lesson' = NewLessons(b, ask[b].dates \ ask[b].occupied, ask[b].time)
        BY <1>3, <2>4 DEF Book
      <4> QED BY <4>2, <4>3 DEF NewLessons, TypeOK
    <3>2. ask' = [ask EXCEPT ![b] = row]
      BY <1>3, <2>4 DEF Book
    <3> HIDE DEF row
    <3>3. series' \in [Series -> SeriesRows]
      BY <1>3, <1>a, <2>1, <2>4 DEF Book, TypeOK
    <3> QED BY <1>3, <2>2, <3>1, <3>2, <3>3, AskTypes DEF Book, TypeOK
  <2> QED BY <2>3, <2>4
<1>4. CASE BeginCancel(b)
  <2> DEFINE row == [ask[b] EXCEPT !.pc = "cancelling", !.from = today,
                                   !.listed = LiveFrom(b, today)]
  <2>1. row \in Asks /\ Chosen(row)
    BY <1>a DEF Asks, LiveFrom, TypeOK, Chosen
  <2>2. ask' = [ask EXCEPT ![b] = row]
    BY <1>4 DEF BeginCancel
  <2> HIDE DEF row
  <2> QED BY <1>4, <2>1, <2>2, AskTypes DEF BeginCancel, TypeOK
<1>5. CASE EndCancel(b)
  <2> DEFINE row == [ask[b] EXCEPT !.pc = "over", !.listed = {}]
  <2>1. lesson' \in [Lessons -> Rows]
    BY <1>5 DEF EndCancel, Cancelled, TypeOK, Rows
  <2>2. row \in Asks /\ Chosen(row)
    BY <1>a DEF Asks, Chosen
  <2>3. [series[b] EXCEPT !.active = FALSE, !.booking = "cancelled"] \in SeriesRows
    BY <1>a DEF TypeOK, SeriesRows
  <2>4. ask' = [ask EXCEPT ![b] = row]
    BY <1>5 DEF EndCancel
  <2>5. series' \in [Series -> SeriesRows]
    BY <1>5, <1>a, <2>3 DEF EndCancel, TypeOK
  <2> HIDE DEF row
  <2> QED BY <1>5, <2>1, <2>2, <2>4, <2>5, AskTypes DEF EndCancel, TypeOK
<1> QED BY <1>1, <1>2, <1>3, <1>4, <1>5 DEF Student

LEMMA BeginTypes ==
  ASSUME TypeOK, NEW t \in Tabs, NEW request \in Requests, Proper(request),
         Begin(t, request)
  PROVE  TypeOK'
<1>1. acts' \in 0..MaxActs
  BY Bounds DEF Begin, TypeOK
<1> QED BY <1>1 DEF Begin, TypeOK

\* A lesson that is written keeps the types of the rest.
LEMMA WriteTypes ==
  ASSUME TypeOK, NEW t \in Tabs, NEW l \in Lessons, NEW row \in Rows, NEW request \in Requests,
         Proper(request),
         lesson' = [lesson EXCEPT ![l] = row] \/ lesson' = lesson,
         tab' = [tab EXCEPT ![t] = request],
         UNCHANGED <<placed, late>> \/ Touch(l),
         UNCHANGED <<today, series, holder, ask, acts>>
  PROVE  TypeOK'
<1>1. placed' \subseteq Lessons /\ late' \subseteq Lessons
  BY DEF Touch, TypeOK
<1>2. lesson' \in [Lessons -> Rows]
  BY DEF TypeOK
<1>3. tab' \in [Tabs -> Requests] /\ \A u \in Tabs : Proper(tab'[u])
  BY DEF TypeOK
<1> QED BY <1>1, <1>2, <1>3 DEF TypeOK

LEMMA StartsTypes ==
  ASSUME TypeOK, NEW t \in Tabs,
         \/ \E n \in Drafts, dates \in Patterns, time \in Times, force \in BOOLEAN :
              BeginCreate(t, n, dates, time, force)
         \/ \E l \in Lessons, to \in Cells, force \in BOOLEAN : BeginMove(t, l, to, force)
         \/ \E l \in Lessons : BeginEdit(t, l)
         \/ \E l \in Lessons, to \in Cells : BeginRestore(t, l, to)
         \/ \E s \in Series, from \in Days \union {0} : BeginCancelSeries(t, s, from)
  PROVE  TypeOK'
<1>1. CASE \E n \in Drafts, dates \in Patterns, time \in Times, force \in BOOLEAN :
             BeginCreate(t, n, dates, time, force)
  <2> PICK n \in Drafts, dates \in Patterns, time \in Times, force \in BOOLEAN :
        BeginCreate(t, n, dates, time, force)
    BY <1>1
  <2> DEFINE request == [Idle EXCEPT !.op = "create", !.lesson = <<n, First(dates)>>,
                           !.to = <<First(dates), time>>, !.dates = dates]
  <2>1. <<n, First(dates)>> \in Lessons /\ <<First(dates), time>> \in Cells
    BY FirstDay DEF Lessons, Series, Cells
  <2>2. request \in Requests /\ Proper(request)
    BY <2>1, FirstDay, Initials DEF Requests, Proper
  <2>3. Begin(t, request)
    BY DEF BeginCreate
  <2> HIDE DEF request
  <2> QED BY <2>2, <2>3, BeginTypes
<1>2. CASE \E l \in Lessons, to \in Cells, force \in BOOLEAN : BeginMove(t, l, to, force)
  <2> PICK l \in Lessons, to \in Cells, force \in BOOLEAN : BeginMove(t, l, to, force)
    BY <1>2
  <2> DEFINE request == [Idle EXCEPT !.op = "move", !.lesson = l, !.to = to]
  <2>1. request \in Requests /\ Proper(request)
    BY Initials DEF Requests, Proper
  <2>2. Begin(t, request)
    BY DEF BeginMove
  <2> HIDE DEF request
  <2> QED BY <2>1, <2>2, BeginTypes
<1>3. CASE \E l \in Lessons : BeginEdit(t, l)
  <2> PICK l \in Lessons : BeginEdit(t, l)
    BY <1>3
  <2> DEFINE request == [Idle EXCEPT !.op = "edit", !.lesson = l, !.row = lesson[l]]
  <2>1. request \in Requests /\ Proper(request)
    BY Initials DEF Requests, Proper, TypeOK
  <2>2. Begin(t, request)
    BY DEF BeginEdit
  <2> HIDE DEF request
  <2> QED BY <2>1, <2>2, BeginTypes
<1>4. CASE \E l \in Lessons, to \in Cells : BeginRestore(t, l, to)
  <2> PICK l \in Lessons, to \in Cells : BeginRestore(t, l, to)
    BY <1>4
  <2> DEFINE request == [Idle EXCEPT !.op = "restore", !.lesson = l, !.to = to]
  <2>1. request \in Requests /\ Proper(request)
    BY Initials DEF Requests, Proper
  <2>2. Begin(t, request)
    BY DEF BeginRestore
  <2> HIDE DEF request
  <2> QED BY <2>1, <2>2, BeginTypes
<1>5. CASE \E s \in Series, from \in Days \union {0} : BeginCancelSeries(t, s, from)
  <2> PICK s \in Series, from \in Days \union {0} : BeginCancelSeries(t, s, from)
    BY <1>5
  <2> DEFINE request == [Idle EXCEPT !.op = "cancel", !.lesson = <<s, 1>>,
                           !.todo = LiveFrom(s, from)]
  <2>0. <<s, 1>> \in Lessons /\ LiveFrom(s, from) \in SUBSET Lessons
    <3>1. 1 \in Days
      BY Bounds DEF Days
    <3> QED BY <3>1 DEF Lessons, LiveFrom
  <2>1. request \in Requests /\ Proper(request)
    BY <2>0, Initials DEF Requests, Proper
  <2>2. Begin(t, request)
    BY DEF BeginCancelSeries
  <2> HIDE DEF request
  <2> QED BY <2>1, <2>2, BeginTypes
<1> QED BY <1>1, <1>2, <1>3, <1>4, <1>5

LEMMA TeacherTypes == ASSUME TypeOK, NEW t \in Tabs, Teacher(t) PROVE TypeOK'
<1>a. /\ tab[t] \in Requests /\ Proper(tab[t])
      /\ tab[t].op # "idle" => tab[t].lesson \in Lessons /\ tab[t].lesson[1] \in Series
  BY DEF TypeOK, Proper, Lessons
<1>1. CASE Create(t)
  <2> DEFINE n == tab[t].lesson[1]
             time == tab[t].to[2]
             row == [dates |-> tab[t].dates, time |-> time, excluded |-> {},
                     active |-> TRUE, booking |-> "none"]
  <2>1. n \in Series /\ time \in Times
    BY <1>1, <1>a DEF Create, Proper, Cells
  <2>2. row \in SeriesRows
    BY <1>a, <2>1 DEF SeriesRows, Requests
  <2>3. \A l \in Lessons : [at |-> <<l[2], time>>, status |-> "planned"] \in Rows
    BY <2>1 DEF Rows, Lessons, Cells
  <2>4. series' = [series EXCEPT ![n] = row] /\ lesson' = NewLessons(n, tab[t].dates, time)
    BY <1>1 DEF Create
  <2> HIDE DEF n, time, row
  <2>5. series' \in [Series -> SeriesRows] /\ lesson' \in [Lessons -> Rows]
    BY <2>2, <2>3, <2>4 DEF NewLessons, TypeOK
  <2> QED BY <1>1, <2>5, Initials DEF Create, End, TypeOK
<1>2. CASE Move(t)
  <2> DEFINE l == tab[t].lesson
             row == [at |-> tab[t].to, status |-> StatusAfterMove(l)]
             request == [Idle EXCEPT !.op = "edit", !.lesson = l, !.row = lesson'[l]]
  <2>1. l \in Lessons /\ tab[t].to \in Cells
    BY <1>2, <1>a DEF Move, Proper
  <2>2. row \in Rows
    BY <2>1 DEF Rows, StatusAfterMove, TypeOK
  <2>3. lesson' = [lesson EXCEPT ![l] = row] \/ lesson' = lesson
    BY <1>2 DEF Move
  <2>4. lesson'[l] \in Rows
    BY <2>1, <2>2, <2>3 DEF TypeOK
  <2>5. request \in Requests /\ Proper(request)
    BY <2>1, <2>4, Initials DEF Requests, Proper
  <2>6. tab' = [tab EXCEPT ![t] = Idle] \/ tab' = [tab EXCEPT ![t] = request]
    BY <1>2 DEF Move, End
  <2>7. UNCHANGED <<placed, late>> \/ Touch(l)
    BY <1>2 DEF Move
  <2>8. UNCHANGED <<today, series, holder, ask, acts>>
    BY <1>2 DEF Move
  <2> HIDE DEF l, row, request
  <2> QED BY <2>1, <2>2, <2>3, <2>5, <2>6, <2>7, <2>8, Initials, WriteTypes
<1>3. CASE Save(t)
  <2>1. tab[t].lesson \in Lessons /\ tab[t].row \in Rows
    BY <1>3, <1>a DEF Save, Requests
  <2>2. UNCHANGED <<placed, late>> \/ Touch(tab[t].lesson)
    BY <1>3 DEF Save
  <2> QED BY <1>3, <2>1, <2>2, Initials, WriteTypes DEF Save, End
<1>4. CASE Restore(t)
  <2>1. tab[t].lesson \in Lessons /\ [at |-> tab[t].to, status |-> "planned"] \in Rows
    BY <1>4, <1>a DEF Restore, Proper, Rows
  <2> QED BY <1>4, <2>1, Initials, WriteTypes DEF Restore, End
<1>5. CASE CancelNext(t)
  <2> PICK l \in tab[t].todo : lesson' = Cancelled({l})
                               /\ tab' = [tab EXCEPT ![t].todo = @ \ {l}]
    BY <1>5 DEF CancelNext
  <2> DEFINE request == [tab[t] EXCEPT !.todo = tab[t].todo \ {l}]
  <2>1. lesson' \in [Lessons -> Rows]
    BY DEF Cancelled, TypeOK, Rows
  <2>2. tab' = [tab EXCEPT ![t] = request]
    OBVIOUS
  <2>3. tab[t].todo \ {l} \in SUBSET Lessons
    BY <1>a DEF Requests
  <2>4. request \in Requests /\ request.op = tab[t].op /\ request.lesson = tab[t].lesson
        /\ request.to = tab[t].to
    BY <1>a, <2>3 DEF Requests
  <2>5. Proper(request)
    BY <1>a, <2>4 DEF Proper
  <2> HIDE DEF request
  <2>6. tab' \in [Tabs -> Requests] /\ \A u \in Tabs : Proper(tab'[u])
    BY <2>2, <2>4, <2>5 DEF TypeOK
  <2> QED BY <1>5, <2>1, <2>6 DEF CancelNext, TypeOK
<1>6. CASE CloseSeries(t)
  <2>1. [tab[t] EXCEPT !.op = "release"] \in Requests /\ Proper([tab[t] EXCEPT !.op = "release"])
    BY <1>6, <1>a DEF CloseSeries, Requests, Proper
  <2>2. tab' \in [Tabs -> Requests] /\ \A u \in Tabs : Proper(tab'[u])
    BY <1>6, <2>1 DEF CloseSeries, TypeOK
  <2>3. series' \in [Series -> SeriesRows]
    BY <1>6, <1>a DEF CloseSeries, TypeOK, SeriesRows
  <2> QED BY <1>6, <2>2, <2>3 DEF CloseSeries, TypeOK
<1>7. CASE Release(t)
  <2>1. series' \in [Series -> SeriesRows]
    BY <1>7, <1>a DEF Release, TypeOK, SeriesRows
  <2> QED BY <1>7, <2>1, Initials DEF Release, End, TypeOK
<1> QED BY <1>1, <1>2, <1>3, <1>4, <1>5, <1>6, <1>7, StartsTypes DEF Teacher

LEMMA StepTypes == TypeOK /\ [Next]_vars => TypeOK'
<1> SUFFICES ASSUME TypeOK, [Next]_vars PROVE TypeOK'
  OBVIOUS
<1>1. CASE Tick
  <2>1. today' \in Days
    BY <1>1, Bounds DEF Tick, TypeOK, Days
  <2> QED BY <1>1, <2>1 DEF Tick, TypeOK
<1>2. ASSUME NEW l \in Lessons, NEW status \in {"cancelled", "skipped"}, SetAside(l, status)
      PROVE  TypeOK'
  <2>1. lesson' \in [Lessons -> Rows]
    BY <1>2 DEF SetAside, TypeOK, Rows
  <2>2. acts' \in 0..MaxActs
    BY <1>2, Bounds DEF SetAside, TypeOK
  <2> QED BY <1>2, <2>1, <2>2 DEF SetAside, TypeOK
<1>3. ASSUME NEW l \in Lessons, Delete(l) PROVE TypeOK'
  <2>1. lesson' \in [Lessons -> Rows] /\ acts' \in 0..MaxActs
    BY <1>3, Bounds, Initials DEF Delete, TypeOK
  <2>2. Day(l) \in Days \union {0} /\ l[1] \in Series
    BY DEF Day, TypeOK, Rows, Cells, Lessons
  <2>3. [series[l[1]] EXCEPT !.excluded = @ \union {Day(l)}] \in SeriesRows
    <3>1. series[l[1]] \in SeriesRows
      BY <2>2 DEF TypeOK
    <3>2. series[l[1]].excluded \union {Day(l)} \in SUBSET (Days \union {0})
      BY <2>2, <3>1 DEF SeriesRows
    <3> QED BY <3>1, <3>2 DEF SeriesRows
  <2>4. series' = [series EXCEPT ![l[1]] =
                     [series[l[1]] EXCEPT !.excluded = @ \union {Day(l)}]]
    BY <1>3 DEF Delete
  <2>5. series' \in [Series -> SeriesRows]
    BY <2>2, <2>3, <2>4 DEF TypeOK
  <2> QED BY <1>3, <2>1, <2>5 DEF Delete, TypeOK
<1>4. CASE UNCHANGED vars
  BY <1>4 DEF vars, TypeOK
<1> QED BY <1>1, <1>2, <1>3, <1>4, StudentTypes, TeacherTypes DEF Next

(* Bookings of two students.                                               *)

\* A booking that has its row or has read the busy time holds the teacher's row.
Holding == \A b \in Students : ask[b].pc \in {"locked", "read"} => holder = b

\* What the booking has read still covers every lesson of another student but
\* those the teacher has put somewhere.
SeenBusy ==
  \A b \in Students : ask[b].pc = "read" =>
    \A l \in Lessons :
      l[1] \in Students /\ l[1] # b /\ Live(l) /\ l \notin placed
      /\ lesson[l].at[2] = ask[b].time /\ Day(l) \in ask[b].dates
      => Day(l) \in ask[b].occupied

BookingInv == TypeOK /\ Holding /\ SeenBusy /\ NoDoubleBooking

LEMMA InitBooking == Init => BookingInv
<1> SUFFICES ASSUME Init PROVE BookingInv
  OBVIOUS
<1>1. \A l \in Lessons : ~Live(l)
  BY DEF Init, Live, NoLesson
<1>2. \A b \in Students : ask[b].pc = "new"
  BY Initials DEF Init
<1> QED BY <1>1, <1>2, InitTypes DEF BookingInv, Holding, SeenBusy, NoDoubleBooking

\* Only a booking adds lessons of a student; what the teacher does to one of them
\* takes it off or is recorded in placed.
StudentLessonsStay ==
  \A l \in Lessons :
    l[1] \in Students /\ l \notin placed' /\ Live(l)'
    => l \notin placed /\ Live(l) /\ lesson'[l] = lesson[l]

LEMMA CancelledStay ==
  ASSUME NEW which, lesson' = Cancelled(which), UNCHANGED placed
  PROVE  StudentLessonsStay
BY DEF StudentLessonsStay, Cancelled, Live

LEMMA TouchStays ==
  ASSUME TypeOK, NEW k \in Lessons, NEW row, lesson' = lesson \/ lesson' = [lesson EXCEPT ![k] = row],
         UNCHANGED <<placed, late>> \/ Touch(k), Touch(k) \/ lesson' = lesson
  PROVE  StudentLessonsStay
BY DEF StudentLessonsStay, Touch, Live, TypeOK

LEMMA TeacherStays ==
  ASSUME TypeOK, NEW t \in Tabs, Teacher(t)
  PROVE  StudentLessonsStay /\ UNCHANGED <<ask, holder>>
<1>a. /\ tab[t] \in Requests /\ Proper(tab[t])
      /\ tab[t].op # "idle" => tab[t].lesson \in Lessons
  BY DEF TypeOK, Proper
<1>1. ASSUME NEW request, Begin(t, request) PROVE StudentLessonsStay /\ UNCHANGED <<ask, holder>>
  BY <1>1 DEF Begin, StudentLessonsStay, Live
<1>2. CASE Create(t)
  <2>1. tab[t].lesson[1] \notin Students
    BY <1>2, <1>a, BookingAssumption DEF Create, Proper
  <2> QED BY <1>2, <2>1 DEF Create, NewLessons, StudentLessonsStay, Live
<1>3. CASE Move(t) \/ Save(t) \/ Restore(t)
  <2>1. tab[t].lesson \in Lessons
    BY <1>3, <1>a DEF Move, Save, Restore
  <2>2. UNCHANGED <<placed, late>> \/ Touch(tab[t].lesson)
    BY <1>3 DEF Move, Save, Restore
  <2>3. Touch(tab[t].lesson) \/ lesson' = lesson
    BY <1>3 DEF Move, Save, Restore
  <2>4. lesson' = lesson \/ \E row : lesson' = [lesson EXCEPT ![tab[t].lesson] = row]
    BY <1>3 DEF Move, Save, Restore
  <2>5. StudentLessonsStay
    BY <2>1, <2>2, <2>3, <2>4, TouchStays
  <2> QED BY <1>3, <2>5 DEF Move, Save, Restore
<1>4. CASE CancelNext(t)
  <2>1. \E l \in Lessons : lesson' = Cancelled({l})
    BY <1>4, <1>a DEF CancelNext, Requests
  <2> QED BY <1>4, <2>1, CancelledStay DEF CancelNext
<1>5. CASE CloseSeries(t) \/ Release(t)
  BY <1>5 DEF CloseSeries, Release, StudentLessonsStay, Live
<1> QED
  BY <1>1, <1>2, <1>3, <1>4, <1>5
  DEF Teacher, BeginCreate, BeginMove, BeginEdit, BeginRestore, BeginCancelSeries

LEMMA OthersStay ==
  ASSUME TypeOK,
         \/ Tick \/ UNCHANGED vars
         \/ \E l \in Lessons, status \in {"cancelled", "skipped"} : SetAside(l, status)
         \/ \E l \in Lessons : Delete(l)
  PROVE  StudentLessonsStay /\ UNCHANGED <<ask, holder>>
<1>1. CASE Tick \/ UNCHANGED vars
  BY <1>1 DEF Tick, vars, StudentLessonsStay, Live
<1>2. ASSUME NEW l \in Lessons, NEW status \in {"cancelled", "skipped"}, SetAside(l, status)
      PROVE  StudentLessonsStay /\ UNCHANGED <<ask, holder>>
  BY <1>2 DEF SetAside, StudentLessonsStay, Live, TypeOK
<1>3. ASSUME NEW l \in Lessons, Delete(l)
      PROVE  StudentLessonsStay /\ UNCHANGED <<ask, holder>>
  BY <1>3 DEF Delete, NoLesson, StudentLessonsStay, Live, TypeOK
<1> QED BY <1>1, <1>2, <1>3

\* A step after which all live lessons of students were there before keeps them apart.
LEMMA StayKeeps ==
  ASSUME BookingInv, StudentLessonsStay
  PROVE  NoDoubleBooking'
BY DEF BookingInv, StudentLessonsStay, NoDoubleBooking, Live

LEMMA StayKeepsSeen ==
  ASSUME BookingInv, StudentLessonsStay, NEW b \in Students, ask'[b] = ask[b],
         ask[b].pc = "read", NEW l \in Lessons,
         l[1] \in Students, l[1] # b, Live(l)', l \notin placed',
         lesson'[l].at[2] = ask[b].time, Day(l)' \in ask[b].dates
  PROVE  Day(l)' \in ask[b].occupied
BY DEF BookingInv, StudentLessonsStay, SeenBusy, Day

LEMMA StudentKeeps ==
  ASSUME BookingInv, NEW b \in Students, Student(b)
  PROVE  Holding' /\ SeenBusy' /\ NoDoubleBooking'
<1>a. TypeOK /\ Holding /\ SeenBusy /\ NoDoubleBooking /\ ask[b] \in Asks
  BY DEF BookingInv, TypeOK
<1>1. CASE \E dates \in Patterns, time \in Times : Lock(b, dates, time)
  <2> PICK dates \in Patterns, time \in Times : Lock(b, dates, time)
    BY <1>1
  <2>1. \A c \in Students : ask[c].pc \notin {"locked", "read"}
    BY <1>a, BookingAssumption DEF Lock, Holding
  <2>2. \A c \in Students : /\ c # b => ask'[c] = ask[c]
                            /\ ask'[b].pc = "locked"
    BY <1>a DEF Lock, TypeOK, Asks
  <2>3. Holding' /\ SeenBusy'
    BY <2>1, <2>2 DEF Lock, Holding, SeenBusy
  <2>4. StudentLessonsStay
    BY DEF Lock, StudentLessonsStay, Live
  <2> QED BY <2>3, <2>4, StayKeeps
<1>2. CASE \E available_only \in BOOLEAN : Preview(b, available_only)
  <2> DEFINE occupied == {d \in ask[b].dates : Busy(<<d, ask[b].time>>, {})}
             row == [ask[b] EXCEPT !.pc = "read", !.occupied = occupied]
  <2>1. ask[b].pc = "locked" /\ holder = b /\ UNCHANGED <<lesson, placed>>
    BY <1>2, <1>a DEF Preview, Holding
  <2>2. \/ ask' = [ask EXCEPT ![b] = Refused] /\ holder' = "nobody"
        \/ ask' = [ask EXCEPT ![b] = row] /\ holder' = holder
    BY <1>2 DEF Preview
  <2>3. row.pc = "read" /\ row.time = ask[b].time /\ row.dates = ask[b].dates
        /\ row.occupied = occupied
    BY <1>a DEF Asks
  <2>4. ASSUME NEW l \in Lessons, Live(l), lesson[l].at[2] = ask[b].time,
               Day(l) \in ask[b].dates
        PROVE  Day(l) \in occupied
    <3>1. lesson[l].at = <<Day(l), ask[b].time>>
      <4>1. lesson[l].at \in Cells \/ lesson[l].at = <<0, 0>>
        BY <1>a DEF TypeOK, Rows
      <4> QED BY <2>4, <4>1 DEF Day, Cells
    <3> QED BY <2>4, <3>1 DEF Busy
  <2> HIDE DEF row, occupied
  <2>5. \A c \in Students \ {b} : ask[c].pc \notin {"locked", "read"}
    BY <1>a, <2>1 DEF Holding
  <2>6. Holding'
    BY <1>a, <2>1, <2>2, <2>5, Initials DEF Holding, TypeOK
  <2>7. SeenBusy'
    BY <1>a, <2>1, <2>2, <2>3, <2>4, <2>5, Initials DEF SeenBusy, TypeOK, Live, Day
  <2>8. StudentLessonsStay
    BY <2>1 DEF StudentLessonsStay, Live
  <2> QED BY <2>6, <2>7, <2>8, StayKeeps
<1>3. CASE Book(b)
  <2>1. ask[b].pc = "read" /\ holder = b /\ holder' = "nobody" /\ UNCHANGED placed
    BY <1>3, <1>a DEF Book, Holding
  <2>2. \A c \in Students \ {b} : ask[c].pc \notin {"locked", "read"} /\ ask'[c] = ask[c]
    BY <1>3, <1>a, <2>1 DEF Book, Holding, TypeOK
  <2>3. ask'[b].pc \in {"refused", "booked"}
    <3>1. [ask[b] EXCEPT !.pc = "booked", !.occupied = {}].pc = "booked"
      BY <1>a DEF Asks
    <3> QED BY <1>3, <1>a, <3>1, Initials DEF Book, TypeOK
  <2>4. Holding' /\ SeenBusy'
    BY <2>2, <2>3 DEF Holding, SeenBusy
  <2>5. CASE lesson' = lesson
    <3>1. StudentLessonsStay
      BY <2>1, <2>5 DEF StudentLessonsStay, Live
    <3> QED BY <2>4, <3>1, StayKeeps
  <2>6. CASE lesson' = NewLessons(b, ask[b].dates \ ask[b].occupied, ask[b].time)
    <3>1. ASSUME NEW k \in Lessons
          PROVE  \/ lesson'[k] = lesson[k]
                 \/ /\ k[1] = b /\ k[2] \in ask[b].dates \ ask[b].occupied
                    /\ lesson'[k].at = <<k[2], ask[b].time>>
      BY <2>6 DEF NewLessons
    <3>2. ASSUME NEW k \in Lessons, NEW l \in Lessons, k[1] = b, l[1] \in Students, l[1] # b,
                 Live(l)', lesson'[k].at = lesson'[l].at, k \notin placed, l \notin placed,
                 lesson'[k] # lesson[k]
          PROVE  FALSE
      <4>1. lesson'[l] = lesson[l] /\ Live(l)
        BY <3>1, <3>2 DEF Live
      <4>2. lesson[l].at = <<k[2], ask[b].time>> /\ k[2] \in ask[b].dates \ ask[b].occupied
        BY <3>1, <3>2, <4>1
      <4>3. Day(l) = k[2] /\ lesson[l].at[2] = ask[b].time
        BY <4>2 DEF Day
      <4> QED BY <1>a, <2>1, <3>2, <4>1, <4>2, <4>3 DEF SeenBusy
    <3>3. NoDoubleBooking'
      <4> SUFFICES ASSUME NEW k \in Lessons, NEW l \in Lessons, k[1] \in Students,
                          l[1] \in Students, k[1] # l[1], Live(k)', Live(l)',
                          lesson'[k].at = lesson'[l].at, k \notin placed, l \notin placed
                   PROVE  FALSE
        BY <2>1 DEF NoDoubleBooking
      <4>1. CASE lesson'[k] = lesson[k] /\ lesson'[l] = lesson[l]
        BY <1>a, <4>1 DEF NoDoubleBooking, Live
      <4>2. CASE lesson'[k] # lesson[k]
        <5>1. k[1] = b /\ l[1] # b
          BY <3>1, <4>2
        <5> QED BY <3>2, <4>2, <5>1
      <4>3. CASE lesson'[l] # lesson[l]
        <5>1. l[1] = b /\ k[1] # b
          BY <3>1, <4>3
        <5> QED BY <3>2, <4>3, <5>1
      <4> QED BY <4>1, <4>2, <4>3
    <3> QED BY <2>4, <3>3
  <2> QED BY <1>3, <2>5, <2>6 DEF Book
<1>4. CASE BeginCancel(b) \/ EndCancel(b)
  <2>1. /\ ask[b].pc \in {"booked", "cancelling"} /\ ask'[b].pc \in {"cancelling", "over"}
        /\ \A c \in Students \ {b} : ask'[c] = ask[c]
        /\ UNCHANGED <<holder, placed>>
    <3>1. /\ [ask[b] EXCEPT !.pc = "cancelling", !.from = today,
                            !.listed = LiveFrom(b, today)].pc = "cancelling"
          /\ [ask[b] EXCEPT !.pc = "over", !.listed = {}].pc = "over"
      BY <1>a DEF Asks
    <3> QED BY <1>4, <1>a, <3>1 DEF BeginCancel, EndCancel, TypeOK
  <2>2. StudentLessonsStay
    <3>1. CASE BeginCancel(b)
      BY <3>1 DEF BeginCancel, StudentLessonsStay, Live
    <3>2. CASE EndCancel(b)
      BY <3>2, CancelledStay DEF EndCancel
    <3> QED BY <1>4, <3>1, <3>2
  <2>3. Holding'
    BY <1>a, <2>1 DEF Holding
  <2>4. SeenBusy'
    BY <2>1, <2>2, StayKeepsSeen DEF SeenBusy
  <2> QED BY <2>2, <2>3, <2>4, StayKeeps
<1> QED BY <1>1, <1>2, <1>3, <1>4 DEF Student

LEMMA StepBooking == BookingInv /\ [Next]_vars => BookingInv'
<1> SUFFICES ASSUME BookingInv, [Next]_vars PROVE BookingInv'
  OBVIOUS
<1>1. TypeOK'
  BY StepTypes DEF BookingInv
<1>2. ASSUME StudentLessonsStay, UNCHANGED <<ask, holder>>
      PROVE  Holding' /\ SeenBusy' /\ NoDoubleBooking'
  <2>1. Holding'
    BY <1>2 DEF BookingInv, Holding
  <2>2. SeenBusy'
    BY <1>2, StayKeepsSeen DEF SeenBusy
  <2> QED BY <1>2, <2>1, <2>2, StayKeeps
<1>3. Holding' /\ SeenBusy' /\ NoDoubleBooking'
  BY <1>2, StudentKeeps, TeacherStays, OthersStay DEF Next, BookingInv
<1> QED BY <1>1, <1>3 DEF BookingInv

(* What a student's cancellation leaves.                                   *)

Leaving(b) == ask[b].pc \in {"cancelling", "over"}

\* Since a student began to cancel, nothing of the booking has come to life but
\* what is recorded in late.
LeavingLessonsStay ==
  \A l \in Lessons :
    l[1] \in Students /\ Leaving(l[1]) /\ l \notin late' /\ Live(l)'
    => l \notin late /\ Live(l) /\ lesson'[l] = lesson[l]

\* What the query of a cancellation finds of a booking, by the server's dates.
Falls(l) == l[1] \in Students /\ Live(l) /\ ServerDate(l) >= ask[l[1]].from

\* Everything of a booking that is being cancelled is on the list, and nothing of
\* one that was is left, but what is recorded in late.
AllListed ==
  /\ \A b \in Students : Leaving(b) => ask[b].from \in Days
  /\ \A l \in Lessons :
       Falls(l) /\ l \notin late =>
         /\ ask[l[1]].pc = "cancelling" => l \in ask[l[1]].listed
         /\ ask[l[1]].pc # "over"

LeavingInv == TypeOK /\ AllListed

\* A lesson that the query misses on a day that is not over for the teacher is one
\* of that day, at an hour of the day before.
LEMMA MissedLesson ==
  ASSUME TypeOK, NEW l \in Lessons, NEW from \in Days,
         Day(l) >= from, ~(ServerDate(l) >= from)
  PROVE  Day(l) = from /\ DateShift[lesson[l].at[2]] = -1
<1>1. Days \subseteq Nat \ {0}
  BY Bounds DEF Days
<1>2. lesson[l].at \in Cells
  <2>1. lesson[l].at \in Cells \union {<<0, 0>>}
    BY DEF TypeOK, Rows
  <2>2. lesson[l].at # <<0, 0>>
    BY <1>1 DEF Day
  <2> QED BY <2>1, <2>2
<1>3. Day(l) \in Nat /\ lesson[l].at[2] \in Times
  BY <1>1, <1>2 DEF Cells, Day
<1>4. DateShift[lesson[l].at[2]] \in {-1, 0, 1}
  BY <1>3, BookingAssumption
<1> QED BY <1>1, <1>3, <1>4 DEF ServerDate

LEMMA InitLeaving == Init => LeavingInv
<1> SUFFICES ASSUME Init PROVE LeavingInv
  OBVIOUS
<1>1. \A l \in Lessons : ~Live(l)
  BY DEF Init, Live, NoLesson
<1>2. \A b \in Students : ~Leaving(b)
  BY DEF Init, Leaving, NewAsk
<1> QED BY <1>1, <1>2, InitTypes DEF LeavingInv, AllListed, Falls

LEMMA LeavingTouch ==
  ASSUME TypeOK, NEW k \in Lessons, NEW row, lesson' = lesson \/ lesson' = [lesson EXCEPT ![k] = row],
         UNCHANGED <<placed, late>> \/ Touch(k), Touch(k) \/ lesson' = lesson
  PROVE  LeavingLessonsStay
BY DEF LeavingLessonsStay, Leaving, Touch, Live, TypeOK

LEMMA LeavingStay ==
  ASSUME TypeOK, [Next]_vars
  PROVE  LeavingLessonsStay
<1>1. ASSUME UNCHANGED <<lesson, late>> PROVE LeavingLessonsStay
  BY <1>1 DEF LeavingLessonsStay, Live
<1>2. ASSUME NEW which, lesson' = Cancelled(which), UNCHANGED late PROVE LeavingLessonsStay
  BY <1>2 DEF LeavingLessonsStay, Cancelled, Live
<1>3. ASSUME NEW b \in Students, Student(b) PROVE LeavingLessonsStay
  <2>1. CASE Book(b)
    <3>1. ask[b].pc = "read" /\ UNCHANGED late
      BY <2>1 DEF Book
    <3>2. \A l \in Lessons : l[1] # b => lesson'[l] = lesson[l]
      BY <2>1 DEF Book, NewLessons
    <3> QED BY <3>1, <3>2 DEF LeavingLessonsStay, Leaving, Live
  <2>2. CASE EndCancel(b)
    BY <1>2, <2>2 DEF EndCancel
  <2> QED BY <1>1, <1>3, <2>1, <2>2 DEF Student, Lock, Preview, BeginCancel
<1>4. ASSUME NEW t \in Tabs, Teacher(t) PROVE LeavingLessonsStay
  <2>a. /\ tab[t] \in Requests /\ Proper(tab[t])
        /\ tab[t].op # "idle" => tab[t].lesson \in Lessons
    BY DEF TypeOK, Proper
  <2>1. CASE Create(t)
    <3>1. tab[t].lesson[1] \notin Students
      BY <2>1, <2>a, BookingAssumption DEF Create, Proper
    <3> QED BY <2>1, <3>1 DEF Create, NewLessons, LeavingLessonsStay, Live
  <2>2. CASE Move(t) \/ Save(t) \/ Restore(t)
    <3>1. tab[t].lesson \in Lessons
      BY <2>2, <2>a DEF Move, Save, Restore
    <3>2. UNCHANGED <<placed, late>> \/ Touch(tab[t].lesson)
      BY <2>2 DEF Move, Save, Restore
    <3>3. Touch(tab[t].lesson) \/ lesson' = lesson
      BY <2>2 DEF Move, Save, Restore
    <3>4. lesson' = lesson \/ \E row : lesson' = [lesson EXCEPT ![tab[t].lesson] = row]
      BY <2>2 DEF Move, Save, Restore
    <3> QED BY <3>1, <3>2, <3>3, <3>4, LeavingTouch
  <2>3. CASE CancelNext(t)
    BY <1>2, <2>3 DEF CancelNext
  <2> QED
    BY <1>1, <1>4, <2>1, <2>2, <2>3
    DEF Teacher, Begin, BeginCreate, BeginMove, BeginEdit, BeginRestore, BeginCancelSeries,
        CloseSeries, Release
<1>5. ASSUME NEW l \in Lessons, NEW status \in {"cancelled", "skipped"}, SetAside(l, status)
      PROVE  LeavingLessonsStay
  BY <1>5 DEF SetAside, LeavingLessonsStay, Live, TypeOK
<1>6. ASSUME NEW l \in Lessons, Delete(l) PROVE LeavingLessonsStay
  BY <1>6 DEF Delete, NoLesson, LeavingLessonsStay, Live, TypeOK
<1> QED BY <1>1, <1>3, <1>4, <1>5, <1>6 DEF Next, Tick, vars

\* How a step changes the requests of the students that cancel.
LEMMA LeavingAsks ==
  ASSUME TypeOK, [Next]_vars, NEW b \in Students
  PROVE  \/ ask'[b] = ask[b]
         \/ ~Leaving(b)' /\ ~Leaving(b)
         \/ ~Leaving(b) /\ ask'[b].pc = "cancelling" /\ ask'[b].from = today
            /\ ask'[b].listed = LiveFrom(b, today) /\ UNCHANGED <<lesson, late>>
         \/ ask[b].pc = "cancelling" /\ ask'[b].pc = "over" /\ ask'[b].from = ask[b].from
            /\ lesson' = Cancelled(ask[b].listed) /\ UNCHANGED late
<1>a. ask[b] \in Asks
  BY DEF TypeOK
<1>1. ASSUME NEW c \in Students, Student(c), c # b PROVE ask'[b] = ask[b]
  BY <1>1 DEF Student, Lock, Preview, Book, BeginCancel, EndCancel, TypeOK
<1>2. ASSUME NEW dates \in Patterns, NEW time \in Times, Lock(b, dates, time)
      PROVE  ~Leaving(b)' /\ ~Leaving(b)
  <2> DEFINE row == [ask[b] EXCEPT !.pc = "locked", !.dates = dates, !.time = time]
  <2>1. row.pc = "locked"
    BY <1>a DEF Asks
  <2>2. ask'[b] = row
    BY <1>2 DEF Lock, TypeOK
  <2> QED BY <1>2, <2>1, <2>2 DEF Lock, Leaving
<1>3. CASE \E available_only \in BOOLEAN : Preview(b, available_only)
  <2>1. \A occupied : [ask[b] EXCEPT !.pc = "read", !.occupied = occupied].pc = "read"
    BY <1>a DEF Asks
  <2> QED BY <1>3, <2>1, Initials DEF Preview, Leaving, TypeOK
<1>4. CASE Book(b)
  <2>1. [ask[b] EXCEPT !.pc = "booked", !.occupied = {}].pc = "booked"
    BY <1>a DEF Asks
  <2> QED BY <1>4, <2>1, Initials DEF Book, Leaving, TypeOK
<1>5. CASE BeginCancel(b)
  <2> DEFINE row == [ask[b] EXCEPT !.pc = "cancelling", !.from = today,
                                   !.listed = LiveFrom(b, today)]
  <2>1. row.pc = "cancelling" /\ row.from = today /\ row.listed = LiveFrom(b, today)
    BY <1>a DEF Asks
  <2>2. ask'[b] = row
    BY <1>5 DEF BeginCancel, TypeOK
  <2> QED BY <1>5, <2>1, <2>2 DEF BeginCancel, Leaving
<1>6. CASE EndCancel(b)
  <2> DEFINE row == [ask[b] EXCEPT !.pc = "over", !.listed = {}]
  <2>1. row.pc = "over" /\ row.from = ask[b].from
    BY <1>a DEF Asks
  <2>2. ask'[b] = row
    BY <1>6 DEF EndCancel, TypeOK
  <2> QED BY <1>6, <2>1, <2>2 DEF EndCancel
<1>7. CASE Student(b)
  BY <1>2, <1>3, <1>4, <1>5, <1>6, <1>7 DEF Student
<1>8. ASSUME \A c \in Students : ~Student(c) PROVE ask'[b] = ask[b]
  BY <1>8, TeacherStays, OthersStay DEF Next
<1> QED BY <1>1, <1>7, <1>8

LEMMA StepLeaving == LeavingInv /\ [Next]_vars => LeavingInv'
<1> SUFFICES ASSUME LeavingInv, [Next]_vars PROVE LeavingInv'
  OBVIOUS
<1>a. TypeOK /\ TypeOK' /\ LeavingLessonsStay
  BY StepTypes, LeavingStay DEF LeavingInv
<1>1. ASSUME NEW b \in Students, Leaving(b)' PROVE ask'[b].from \in Days
  <2>1. today \in Days /\ (Leaving(b) => ask[b].from \in Days)
    BY <1>a DEF LeavingInv, AllListed, TypeOK
  <2>2. CASE ask'[b] = ask[b]
    BY <1>1, <2>1, <2>2 DEF Leaving
  <2>3. CASE ask[b].pc = "cancelling" /\ ask'[b].from = ask[b].from
    BY <2>1, <2>3 DEF Leaving
  <2> QED BY <1>a, <1>1, <2>1, <2>2, <2>3, LeavingAsks
<1>2. ASSUME NEW l \in Lessons, Falls(l)', l \notin late'
      PROVE  /\ ask'[l[1]].pc = "cancelling" => l \in ask'[l[1]].listed
             /\ ask'[l[1]].pc # "over"
  <2> DEFINE b == l[1]
  <2>a. b \in Students
    BY <1>2 DEF Falls
  <2>s. Leaving(b) => l \notin late /\ Live(l) /\ lesson'[l] = lesson[l]
    BY <1>a, <1>2 DEF LeavingLessonsStay, Falls
  <2>1. CASE ask'[b] = ask[b]
    <3>1. Leaving(b) => Falls(l)
      BY <1>2, <2>s, <2>1 DEF Falls, ServerDate, Day
    <3> QED BY <2>s, <2>1, <3>1 DEF LeavingInv, AllListed, Leaving
  <2>2. CASE ask'[b].from = today /\ ask'[b].pc = "cancelling"
             /\ ask'[b].listed = LiveFrom(b, today) /\ UNCHANGED <<lesson, late>>
    BY <1>2, <2>2 DEF Falls, LiveFrom, Live, ServerDate, Day
  <2>3. CASE ask[b].pc = "cancelling" /\ ask'[b].pc = "over" /\ ask'[b].from = ask[b].from
             /\ lesson' = Cancelled(ask[b].listed)
    <3>1. l \notin late /\ Live(l) /\ lesson'[l] = lesson[l]
      BY <2>s, <2>3 DEF Leaving
    <3>2. Falls(l)
      BY <1>2, <2>3, <3>1 DEF Falls, ServerDate, Day
    <3>3. l \in ask[b].listed
      BY <2>3, <3>1, <3>2 DEF LeavingInv, AllListed
    <3> QED BY <1>2, <2>3, <3>1, <3>3 DEF Cancelled, Live, Falls
  <2>4. CASE ~Leaving(b)'
    BY <2>4 DEF Leaving
  <2> QED BY <1>a, <2>a, <2>1, <2>2, <2>3, <2>4, LeavingAsks
<1>3. AllListed'
  BY <1>1, <1>2 DEF AllListed
<1> QED BY <1>a, <1>3 DEF LeavingInv

(* A booking and its series.                                               *)

\* A student that has not booked has no series and no lessons, and no request of
\* the teacher names one of them.
Early(b) == ask[b].pc \in {"new", "locked", "read", "refused"}
Unnamed(b) == \A t \in Tabs : tab[t].op = "idle" \/ tab[t].lesson[1] # b
Untouched ==
  \A b \in Students : Early(b) =>
    /\ series[b] = NoSeries
    /\ \A l \in Lessons : l[1] = b => lesson[l].status = "none"
    /\ Unnamed(b)

\* A request that is about to release a booking has closed its series.
Closed ==
  \A t \in Tabs :
    tab[t].op = "release" /\ tab[t].lesson[1] \in Students
    => ~series[tab[t].lesson[1]].active

HeldInv == TypeOK /\ Untouched /\ Closed /\ HeldWhileRunning

LEMMA InitHeld == Init => HeldInv
<1> SUFFICES ASSUME Init PROVE HeldInv
  OBVIOUS
<1>1. Untouched
  BY DEF Init, Untouched, Unnamed, Idle, NoLesson, Series
<1>2. Closed /\ HeldWhileRunning
  BY DEF Init, Closed, HeldWhileRunning, Idle, NoSeries, Series
<1> QED BY <1>1, <1>2, InitTypes DEF HeldInv

\* A step that leaves the students' series and requests alone and neither starts
\* nor ends a release keeps the bookings.
LEMMA HeldStays ==
  ASSUME HeldInv,
         \A b \in Students : /\ series'[b].active = series[b].active
                             /\ series'[b].booking = series[b].booking,
         \A t \in Tabs : /\ tab'[t].op = "release" <=> tab[t].op = "release"
                         /\ tab[t].op = "release" => tab'[t] = tab[t]
  PROVE  Closed' /\ HeldWhileRunning'
BY DEF HeldInv, Closed, HeldWhileRunning

LEMMA StudentHolds ==
  ASSUME HeldInv, NEW b \in Students, Student(b)
  PROVE  Untouched' /\ Closed' /\ HeldWhileRunning'
<1>a. TypeOK /\ Untouched /\ Closed /\ HeldWhileRunning /\ ask[b] \in Asks /\ b \in Series
  BY DEF HeldInv, TypeOK, Series
<1>b. UNCHANGED tab /\ \A c \in Students : c # b => ask'[c] = ask[c]
  <2>1. UNCHANGED tab
    BY DEF Student, Lock, Preview, Book, BeginCancel, EndCancel
  <2>2. \E row : ask' = [ask EXCEPT ![b] = row]
    BY DEF Student, Lock, Preview, Book, BeginCancel, EndCancel
  <2> QED BY <1>a, <2>1, <2>2 DEF TypeOK
<1>1. ASSUME UNCHANGED <<series, lesson>>, Early(b) \/ ~Early(b)'
      PROVE  Untouched' /\ Closed' /\ HeldWhileRunning'
  <2>1. Untouched'
    BY <1>a, <1>b, <1>1 DEF Untouched, Early, Unnamed
  <2> QED BY <1>b, <1>1, <2>1, HeldStays
<1>2. CASE (\E dates \in Patterns, time \in Times : Lock(b, dates, time))
           \/ (\E available_only \in BOOLEAN : Preview(b, available_only))
  BY <1>1, <1>2 DEF Lock, Preview, Early
<1>3. CASE Book(b)
  <2>1. CASE SlotTaken(b)
    BY <1>1, <1>3, <2>1 DEF Book, Early
  <2>2. CASE ~SlotTaken(b)
    <3> DEFINE row == [ask[b] EXCEPT !.pc = "booked", !.occupied = {}]
    <3>1. row.pc = "booked"
      BY <1>a DEF Asks
    <3>2. ask'[b] = row
      BY <1>a, <1>3, <2>2 DEF Book, TypeOK
    <3>3. /\ series'[b].active /\ series'[b].booking = "active"
          /\ \A c \in Students : c # b => series'[c] = series[c]
          /\ \A l \in Lessons : l[1] # b => lesson'[l] = lesson[l]
      BY <1>a, <1>3, <2>2 DEF Book, NewLessons, TypeOK, Series
    <3>4. Untouched'
      <4> SUFFICES ASSUME NEW c \in Students, Early(c)'
                   PROVE  /\ series'[c] = NoSeries
                          /\ \A l \in Lessons : l[1] = c => lesson'[l].status = "none"
                          /\ Unnamed(c)'
        BY DEF Untouched
      <4>1. c # b
        BY <3>1, <3>2 DEF Early
      <4>2. Early(c)
        BY <1>b, <4>1 DEF Early
      <4> QED BY <1>a, <1>b, <3>3, <4>1, <4>2 DEF Untouched, Unnamed
    <3>5. Unnamed(b)
      BY <1>a, <1>3 DEF Untouched, Early, Book
    <3>6. Closed' /\ HeldWhileRunning'
      BY <1>a, <1>b, <3>3, <3>5 DEF Closed, HeldWhileRunning, Unnamed
    <3> QED BY <3>4, <3>6
  <2> QED BY <2>1, <2>2
<1>4. CASE BeginCancel(b)
  <2> DEFINE row == [ask[b] EXCEPT !.pc = "cancelling", !.from = today,
                                   !.listed = LiveFrom(b, today)]
  <2>1. row.pc = "cancelling"
    BY <1>a DEF Asks
  <2>2. ask'[b] = row
    BY <1>a, <1>4 DEF BeginCancel, TypeOK
  <2> QED BY <1>1, <1>4, <2>1, <2>2 DEF BeginCancel, Early
<1>5. CASE EndCancel(b)
  <2> DEFINE row == [ask[b] EXCEPT !.pc = "over", !.listed = {}]
             closed == [series[b] EXCEPT !.active = FALSE, !.booking = "cancelled"]
  <2>1. ~Early(b)'
    <3>1. row.pc = "over"
      BY <1>a DEF Asks
    <3>2. ask'[b] = row
      BY <1>a, <1>5 DEF EndCancel, TypeOK
    <3> QED BY <3>1, <3>2 DEF Early
  <2>2. series'[b] = closed /\ \A c \in Students : c # b => series'[c] = series[c]
    BY <1>a, <1>5 DEF EndCancel, TypeOK, Series
  <2>3. closed.active = FALSE /\ closed.booking = "cancelled"
    <3>1. series[b] \in SeriesRows
      BY <1>a DEF TypeOK
    <3> QED BY <3>1 DEF SeriesRows
  <2>4. \A l \in Lessons : lesson[l].status = "none" => lesson'[l] = lesson[l]
    BY <1>5 DEF EndCancel, Cancelled
  <2>5. Untouched'
    <3> SUFFICES ASSUME NEW c \in Students, Early(c)'
                 PROVE  /\ series'[c] = NoSeries
                        /\ \A l \in Lessons : l[1] = c => lesson'[l].status = "none"
                        /\ Unnamed(c)'
      BY DEF Untouched
    <3>1. c # b
      BY <2>1
    <3>2. Early(c)
      BY <1>b, <3>1 DEF Early
    <3> QED BY <1>a, <1>b, <2>2, <2>4, <3>1, <3>2 DEF Untouched, Unnamed
  <2>6. series'[b].active = FALSE /\ series'[b].booking = "cancelled"
    BY <2>2, <2>3
  <2>7. Closed' /\ HeldWhileRunning'
    <3> HIDE DEF closed
    <3> QED BY <1>a, <1>b, <2>2, <2>6 DEF Closed, HeldWhileRunning
  <2> QED BY <2>5, <2>7
<1> QED BY <1>2, <1>3, <1>4, <1>5 DEF Student

\* A request that starts names a series that is there or a draft.
LEMMA BeginHolds ==
  ASSUME HeldInv, NEW t \in Tabs, NEW request, Begin(t, request),
         request.op # "release",
         \A b \in Students : Early(b) => request.lesson[1] # b
  PROVE  Untouched' /\ Closed' /\ HeldWhileRunning'
<1>a. TypeOK /\ tab \in [Tabs -> Requests] /\ tab[t].op # "release"
  BY Initials DEF HeldInv, TypeOK, Begin, Idle
<1>1. tab' = [tab EXCEPT ![t] = request] /\ UNCHANGED <<series, lesson, ask>>
  BY DEF Begin
<1>2. Untouched'
  BY <1>a, <1>1 DEF HeldInv, Untouched, Early, Unnamed
<1>3. \A u \in Tabs : /\ tab'[u].op = "release" <=> tab[u].op = "release"
                      /\ tab[u].op = "release" => tab'[u] = tab[u]
  BY <1>a, <1>1
<1>4. Closed' /\ HeldWhileRunning'
  BY <1>1, <1>3, HeldStays
<1> QED BY <1>2, <1>4

\* A request that runs names no student that has not booked.
LEMMA NamedHasBooked ==
  ASSUME HeldInv, NEW t \in Tabs, tab[t].op # "idle"
  PROVE  \A b \in Students : Early(b) => tab[t].lesson[1] # b
BY DEF HeldInv, Untouched, Unnamed

\* A request ends, or goes on about the same lesson and does not release.
GoesOn(t) ==
  \E request : /\ tab' = [tab EXCEPT ![t] = request]
               /\ \/ request.op = "idle"
                  \/ request.op # "release" /\ request.lesson = tab[t].lesson

\* A step of a request that does not release keeps the bookings, if it touches
\* nothing of a student that has not booked and leaves every series as it is.
LEMMA WriteHolds ==
  ASSUME HeldInv, NEW t \in Tabs, tab[t].op \notin {"idle", "release"}, UNCHANGED ask,
         GoesOn(t),
         \A b \in Students : series'[b] = series[b],
         \A l \in Lessons : lesson[l].status = "none" /\ l[1] \in Students
                            /\ l[1] # tab[t].lesson[1] => lesson'[l] = lesson[l]
  PROVE  Untouched' /\ Closed' /\ HeldWhileRunning'
<1>a. TypeOK /\ tab \in [Tabs -> Requests]
  BY DEF HeldInv, TypeOK
<1>1. Untouched'
  <2> SUFFICES ASSUME NEW b \in Students, Early(b)'
               PROVE  /\ series'[b] = NoSeries
                      /\ \A l \in Lessons : l[1] = b => lesson'[l].status = "none"
                      /\ Unnamed(b)'
    BY DEF Untouched
  <2>1. Early(b) /\ Unnamed(b) /\ tab[t].lesson[1] # b
    BY NamedHasBooked DEF Early, HeldInv, Untouched
  <2>2. Unnamed(b)'
    BY <1>a, <2>1 DEF Unnamed, GoesOn
  <2> QED BY <2>1, <2>2 DEF HeldInv, Untouched
<1>2. \A u \in Tabs : /\ tab'[u].op = "release" <=> tab[u].op = "release"
                      /\ tab[u].op = "release" => tab'[u] = tab[u]
  BY <1>a DEF GoesOn
<1>3. Closed' /\ HeldWhileRunning'
  BY <1>2, HeldStays
<1> QED BY <1>1, <1>3

LEMMA IdleGoesOn == ASSUME NEW t \in Tabs, End(t) PROVE GoesOn(t)
<1>1. Idle.op = "idle"
  BY DEF Idle
<1>2. tab' = [tab EXCEPT ![t] = Idle]
  BY DEF End
<1> QED BY <1>1, <1>2 DEF GoesOn

LEMMA TeacherHolds ==
  ASSUME HeldInv, NEW t \in Tabs, Teacher(t)
  PROVE  Untouched' /\ Closed' /\ HeldWhileRunning'
<1>a. /\ TypeOK /\ Untouched /\ Closed /\ HeldWhileRunning
      /\ tab \in [Tabs -> Requests] /\ tab[t] \in Requests /\ Proper(tab[t])
      /\ tab[t].op # "idle" => tab[t].lesson \in Lessons
  BY DEF HeldInv, TypeOK, Proper
<1>b. Idle.op = "idle"
  BY DEF Idle
<1>1. ASSUME NEW n \in Drafts, NEW dates \in Patterns, NEW time \in Times,
             NEW force \in BOOLEAN, BeginCreate(t, n, dates, time, force)
      PROVE  Untouched' /\ Closed' /\ HeldWhileRunning'
  <2> DEFINE request == [Idle EXCEPT !.op = "create", !.lesson = <<n, First(dates)>>,
                           !.to = <<First(dates), time>>, !.dates = dates]
  <2>1. request.op = "create" /\ request.lesson[1] = n
    BY DEF Idle
  <2>2. n \notin Students
    BY BookingAssumption
  <2>3. Begin(t, request)
    BY <1>1 DEF BeginCreate
  <2> HIDE DEF request
  <2> QED BY <2>1, <2>2, <2>3, BeginHolds
<1>2. ASSUME NEW l \in Lessons, lesson[l].status # "none",
             NEW request, Begin(t, request), request.op # "release", request.lesson = l
      PROVE  Untouched' /\ Closed' /\ HeldWhileRunning'
  <2>1. \A b \in Students : Early(b) => request.lesson[1] # b
    BY <1>a, <1>2 DEF Untouched
  <2> QED BY <1>2, <2>1, BeginHolds
<1>3. ASSUME NEW l \in Lessons, NEW to \in Cells, NEW force \in BOOLEAN,
             BeginMove(t, l, to, force)
      PROVE  Untouched' /\ Closed' /\ HeldWhileRunning'
  <2> DEFINE request == [Idle EXCEPT !.op = "move", !.lesson = l, !.to = to]
  <2>1. request.op # "release" /\ request.lesson = l
    BY DEF Idle
  <2>2. Begin(t, request) /\ lesson[l].status # "none"
    BY <1>3 DEF BeginMove
  <2> HIDE DEF request
  <2> QED BY <1>2, <2>1, <2>2
<1>4. ASSUME NEW l \in Lessons, BeginEdit(t, l)
      PROVE  Untouched' /\ Closed' /\ HeldWhileRunning'
  <2> DEFINE request == [Idle EXCEPT !.op = "edit", !.lesson = l, !.row = lesson[l]]
  <2>1. request.op # "release" /\ request.lesson = l
    BY DEF Idle
  <2>2. Begin(t, request) /\ lesson[l].status # "none"
    BY <1>4 DEF BeginEdit
  <2> HIDE DEF request
  <2> QED BY <1>2, <2>1, <2>2
<1>5. ASSUME NEW l \in Lessons, NEW to \in Cells, BeginRestore(t, l, to)
      PROVE  Untouched' /\ Closed' /\ HeldWhileRunning'
  <2> DEFINE request == [Idle EXCEPT !.op = "restore", !.lesson = l, !.to = to]
  <2>1. request.op # "release" /\ request.lesson = l
    BY DEF Idle
  <2>2. Begin(t, request) /\ lesson[l].status # "none"
    BY <1>5 DEF BeginRestore, Inactive
  <2> HIDE DEF request
  <2> QED BY <1>2, <2>1, <2>2
<1>6. ASSUME NEW s \in Series, NEW from \in Days \union {0}, BeginCancelSeries(t, s, from)
      PROVE  Untouched' /\ Closed' /\ HeldWhileRunning'
  <2> DEFINE request == [Idle EXCEPT !.op = "cancel", !.lesson = <<s, 1>>,
                                     !.todo = LiveFrom(s, from)]
  <2>1. request.op # "release" /\ request.lesson[1] = s
    BY DEF Idle
  <2>2. Begin(t, request) /\ series[s] # NoSeries
    BY <1>6 DEF BeginCancelSeries
  <2>3. \A b \in Students : Early(b) => request.lesson[1] # b
    BY <1>a, <2>1, <2>2 DEF Untouched
  <2> HIDE DEF request
  <2> QED BY <2>1, <2>2, <2>3, BeginHolds
<1>7. CASE Create(t)
  <2>1. tab[t].lesson[1] \in Drafts \ Students /\ tab[t].op = "create"
    BY <1>7, <1>a, BookingAssumption DEF Create, Proper
  <2>2. \A b \in Students : series'[b] = series[b]
    BY <1>7, <1>a, <2>1 DEF Create, TypeOK, Series
  <2>3. \A l \in Lessons : l[1] \in Students => lesson'[l] = lesson[l]
    BY <1>7, <2>1 DEF Create, NewLessons
  <2>4. GoesOn(t) /\ UNCHANGED ask
    BY <1>7, IdleGoesOn DEF Create
  <2> QED BY <2>1, <2>2, <2>3, <2>4, WriteHolds
<1>8. CASE Move(t) \/ Save(t) \/ Restore(t)
  <2>1. tab[t].op \in {"move", "edit", "restore"} /\ UNCHANGED <<series, ask>>
    BY <1>8 DEF Move, Save, Restore
  <2>2. GoesOn(t)
    <3>1. CASE Move(t)
      <4> DEFINE request == [Idle EXCEPT !.op = "edit", !.lesson = tab[t].lesson,
                                         !.row = lesson'[tab[t].lesson]]
      <4>1. request.op # "release" /\ request.lesson = tab[t].lesson
        BY DEF Idle
      <4>2. End(t) \/ tab' = [tab EXCEPT ![t] = request]
        BY <3>1 DEF Move
      <4> HIDE DEF request
      <4> QED BY <4>1, <4>2, IdleGoesOn DEF GoesOn
    <3>2. CASE Save(t) \/ Restore(t)
      BY <3>2, IdleGoesOn DEF Save, Restore
    <3> QED BY <1>8, <3>1, <3>2
  <2>3. lesson' = lesson \/ \E row : lesson' = [lesson EXCEPT ![tab[t].lesson] = row]
    BY <1>8 DEF Move, Save, Restore
  <2>4. \A l \in Lessons : l[1] # tab[t].lesson[1] => lesson'[l] = lesson[l]
    BY <1>a, <2>3 DEF TypeOK
  <2> QED BY <2>1, <2>2, <2>4, WriteHolds
<1>9. CASE CancelNext(t)
  <2>1. tab[t].op = "cancel" /\ UNCHANGED <<series, ask>>
    BY <1>9 DEF CancelNext
  <2>2. \E todo : tab' = [tab EXCEPT ![t] = [tab[t] EXCEPT !.todo = todo]]
    BY <1>9, <1>a DEF CancelNext
  <2>3. \A todo : /\ [tab[t] EXCEPT !.todo = todo].op = "cancel"
                  /\ [tab[t] EXCEPT !.todo = todo].lesson = tab[t].lesson
    BY <1>a, <2>1 DEF Requests
  <2>4. \A l \in Lessons : lesson[l].status = "none" => lesson'[l] = lesson[l]
    BY <1>9 DEF CancelNext, Cancelled
  <2>5. GoesOn(t)
    BY <2>2, <2>3 DEF GoesOn
  <2> QED BY <2>1, <2>4, <2>5, WriteHolds
<1>10. CASE CloseSeries(t) \/ Release(t)
  <2> DEFINE s == tab[t].lesson[1]
  <2>1. s \in Series /\ (s \in Students => ~Early(s)) /\ tab[t].op \in {"cancel", "release"}
    BY <1>a, <1>10, NamedHasBooked DEF CloseSeries, Release, Lessons
  <2>2. \E request : tab' = [tab EXCEPT ![t] = request]
                     /\ (request.op = "idle" \/ request.lesson = tab[t].lesson)
    <3>1. CASE CloseSeries(t)
      <4>1. [tab[t] EXCEPT !.op = "release"].lesson = tab[t].lesson
        BY <1>a DEF Requests
      <4> QED BY <3>1, <4>1 DEF CloseSeries
    <3>2. CASE Release(t)
      BY <1>b, <3>2 DEF Release, End
    <3> QED BY <1>10, <3>1, <3>2
  <2>3. UNCHANGED <<lesson, ask>> /\ \A b \in Students : b # s => series'[b] = series[b]
    BY <1>a, <1>10, <2>1 DEF CloseSeries, Release, TypeOK, Series
  <2>4. Untouched'
    <3> SUFFICES ASSUME NEW b \in Students, Early(b)'
                 PROVE  /\ series'[b] = NoSeries
                        /\ \A l \in Lessons : l[1] = b => lesson'[l].status = "none"
                        /\ Unnamed(b)'
      BY DEF Untouched
    <3>1. Early(b) /\ b # s
      BY <2>1, <2>3 DEF Early
    <3>2. Unnamed(b) /\ Unnamed(b)'
      BY <1>a, <2>2, <3>1 DEF Untouched, Unnamed
    <3> QED BY <1>a, <2>3, <3>1, <3>2 DEF Untouched
  <2>5. CASE CloseSeries(t)
    <3>1. tab'[t].op = "release" /\ tab'[t].lesson[1] = s
      <4>1. [tab[t] EXCEPT !.op = "release"].op = "release"
            /\ [tab[t] EXCEPT !.op = "release"].lesson = tab[t].lesson
        BY <1>a DEF Requests
      <4>2. tab'[t] = [tab[t] EXCEPT !.op = "release"]
        BY <1>a, <2>5 DEF CloseSeries
      <4> QED BY <4>1, <4>2
    <3>2. \A u \in Tabs : u # t => tab'[u] = tab[u]
      BY <1>a, <2>2
    <3>3. series'[s].active = FALSE
      <4>1. [series[s] EXCEPT !.active = FALSE].active = FALSE
        BY <1>a, <2>1 DEF TypeOK, SeriesRows
      <4>2. series'[s] = [series[s] EXCEPT !.active = FALSE]
        BY <1>a, <2>1, <2>5 DEF CloseSeries, TypeOK
      <4> QED BY <4>1, <4>2
    <3>4. tab[t].op = "cancel"
      BY <2>5 DEF CloseSeries
    <3>5. Closed'
      BY <1>a, <2>3, <3>1, <3>2, <3>3 DEF Closed
    <3>6. HeldWhileRunning'
      <4> SUFFICES ASSUME NEW b \in Students, b # s,
                          (series'[b].booking = "active") # series'[b].active
                   PROVE  \E u \in Tabs : tab'[u].op = "release" /\ tab'[u].lesson[1] = b
        BY <3>1 DEF HeldWhileRunning
      <4>1. PICK u \in Tabs : tab[u].op = "release" /\ tab[u].lesson[1] = b
        BY <1>a, <2>3 DEF HeldWhileRunning
      <4> QED BY <3>2, <3>4, <4>1
    <3> QED BY <2>4, <3>5, <3>6
  <2>6. CASE Release(t)
    <3>1. tab[t].op = "release" /\ tab'[t].op = "idle"
      BY <1>a, <1>b, <2>6 DEF Release, End
    <3>2. \A u \in Tabs : u # t => tab'[u] = tab[u]
      BY <1>a, <2>2
    <3>3. s \in Students => series[s].active = FALSE
      BY <1>a, <2>1, <3>1 DEF Closed, TypeOK, SeriesRows
    <3>4. series'[s].active = series[s].active /\ series'[s].booking # "active"
      <4> DEFINE row == [series[s] EXCEPT !.booking = "cancelled"]
      <4>1. row.active = series[s].active /\ row.booking = "cancelled"
        BY <1>a, <2>1 DEF TypeOK, SeriesRows
      <4>2. series'[s] = IF series[s].booking = "active" THEN row ELSE series[s]
        BY <1>a, <2>1, <2>6 DEF Release, TypeOK
      <4> HIDE DEF row
      <4> QED BY <4>1, <4>2
    <3>5. Closed'
      BY <1>a, <2>3, <3>1, <3>2, <3>4, <3>3 DEF Closed
    <3>6. HeldWhileRunning'
      <4> SUFFICES ASSUME NEW b \in Students,
                          (series'[b].booking = "active") # series'[b].active
                   PROVE  \E u \in Tabs : tab'[u].op = "release" /\ tab'[u].lesson[1] = b
        BY DEF HeldWhileRunning
      <4>1. b # s
        BY <3>3, <3>4
      <4>2. PICK u \in Tabs : tab[u].op = "release" /\ tab[u].lesson[1] = b
        BY <1>a, <2>3, <4>1 DEF HeldWhileRunning
      <4> QED BY <3>2, <4>1, <4>2
    <3> QED BY <2>4, <3>5, <3>6
  <2> QED BY <1>10, <2>4, <2>5, <2>6
<1> QED
  <2>1. ASSUME NEW l \in Lessons, NEW to \in Cells, NEW force \in BOOLEAN,
               BeginMove(t, l, to, force)
        PROVE  Untouched' /\ Closed' /\ HeldWhileRunning'
    BY <1>3, <2>1
  <2> QED BY <1>1, <2>1, <1>4, <1>5, <1>6, <1>7, <1>8, <1>9, <1>10 DEF Teacher

LEMMA StepHeld == HeldInv /\ [Next]_vars => HeldInv'
<1> SUFFICES ASSUME HeldInv, [Next]_vars PROVE HeldInv'
  OBVIOUS
<1>a. TypeOK /\ TypeOK' /\ Untouched
  BY StepTypes DEF HeldInv
<1>1. CASE Tick \/ UNCHANGED vars
  <2>1. UNCHANGED <<series, lesson, ask, tab>>
    BY <1>1 DEF Tick, vars
  <2> QED BY <1>a, <2>1 DEF HeldInv, Untouched, Early, Unnamed, Closed, HeldWhileRunning
<1>2. ASSUME NEW l \in Lessons, NEW status \in {"cancelled", "skipped"}, SetAside(l, status)
      PROVE  HeldInv'
  <2>1. UNCHANGED <<series, ask, tab>> /\ lesson[l].status # "none"
        /\ \A k \in Lessons : k # l => lesson'[k] = lesson[k]
    BY <1>a, <1>2 DEF SetAside, TypeOK
  <2>2. Untouched'
    BY <1>a, <2>1 DEF Untouched, Early, Unnamed
  <2> QED BY <1>a, <2>1, <2>2 DEF HeldInv, Closed, HeldWhileRunning
<1>3. ASSUME NEW l \in Lessons, Delete(l) PROVE HeldInv'
  <2> DEFINE row == [series[l[1]] EXCEPT !.excluded = @ \union {Day(l)}]
  <2>1. l[1] \in Series /\ lesson[l].status # "none" /\ UNCHANGED <<ask, tab>>
    BY <1>3 DEF Delete, Inactive, Lessons
  <2>2. row.active = series[l[1]].active /\ row.booking = series[l[1]].booking
    BY <1>a, <2>1 DEF TypeOK, SeriesRows
  <2>3. series' = [series EXCEPT ![l[1]] = row]
    BY <1>3 DEF Delete
  <2> HIDE DEF row
  <2>4. /\ \A s \in Series : s # l[1] => series'[s] = series[s]
        /\ \A k \in Lessons : k # l => lesson'[k] = lesson[k]
    BY <1>a, <1>3, <2>1, <2>3 DEF Delete, TypeOK
  <2>5. \A b \in Students : /\ series'[b].active = series[b].active
                            /\ series'[b].booking = series[b].booking
    BY <1>a, <2>1, <2>2, <2>3 DEF TypeOK, Series
  <2>6. Untouched'
    BY <1>a, <2>1, <2>4 DEF Untouched, Early, Unnamed, Series
  <2> QED BY <1>a, <2>1, <2>5, <2>6, HeldStays DEF HeldInv
<1> QED BY <1>a, <1>1, <1>2, <1>3, StudentHolds, TeacherHolds DEF Next, HeldInv

(* Lessons that are not on.                                                *)

\* A draft without a series has no lessons, and only a request to create it, one
\* at most, names it.
Blank(n) ==
  /\ \A l \in Lessons : l[1] = n => lesson[l].status = "none"
  /\ \A t \in Tabs : tab[t].op \in {"idle", "create"} \/ tab[t].lesson[1] # n
  /\ \A t, u \in Tabs : /\ tab[t].op = "create" /\ tab[t].lesson[1] = n
                       /\ tab[u].op = "create" /\ tab[u].lesson[1] = n
                       => t = u

\* A draft has a series with dates, or it is blank and nobody else creates it.
Drawn ==
  /\ \A n \in Drafts : series[n] # NoSeries => series[n].dates # {}
  /\ \A n \in Drafts : series[n] = NoSeries => Blank(n)
  /\ \A t \in Tabs : tab[t].op = "create" =>
        series[tab[t].lesson[1]] = NoSeries /\ tab[t].dates # {}

DrawnInv == HeldInv /\ Drawn

LEMMA InitDrawn == Init => DrawnInv
<1> SUFFICES ASSUME Init PROVE DrawnInv
  OBVIOUS
<1>1. Drawn
  BY DEF Init, Drawn, Blank, Idle, NoLesson, Series
<1> QED BY <1>1, InitHeld DEF DrawnInv

\* A request ends, or goes on about the same lesson.
RunsOn(t) ==
  \E request : /\ tab' = [tab EXCEPT ![t] = request]
               /\ \/ request.op = "idle"
                  \/ request.op # "create" /\ request.lesson = tab[t].lesson

\* No series of a draft is made, and none loses its dates.
SeriesStay ==
  \A n \in Drafts : \/ series'[n] = series[n]
                    \/ series'[n].dates # {} /\ series[n] # NoSeries

LEMMA IdleRunsOn == ASSUME NEW t \in Tabs, tab' = [tab EXCEPT ![t] = Idle] PROVE RunsOn(t)
BY Initials DEF RunsOn

\* The step of a request that makes no series.
LEMMA DrawnWrite ==
  ASSUME DrawnInv, NEW t \in Tabs, tab[t].op \notin {"idle", "create"}, RunsOn(t), SeriesStay,
         \A l \in Lessons : lesson[l].status = "none" /\ l[1] # tab[t].lesson[1]
                            => lesson'[l].status = "none"
  PROVE  Drawn'
<1>a. TypeOK /\ tab \in [Tabs -> Requests] /\ Drawn
  BY DEF DrawnInv, HeldInv, TypeOK
<1>1. /\ \A u \in Tabs : u # t => tab'[u] = tab[u]
      /\ \/ tab'[t].op = "idle"
         \/ tab'[t].op # "create" /\ tab'[t].lesson = tab[t].lesson
  BY <1>a DEF RunsOn
<1>2. \A u \in Tabs : tab'[u].op = "create" =>
        tab[u].op = "create" /\ tab'[u] = tab[u] /\ tab[u].lesson[1] \in Drafts
  BY <1>1, <1>a DEF TypeOK, Proper
<1>3. \A n \in Drafts : series'[n] = NoSeries => series[n] = NoSeries
  BY DEF NoSeries, SeriesStay
<1>4. ASSUME NEW n \in Drafts, series'[n] = NoSeries PROVE Blank(n)'
  <2>1. Blank(n) /\ tab[t].lesson[1] # n
    BY <1>a, <1>3, <1>4 DEF Drawn, Blank
  <2>2. \A u \in Tabs : tab'[u].op \in {"idle", "create"} \/ tab'[u].lesson[1] # n
    BY <2>1, <1>1 DEF Blank
  <2> QED BY <2>1, <2>2, <1>2 DEF Blank
<1>5. \A n \in Drafts : series'[n] # NoSeries => series'[n].dates # {}
  BY <1>a DEF Drawn, SeriesStay
<1>6. \A u \in Tabs : tab'[u].op = "create" =>
        series'[tab'[u].lesson[1]] = NoSeries /\ tab'[u].dates # {}
  BY <1>a, <1>2 DEF Drawn, SeriesStay
<1> QED BY <1>4, <1>5, <1>6 DEF Drawn

\* A request that begins, and is not one to create.
LEMMA DrawnBegin ==
  ASSUME DrawnInv, NEW t \in Tabs, NEW request, Begin(t, request),
         request.op # "create",
         \A n \in Drafts : series[n] = NoSeries => request.lesson[1] # n
  PROVE  Drawn'
<1>a. TypeOK /\ tab \in [Tabs -> Requests] /\ Drawn
  BY DEF DrawnInv, HeldInv, TypeOK
<1>1. /\ tab' = [tab EXCEPT ![t] = request] /\ UNCHANGED <<series, lesson>>
      /\ \A u \in Tabs : u # t => tab'[u] = tab[u]
      /\ tab'[t] = request
  BY <1>a DEF Begin
<1>2. \A n \in Drafts : series[n] = NoSeries => Blank(n)'
  BY <1>a, <1>1 DEF Drawn, Blank
<1> QED BY <1>a, <1>1, <1>2 DEF Drawn

LEMMA DrawnTeacher == ASSUME DrawnInv, NEW t \in Tabs, Teacher(t) PROVE Drawn'
<1>a. /\ TypeOK /\ Drawn /\ tab[t] \in Requests /\ Proper(tab[t])
      /\ tab \in [Tabs -> Requests]
      /\ series \in [Series -> SeriesRows] /\ lesson \in [Lessons -> Rows]
  BY DEF DrawnInv, HeldInv, TypeOK
<1>b. \A l \in Lessons : lesson[l].status # "none" =>
        \A n \in Drafts : series[n] = NoSeries => l[1] # n
  BY <1>a DEF Drawn, Blank
<1>1. ASSUME NEW n \in Drafts, NEW dates \in Patterns, NEW time \in Times,
             NEW force \in BOOLEAN, BeginCreate(t, n, dates, time, force)
      PROVE  Drawn'
  <2> DEFINE request == [Idle EXCEPT !.op = "create", !.lesson = <<n, First(dates)>>,
                                     !.to = <<First(dates), time>>, !.dates = dates]
  <2>1. request.op = "create" /\ request.lesson[1] = n /\ request.dates # {}
    BY FirstDay DEF Idle
  <2>2. /\ series[n] = NoSeries /\ tab[t] = Idle
        /\ \A u \in Tabs : ~(tab[u].op = "create" /\ tab[u].lesson[1] = n)
        /\ tab' = [tab EXCEPT ![t] = request] /\ UNCHANGED <<series, lesson>>
    BY <1>1 DEF BeginCreate, Begin
  <2> HIDE DEF request
  <2>3. tab'[t] = request /\ \A u \in Tabs : u # t => tab'[u] = tab[u]
    BY <1>a, <2>2
  <2>4. ASSUME NEW m \in Drafts, series[m] = NoSeries PROVE Blank(m)'
    <3>1. Blank(m)
      BY <1>a, <2>4 DEF Drawn
    <3>2. \A u, w \in Tabs : /\ tab'[u].op = "create" /\ tab'[u].lesson[1] = m
                            /\ tab'[w].op = "create" /\ tab'[w].lesson[1] = m
                            => u = w
      BY <2>1, <2>2, <2>3, <3>1 DEF Blank
    <3> QED BY <2>1, <2>2, <2>3, <3>1, <3>2 DEF Blank
  <2> QED BY <1>a, <2>1, <2>2, <2>3, <2>4 DEF Drawn
<1>2. ASSUME NEW l \in Lessons, NEW to \in Cells, NEW force \in BOOLEAN,
             BeginMove(t, l, to, force)
      PROVE  Drawn'
  <2> DEFINE request == [Idle EXCEPT !.op = "move", !.lesson = l, !.to = to]
  <2>1. request.op = "move" /\ request.lesson = l /\ Begin(t, request)
        /\ lesson[l].status # "none"
    BY <1>2 DEF BeginMove, Idle
  <2> HIDE DEF request
  <2> QED BY <2>1, <1>b, DrawnBegin
<1>3. ASSUME NEW l \in Lessons, BeginEdit(t, l) PROVE Drawn'
  <2> DEFINE request == [Idle EXCEPT !.op = "edit", !.lesson = l, !.row = lesson[l]]
  <2>1. request.op = "edit" /\ request.lesson = l /\ Begin(t, request)
        /\ lesson[l].status # "none"
    BY <1>3 DEF BeginEdit, Idle
  <2> HIDE DEF request
  <2> QED BY <2>1, <1>b, DrawnBegin
<1>4. ASSUME NEW l \in Lessons, NEW to \in Cells, BeginRestore(t, l, to) PROVE Drawn'
  <2> DEFINE request == [Idle EXCEPT !.op = "restore", !.lesson = l, !.to = to]
  <2>1. request.op = "restore" /\ request.lesson = l /\ Begin(t, request)
        /\ lesson[l].status # "none"
    BY <1>4 DEF BeginRestore, Idle, Inactive
  <2> HIDE DEF request
  <2> QED BY <2>1, <1>b, DrawnBegin
<1>5. ASSUME NEW s \in Series, NEW from \in Days \union {0}, BeginCancelSeries(t, s, from) PROVE Drawn'
  <2> DEFINE request == [Idle EXCEPT !.op = "cancel", !.lesson = <<s, 1>>,
                                     !.todo = LiveFrom(s, from)]
  <2>1. request.op = "cancel" /\ request.lesson[1] = s /\ Begin(t, request)
        /\ series[s] # NoSeries
    BY <1>5 DEF BeginCancelSeries, Idle
  <2> HIDE DEF request
  <2> QED BY <2>1, DrawnBegin
<1>6. CASE Create(t)
  <2> DEFINE n == tab[t].lesson[1]
             row == [dates |-> tab[t].dates, time |-> tab[t].to[2], excluded |-> {},
                     active |-> TRUE, booking |-> "none"]
  <2>1. /\ tab[t].op = "create" /\ n \in Drafts /\ n \in Series
        /\ series[n] = NoSeries /\ Blank(n) /\ tab[t].dates # {}
    BY <1>6, <1>a DEF Create, Proper, Drawn, Series
  <2>2. /\ series' = [series EXCEPT ![n] = row] /\ row.dates # {} /\ row # NoSeries
        /\ lesson' = NewLessons(n, tab[t].dates, tab[t].to[2])
        /\ tab' = [tab EXCEPT ![t] = Idle]
    BY <1>6, <2>1 DEF Create, End, NoSeries
  <2> HIDE DEF n, row
  <2>3. /\ series'[n] = row /\ \A m \in Drafts : m # n => series'[m] = series[m]
        /\ \A l \in Lessons : l[1] # n => lesson'[l] = lesson[l]
        /\ tab'[t] = Idle /\ \A u \in Tabs : u # t => tab'[u] = tab[u]
    BY <1>a, <2>1, <2>2 DEF NewLessons, Series
  <2>4. \A u \in Tabs : tab'[u].op = "create" =>
          u # t /\ tab[u].op = "create" /\ tab[u].lesson[1] # n /\ tab[u].lesson[1] \in Drafts
    BY <1>a, <2>1, <2>3, Initials DEF Blank, n, TypeOK, Proper
  <2>5. ASSUME NEW m \in Drafts, series'[m] = NoSeries PROVE Blank(m)'
    <3>1. m # n /\ Blank(m)
      BY <1>a, <2>2, <2>3, <2>5 DEF Drawn
    <3> QED BY <2>3, <2>4, <3>1, Initials DEF Blank
  <2> QED BY <1>a, <2>2, <2>3, <2>4, <2>5 DEF Drawn
<1>7. CASE Move(t) \/ Save(t) \/ Restore(t)
  <2>1. tab[t].op \notin {"idle", "create"} /\ tab[t].lesson \in Lessons /\ UNCHANGED series
    BY <1>7, <1>a DEF Move, Save, Restore, Proper
  <2>2. \A l \in Lessons : l # tab[t].lesson => lesson'[l] = lesson[l]
    BY <1>7, <1>a, <2>1 DEF Move, Save, Restore
  <2>3. RunsOn(t)
    <3>1. CASE Move(t)
      <4> DEFINE request == [Idle EXCEPT !.op = "edit", !.lesson = tab[t].lesson,
                                         !.row = lesson'[tab[t].lesson]]
      <4>1. request.op = "edit" /\ request.lesson = tab[t].lesson
        BY DEF Idle
      <4>2. tab' = [tab EXCEPT ![t] = Idle] \/ tab' = [tab EXCEPT ![t] = request]
        BY <3>1 DEF Move, End
      <4> HIDE DEF request
      <4> QED BY <4>1, <4>2, IdleRunsOn DEF RunsOn
    <3> QED BY <1>7, <3>1, IdleRunsOn DEF Save, Restore, End
  <2>4. SeriesStay
    BY <2>1 DEF SeriesStay
  <2> QED BY <2>1, <2>2, <2>3, <2>4, DrawnWrite
<1>8. CASE CancelNext(t)
  <2> DEFINE request(l) == [tab[t] EXCEPT !.todo = @ \ {l}]
  <2>1. PICK l \in Lessons : /\ lesson' = Cancelled({l})
                             /\ tab' = [tab EXCEPT ![t] = request(l)]
    BY <1>8, <1>a DEF CancelNext, Requests
  <2>2. tab[t].op = "cancel" /\ UNCHANGED series
    BY <1>8 DEF CancelNext
  <2>3. request(l).op = "cancel" /\ request(l).lesson = tab[t].lesson
    BY <1>a, <2>2 DEF Requests
  <2>4. \A k \in Lessons : lesson[k].status = "none" => lesson'[k].status = "none"
    BY <2>1 DEF Cancelled
  <2> HIDE DEF request
  <2>5. RunsOn(t) /\ SeriesStay
    BY <2>1, <2>2, <2>3 DEF RunsOn, SeriesStay
  <2> QED BY <2>2, <2>4, <2>5, DrawnWrite
<1>9. CASE CloseSeries(t)
  <2> DEFINE s == tab[t].lesson[1]
             request == [tab[t] EXCEPT !.op = "release"]
             row == [series[s] EXCEPT !.active = FALSE]
  <2>1. /\ tab[t].op = "cancel" /\ UNCHANGED lesson /\ tab[t].lesson \in Lessons
        /\ tab' = [tab EXCEPT ![t] = request] /\ series' = [series EXCEPT ![s] = row]
    BY <1>9, <1>a DEF CloseSeries, Proper
  <2>2. request.op = "release" /\ request.lesson = tab[t].lesson
    BY <1>a DEF Requests
  <2>3. s \in Series /\ row.dates = series[s].dates
    BY <1>a, <2>1 DEF Lessons, SeriesRows
  <2>4. s \in Drafts => series[s] # NoSeries /\ row.dates # {}
    BY <1>a, <2>1, <2>3 DEF Drawn, Blank
  <2>6. RunsOn(t)
    BY <2>1, <2>2 DEF RunsOn
  <2> HIDE DEF s, request, row
  <2>5. SeriesStay
    BY <1>a, <2>1, <2>3, <2>4 DEF SeriesStay
  <2> QED BY <2>1, <2>5, <2>6, DrawnWrite
<1>10. CASE Release(t)
  <2> DEFINE s == tab[t].lesson[1]
             row == IF series[s].booking = "active"
                    THEN [series[s] EXCEPT !.booking = "cancelled"] ELSE series[s]
  <2>1. /\ tab[t].op = "release" /\ UNCHANGED lesson /\ tab[t].lesson \in Lessons
        /\ tab' = [tab EXCEPT ![t] = Idle] /\ series' = [series EXCEPT ![s] = row]
    BY <1>10, <1>a DEF Release, Proper, End
  <2>3. s \in Series /\ row.dates = series[s].dates
    BY <1>a, <2>1 DEF Lessons, SeriesRows
  <2>4. s \in Drafts => series[s] # NoSeries /\ row.dates # {}
    BY <1>a, <2>1, <2>3 DEF Drawn, Blank
  <2> HIDE DEF row
  <2>5. SeriesStay
    BY <1>a, <2>1, <2>3, <2>4 DEF SeriesStay
  <2> QED BY <2>1, <2>5, IdleRunsOn, DrawnWrite
<1> QED
  <2>1. ASSUME NEW n \in Drafts, NEW dates \in Patterns, NEW time \in Times,
               NEW force \in BOOLEAN, BeginCreate(t, n, dates, time, force)
        PROVE  Drawn'
    BY <1>1, <2>1
  <2>2. ASSUME NEW l \in Lessons, NEW to \in Cells, NEW force \in BOOLEAN,
               BeginMove(t, l, to, force)
        PROVE  Drawn'
    BY <1>2, <2>2
  <2> QED BY <2>1, <2>2, <1>3, <1>4, <1>5, <1>6, <1>7, <1>8, <1>9, <1>10 DEF Teacher

\* A step that changes no draft and no request of the teacher.
LEMMA DrawnStays ==
  ASSUME DrawnInv, UNCHANGED tab, SeriesStay,
         \A l \in Lessons : lesson[l].status = "none" /\ l[1] \in Drafts
                            => lesson'[l].status = "none"
  PROVE  Drawn'
<1>a. TypeOK /\ Drawn
  BY DEF DrawnInv, HeldInv
<1>1. \A n \in Drafts : series'[n] = NoSeries => series[n] = NoSeries
  BY DEF NoSeries, SeriesStay
<1>2. \A n \in Drafts : series'[n] = NoSeries => Blank(n)'
  BY <1>a, <1>1 DEF Drawn, Blank
<1>3. \A t \in Tabs : tab[t].op = "create" => tab[t].lesson[1] \in Drafts
  BY <1>a DEF TypeOK, Proper
<1> QED BY <1>a, <1>1, <1>2, <1>3 DEF Drawn, SeriesStay

LEMMA StepDrawn == DrawnInv /\ [Next]_vars => DrawnInv'
<1> SUFFICES ASSUME DrawnInv, [Next]_vars PROVE Drawn'
  BY StepHeld DEF DrawnInv
<1>a. /\ TypeOK /\ Drawn
      /\ series \in [Series -> SeriesRows] /\ lesson \in [Lessons -> Rows]
  BY DEF DrawnInv, HeldInv, TypeOK
<1>1. CASE Tick \/ UNCHANGED vars
  BY <1>1, DrawnStays DEF Tick, vars, SeriesStay
<1>2. ASSUME NEW l \in Lessons, NEW status \in {"cancelled", "skipped"}, SetAside(l, status)
      PROVE  Drawn'
  <2>1. UNCHANGED <<series, tab>> /\ lesson[l].status # "none"
        /\ \A k \in Lessons : k # l => lesson'[k] = lesson[k]
    BY <1>a, <1>2 DEF SetAside
  <2> QED BY <2>1, DrawnStays DEF SeriesStay
<1>3. ASSUME NEW l \in Lessons, Delete(l) PROVE Drawn'
  <2> DEFINE s == l[1]
             row == [series[s] EXCEPT !.excluded = @ \union {Day(l)}]
  <2>1. s \in Series /\ lesson[l].status # "none" /\ UNCHANGED tab
        /\ series' = [series EXCEPT ![s] = row]
    BY <1>3 DEF Delete, Inactive, Lessons
  <2>2. row.dates = series[s].dates
    BY <1>a, <2>1 DEF SeriesRows
  <2>3. s \in Drafts => series[s] # NoSeries /\ row.dates # {}
    BY <1>a, <2>1, <2>2 DEF Drawn, Blank
  <2>4. \A k \in Lessons : k # l => lesson'[k] = lesson[k]
    BY <1>a, <1>3 DEF Delete
  <2> HIDE DEF row
  <2>5. SeriesStay
    BY <1>a, <2>1, <2>3 DEF SeriesStay
  <2> QED BY <2>1, <2>4, <2>5, DrawnStays
<1>4. ASSUME NEW b \in Students, Student(b) PROVE Drawn'
  <2>1. \A n \in Drafts : n # b
    BY BookingAssumption
  <2>2. UNCHANGED tab
    BY <1>4 DEF Student, Lock, Preview, Book, BeginCancel, EndCancel
  <2>3. \A n \in Drafts : series'[n] = series[n]
    BY <1>4, <1>a, <2>1 DEF Student, Lock, Preview, Book, BeginCancel, EndCancel, Series
  <2>4. \A l \in Lessons : lesson[l].status = "none" /\ l[1] \in Drafts
                           => lesson'[l].status = "none"
    BY <1>4, <2>1 DEF Student, Lock, Preview, Book, BeginCancel, EndCancel, NewLessons, Cancelled
  <2> QED BY <2>2, <2>3, <2>4, DrawnStays DEF SeriesStay
<1> QED BY <1>1, <1>2, <1>3, <1>4, DrawnTeacher DEF Next

\* What brings a lesson back: its restoration, or an edit that has read it as live.
BroughtBack(l) ==
  \E t \in Tabs : /\ tab[t].lesson = l
                  /\ \/ tab[t].op = "restore"
                     \/ tab[t].op = "edit" /\ tab[t].row.status \in {"planned", "moved"}

LEMMA StepStays ==
  ASSUME DrawnInv, [Next]_vars, NEW l \in Lessons, Inactive(l), Live(l)'
  PROVE  BroughtBack(l)
<1>a. /\ TypeOK /\ Drawn /\ Untouched
      /\ lesson \in [Lessons -> Rows]
  BY DEF DrawnInv, HeldInv, TypeOK
<1>b. lesson[l].status \in {"cancelled", "skipped"} /\ lesson'[l].status \in {"planned", "moved"}
  BY DEF Inactive, Live
<1>c. ASSUME NEW which, lesson' = Cancelled(which) PROVE FALSE
  <2>1. lesson'[l] = IF l \in which /\ lesson[l].status # "none"
                     THEN [lesson[l] EXCEPT !.status = "cancelled"] ELSE lesson[l]
    BY <1>c DEF Cancelled
  <2>2. [lesson[l] EXCEPT !.status = "cancelled"].status = "cancelled"
    BY <1>a DEF Rows
  <2> QED BY <1>b, <2>1, <2>2
<1>1. ASSUME NEW b \in Students, Student(b) PROVE BroughtBack(l)
  <2>1. CASE Book(b)
    <3>1. \A k \in Lessons : k[1] = b => lesson[k].status = "none"
      BY <1>a, <2>1 DEF Book, Untouched, Early
    <3> QED BY <1>b, <2>1, <3>1 DEF Book, NewLessons
  <2> QED BY <1>1, <1>b, <1>c, <2>1 DEF Student, Lock, Preview, BeginCancel, EndCancel
<1>2. ASSUME NEW t \in Tabs, Teacher(t) PROVE BroughtBack(l)
  <2>a. tab[t] \in Requests /\ Proper(tab[t])
    BY <1>a DEF TypeOK
  <2>1. CASE Create(t)
    <3>1. tab[t].lesson[1] \in Drafts /\ Blank(tab[t].lesson[1])
      BY <1>a, <2>1, <2>a DEF Create, Proper, Drawn
    <3> QED BY <1>b, <2>1, <3>1 DEF Create, NewLessons, Blank
  <2>2. CASE Move(t)
    <3>1. lesson' = lesson \/ lesson' = [lesson EXCEPT ![tab[t].lesson] =
                                          [at |-> tab[t].to, status |-> StatusAfterMove(tab[t].lesson)]]
      BY <2>2 DEF Move
    <3>2. Inactive(tab[t].lesson) => StatusAfterMove(tab[t].lesson) = lesson[tab[t].lesson].status
      BY DEF StatusAfterMove
    <3> QED BY <1>a, <1>b, <3>1, <3>2 DEF Inactive
  <2>3. CASE Save(t)
    BY <1>a, <1>b, <2>3 DEF Save, BroughtBack
  <2>4. CASE Restore(t)
    BY <1>a, <1>b, <2>4 DEF Restore, BroughtBack
  <2>5. CASE CancelNext(t)
    BY <1>c, <2>5 DEF CancelNext
  <2> QED
    BY <1>2, <1>b, <2>1, <2>2, <2>3, <2>4, <2>5
    DEF Teacher, Begin, BeginCreate, BeginMove, BeginEdit, BeginRestore, BeginCancelSeries,
        CloseSeries, Release
<1>3. ASSUME NEW k \in Lessons, NEW status \in {"cancelled", "skipped"}, SetAside(k, status)
      PROVE  BroughtBack(l)
  BY <1>3, <1>a, <1>b DEF SetAside, Rows
<1>4. ASSUME NEW k \in Lessons, Delete(k) PROVE BroughtBack(l)
  BY <1>4, <1>a, <1>b DEF Delete, NoLesson
<1>5. CASE Tick \/ UNCHANGED vars
  BY <1>5, <1>b DEF Tick, vars
<1> QED BY <1>1, <1>2, <1>3, <1>4, <1>5 DEF Next

(* The theorems.                                                           *)

\* The types of the calendar and of the requests (availability_service.py,
\* schedule_service.py, lesson_lifecycle.py, views.py).
THEOREM TypesHold == Spec => []TypeOK
<1> QED BY InitTypes, StepTypes, PTL DEF Spec

\* No cell of the calendar is booked by two students, whatever the teacher writes
\* in between without the lock (book_slot).
THEOREM BookedOnce == Spec => []NoDoubleBooking
<1>1. BookingInv => NoDoubleBooking
  BY DEF BookingInv
<1> QED BY <1>1, InitBooking, StepBooking, PTL DEF Spec

\* When a student has cancelled a booking, the lessons of it that are left from
\* that day on are those the teacher has touched since and those of that very day
\* at an hour which is of the day before on the server, however the two zones are
\* apart (cancel_student_booking, cancel_series).
THEOREM CancelledForGood == Spec => []NothingLeftBehind
<1>1. LeavingInv => NothingLeftBehind
  <2> SUFFICES ASSUME LeavingInv, NEW l \in Lessons, l[1] \in Students,
                      ask[l[1]].pc = "over", Live(l), Day(l) >= ask[l[1]].from,
                      l \notin late
               PROVE  Day(l) = ask[l[1]].from /\ DateShift[lesson[l].at[2]] = -1
    BY DEF NothingLeftBehind
  <2>1. TypeOK /\ ask[l[1]].from \in Days /\ ~Falls(l)
    BY DEF LeavingInv, AllListed, Leaving
  <2>2. ~(ServerDate(l) >= ask[l[1]].from)
    BY <2>1 DEF Falls
  <2> QED BY <2>1, <2>2, MissedLesson
<1> QED BY <1>1, InitLeaving, StepLeaving, PTL DEF Spec

\* A weekday of the calendar is held by a booking as long as its series runs and
\* no longer, but for the moment in which the teacher closes it (cancel_series,
\* cancel_student_booking).
THEOREM WeekdayHeldAndReleased == Spec => []HeldWhileRunning
<1>1. HeldInv => HeldWhileRunning
  BY DEF HeldInv
<1> QED BY <1>1, InitHeld, StepHeld, PTL DEF Spec

\* A lesson that is not on comes back only by its restoration or by an edit that
\* had read it as live; no booking, no new series and no move revives it
\* (move_event, restore_event, the edit view).
THEOREM CancelledLessonsStay == Spec => StaysCancelled
<1>1. DrawnInv /\ [Next]_vars
        => [\A l \in Lessons :
              Inactive(l) /\ Live(l)' =>
                \E t \in Tabs : /\ tab[t].lesson = l
                                /\ \/ tab[t].op = "restore"
                                   \/ tab[t].op = "edit"
                                      /\ tab[t].row.status \in {"planned", "moved"}]_vars
  BY StepStays DEF BroughtBack
<1> QED BY <1>1, InitDrawn, StepDrawn, PTL DEF Spec, StaysCancelled
=============================================================================
