----------------------------- MODULE LessonBilling -----------------------------
(***************************************************************************)
(* What a teacher's student owes for lessons: one account with one package *)
(* of lessons, lessons of the same price, and payments the teacher enters. *)
(* A lesson is settled by an entry of the ledger, a charge or one unit of  *)
(* the package; entries are never deleted, they are reversed.              *)
(*                                                                         *)
(* Billing, settling and refunding a lesson lock its billing record.  The  *)
(* cancellation of a lesson locks the event and reads the record and its   *)
(* entries with no lock, and a charge is paid from free money that is read *)
(* with no lock on the payments: those two take several steps here.  The   *)
(* other operations hold the record from their first read to their commit. *)
(***************************************************************************)
EXTENDS Integers, Sequences, FiniteSets, Functions

CONSTANTS
    Lessons,        \* 1 .. n, the lessons of the account by their dates
    Payments,       \* 1 .. n, payments by the order they are entered
    Amounts,        \* bound: the amounts a teacher enters
    Price,          \* calculate_lesson_price
    Units,          \* total_units of the package
    Requests,       \* bound: requests that may overlap
    MaxBegun,       \* bound: billings, cancellations, changes of the package
    MaxEntries      \* bound: entries of the ledger

ASSUME BillingAssumption ==
    /\ Lessons \subseteq Nat /\ IsFiniteSet(Lessons)
    /\ Payments \subseteq Nat /\ IsFiniteSet(Payments)
    /\ Price \in Nat \ {0} /\ Units \in Nat /\ MaxEntries \in Nat
    /\ MaxBegun \in Nat
    /\ Amounts \subseteq Nat \ {0}

VARIABLES
    event,          \* status of the lesson's ScheduleEvent
    record,         \* EventBillingRecord of the lesson
    ledger,         \* BillingTransaction: charges and units, in order
    package,        \* LessonPackage: units left and status
    amount,         \* amount of a StudentPayment, 0 when not entered
    paid,           \* StudentPaymentAllocation: money of a payment on a lesson
    request,        \* what each request has read and holds
    begun           \* how many of those were begun

vars == <<event, record, ledger, package, amount, paid, request, begun>>

-----------------------------------------------------------------------------
(* State *)

Delivery  == {"planned", "conducted", "cancelled"}
Unpaid    == {"awaiting", "partial"}
Finance   == {"not_charged", "not_billable", "paid", "package"} \cup Unpaid
Money     == [Payments -> Nat]
Records   == [delivery : Delivery, finance : Finance, charged : Nat,
              paid : Nat, final : BOOLEAN, auto : BOOLEAN]
Entries   == [lesson : Lessons, kind : {"charge", "unit"}, auto : BOOLEAN,
              cleared : Nat, undone : Nat]

Idle == [step |-> "idle"]
Working ==
         [step : {"billing"}, lesson : Lessons, auto : BOOLEAN,
          event : {"planned", "completed", "cancelled"}]
    \cup [step : {"settling"}, lesson : Lessons, auto : BOOLEAN, unit : BOOLEAN,
          event : {"planned", "completed", "cancelled"}, free : Money]
    \cup [step : {"cancelling"}, lesson : Lessons, copy : Records]
    \cup [step : {"undoing"}, lesson : Lessons, copy : Records,
          paid : BOOLEAN, entries : SUBSET Nat]

TypeOK ==
    /\ event \in [Lessons -> {"planned", "completed", "cancelled"}]
    /\ record \in [Lessons -> Records]
    /\ ledger \in Seq(Entries)
    /\ package \in [left : Nat, total : Nat, status : {"active", "exhausted", "cancelled"}]
    /\ amount \in [Payments -> Nat]
    /\ paid \in [Payments -> [Lessons -> Nat]]
    /\ request \in [Requests -> Working \cup {Idle}]
    /\ begun \in Nat

NewRecord == [delivery |-> "planned", finance |-> "not_charged", charged |-> 0,
              paid |-> 0, final |-> FALSE, auto |-> FALSE]

Init ==
    /\ event = [l \in Lessons |-> "planned"]
    /\ record = [l \in Lessons |-> NewRecord]
    /\ ledger = <<>>
    /\ package = [left |-> Units, total |-> Units,
                  status |-> IF Units > 0 THEN "active" ELSE "exhausted"]
    /\ amount = [p \in Payments |-> 0]
    /\ paid = [p \in Payments |-> [l \in Lessons |-> 0]]
    /\ request = [q \in Requests |-> Idle]
    /\ begun = 0

-----------------------------------------------------------------------------
(* The ledger, the package and the money *)

Live(i) == ledger[i].undone = 0
EntriesOf(l) == {i \in DOMAIN ledger : ledger[i].lesson = l}
LiveOf(l, kind) == {i \in EntriesOf(l) : Live(i) /\ ledger[i].kind = kind}
LiveEntries(l) == {i \in EntriesOf(l) : Live(i)}

\* _append_tx with the ledger key of the lesson
Entry(l, kind, auto, cleared) ==
    [lesson |-> l, kind |-> kind, auto |-> auto, cleared |-> cleared, undone |-> 0]
\* A billing that has begun has its place kept.
Room == Len(ledger) + Cardinality({q \in Requests : request[q].step \in {"billing", "settling"}})
            < MaxEntries

\* reverse_transaction appends the opposite entry and releases the key.
Undone(entries) ==
    [i \in DOMAIN ledger |->
        IF i \in entries THEN [ledger[i] EXCEPT !.undone = @ + 1] ELSE ledger[i]]
UnitsIn(entries) == Cardinality({i \in entries : ledger[i].kind = "unit"})

PackageWith(left) ==
    [package EXCEPT
        !.left = left,
        !.status = CASE package.status = "active" /\ left = 0 -> "exhausted"
                     [] package.status = "exhausted" /\ left > 0 -> "active"
                     [] OTHER -> package.status]
ReturnedIfActive(entries) ==
    IF package.status = "active" THEN PackageWith(package.left + UnitsIn(entries)) ELSE package
Returned(entries) == PackageWith(package.left + UnitsIn(entries))
UsableByStatus == package.status # "cancelled"
Usable == package.status = "active" /\ package.left > 0

Smaller(a, b) == IF a < b THEN a ELSE b
Above(a, b) == IF a > b THEN a - b ELSE 0

MoneyOn(l) == SumFunctionOnSet([p \in Payments |-> paid[p][l]], Payments)
Free(p) == Above(amount[p], SumFunctionOnSet(paid[p], Lessons))
HasFullPayment(l) == record[l].finance = "paid"
HasPayment(l) == record[l].paid > 0 \/ MoneyOn(l) > 0

FinanceForAny(charged, money) == IF money = 0 THEN "awaiting" ELSE "paid"

\* _refresh_financial_status of a charged lesson
FinanceFor(charged, money) ==
    CASE money = 0 -> "awaiting" [] money < charged -> "partial" [] OTHER -> "paid"

\* The reversal of a charge takes the money off its lesson.
Released(entries, l) ==
    IF \E i \in entries : ledger[i].kind = "charge"
    THEN [p \in Payments |-> [paid[p] EXCEPT ![l] = 0]] ELSE paid

\* The oldest payments close the debt first.
TakenFrom(free, due, p) ==
    Smaller(free[p], Above(due, SumFunctionOnSet(free, {k \in Payments : k < p})))

\* Rows another transaction holds
RecordHeld(l) == \E q \in Requests : request[q].step = "settling" /\ request[q].lesson = l
EventHeld(l) ==
    \E q \in Requests : request[q].step \in {"cancelling", "undoing"} /\ request[q].lesson = l

-----------------------------------------------------------------------------
(* Billing a lesson: the automatic one after its completion, or the modal *)

Begin(q) == request[q] = Idle /\ begun < MaxBegun /\ begun' = begun + 1

\* The complete view marks the event, commits, and bills the lesson after.
Complete(q, l) ==
    /\ Begin(q) /\ Room /\ ~EventHeld(l)
    /\ event' = [event EXCEPT ![l] = "completed"]
    /\ request' = [request EXCEPT ![q] =
           [step |-> "billing", lesson |-> l, auto |-> TRUE, event |-> "completed"]]
    /\ UNCHANGED <<record, ledger, package, amount, paid>>

\* The modal of the schedule sends a key of its own for every click.
AskBilling(q, l) ==
    /\ Begin(q) /\ Room
    /\ request' = [request EXCEPT ![q] =
           [step |-> "billing", lesson |-> l, auto |-> FALSE, event |-> event[l]]]
    /\ UNCHANGED <<event, record, ledger, package, amount, paid>>

\* What auto_finalize and finalize take for a lesson that is settled.
KeyUsedByAny(l) == \E i \in DOMAIN ledger : ledger[i].auto
KeyUsed(l) == \E i \in EntriesOf(l) : ledger[i].auto
SettledWhenPaid(l, auto) ==
    \/ record[l].final /\ record[l].finance \in {"paid", "package", "not_billable"}
    \/ auto /\ KeyUsed(l)
Settled(l, auto) ==
    \/ record[l].final /\ record[l].finance # "not_charged"
    \/ auto /\ KeyUsed(l)

LeaveBilling(q) ==
    /\ request[q].step = "billing" /\ ~RecordHeld(request[q].lesson)
    /\ Settled(request[q].lesson, request[q].auto)
    /\ request' = [request EXCEPT ![q] = Idle]
    /\ UNCHANGED <<event, record, ledger, package, amount, paid, begun>>

\* The record is locked; the package and the free money are only read.
LockForBilling(q) ==
    LET l == request[q].lesson
    IN  /\ request[q].step = "billing" /\ ~RecordHeld(l)
        /\ ~Settled(l, request[q].auto)
        /\ request' = [request EXCEPT ![q] =
               [step |-> "settling", lesson |-> l, auto |-> request[q].auto,
                unit |-> Usable, event |-> request[q].event,
                free |-> [p \in Payments |-> Free(p)]]]
        /\ UNCHANGED <<event, record, ledger, package, amount, paid, begun>>

\* The event is written unless it was read as completed.
EventWritten(q) ==
    LET l == request[q].lesson
    IN  IF request[q].event = "completed"
        THEN UNCHANGED event
        ELSE ~EventHeld(l) /\ event' = [event EXCEPT ![l] = "completed"]

\* consume_package returns the unit the lesson already has.
BillUnit(q) ==
    LET l == request[q].lesson
        new == LiveOf(l, "unit") = {}
    IN  /\ request[q].step = "settling" /\ request[q].unit /\ Usable
        /\ ledger' = IF new THEN Append(ledger, Entry(l, "unit", request[q].auto, 0))
                            ELSE ledger
        /\ package' = IF new THEN PackageWith(package.left - 1) ELSE package
        /\ record' = [record EXCEPT ![l] =
               [delivery |-> "conducted", finance |-> "package", charged |-> 0,
                paid |-> 0, final |-> TRUE, auto |-> request[q].auto]]
        /\ EventWritten(q)
        /\ request' = [request EXCEPT ![q] = Idle]
        /\ UNCHANGED <<amount, paid, begun>>

\* INSUFFICIENT_PACKAGE, PACKAGE_INACTIVE: the view swallows the error.
UnitGone(q) ==
    /\ request[q].step = "settling" /\ request[q].unit /\ ~Usable
    /\ request' = [request EXCEPT ![q] = Idle]
    /\ UNCHANGED <<event, record, ledger, package, amount, paid, begun>>

BillMoney(q) ==
    LET l == request[q].lesson
        due == Above(Price, record[l].paid)
        taken == [p \in Payments |-> TakenFrom(request[q].free, due, p)]
        money == record[l].paid + SumFunctionOnSet(taken, Payments)
    IN  /\ request[q].step = "settling" /\ ~request[q].unit
        /\ ledger' = IF LiveOf(l, "charge") = {}
                     THEN Append(ledger, Entry(l, "charge", request[q].auto, 0)) ELSE ledger
        /\ paid' = [p \in Payments |-> [paid[p] EXCEPT ![l] = @ + taken[p]]]
        /\ record' = [record EXCEPT ![l] =
               [delivery |-> "conducted", finance |-> FinanceFor(Price, money),
                charged |-> Price, paid |-> money, final |-> TRUE,
                auto |-> request[q].auto]]
        /\ EventWritten(q)
        /\ request' = [request EXCEPT ![q] = Idle]
        /\ UNCHANGED <<package, amount, begun>>

\* finalize with "skip": the pupil did not come and the teacher charges
\* nothing.  A lesson with money on it only changes its delivery.
Skipped(l) ==
    IF HasPayment(l)
    THEN [record[l] EXCEPT !.delivery = "conducted"]
    ELSE [record[l] EXCEPT !.delivery = "conducted", !.finance = "not_billable",
                           !.charged = 0, !.paid = 0, !.final = TRUE]

SkipBilling(l) ==
    LET entries == IF HasPayment(l) THEN {} ELSE LiveEntries(l)
    IN  /\ ~RecordHeld(l)
        /\ record' = [record EXCEPT ![l] = Skipped(l)]
        /\ ledger' = Undone(entries)
        /\ package' = Returned(entries)
        /\ paid' = Released(entries, l)
        /\ UNCHANGED <<event, amount, request, begun>>

\* unfinalize_event_billing refuses a lesson with money on it.
Unfinalize(l) ==
    /\ ~RecordHeld(l) /\ ~EventHeld(l) /\ ~HasPayment(l)
    /\ record' = [record EXCEPT ![l] = NewRecord]
    /\ ledger' = Undone(LiveEntries(l))
    /\ package' = Returned(LiveEntries(l))
    /\ paid' = Released(LiveEntries(l), l)
    /\ event' = [event EXCEPT ![l] = "planned"]
    /\ UNCHANGED <<amount, request, begun>>

-----------------------------------------------------------------------------
(* The package and the money of a lesson that was billed *)

\* charge_lesson_from_package: a unit takes the place of the charge.
SettleFromPackage(l) ==
    LET charges == LiveOf(l, "charge")
    IN  /\ ~RecordHeld(l) /\ Room
        /\ record[l].delivery = "conducted" /\ record[l].finance \in Unpaid
        /\ LiveOf(l, "unit") = {} /\ Usable /\ ~HasPayment(l)
        /\ ledger' = Append(Undone(charges), Entry(l, "unit", FALSE, record[l].charged))
        /\ package' = PackageWith(package.left - 1)
        /\ record' = [record EXCEPT ![l].finance = "package", ![l].charged = 0,
                                    ![l].paid = 0, ![l].final = TRUE]
        /\ UNCHANGED <<event, amount, paid, request, begun>>

\* refund_lesson_package_charge: the unit goes back, the debt comes back.
RefundUnit(l) ==
    /\ ~RecordHeld(l) /\ Room
    /\ \E i \in LiveOf(l, "unit") :
          LET restored == ledger[i].cleared
          IN  /\ ledger' = IF restored > 0
                           THEN Append(Undone({i}), Entry(l, "charge", FALSE, 0))
                           ELSE Undone({i})
              /\ package' = Returned({i})
              /\ record' = [record EXCEPT ![l].finance = "awaiting", ![l].final = TRUE,
                                          ![l].charged = IF restored > 0 THEN restored ELSE @]
    /\ UNCHANGED <<event, amount, paid, request, begun>>

Entered(p) == amount[p] > 0
NextPayment(p) == ~Entered(p) /\ \A k \in Payments : k < p => Entered(k)

\* mark_lesson_as_paid_manually: a payment of what the lesson lacks.
MarkPaid(l, p) ==
    LET charged == IF record[l].charged > 0 THEN record[l].charged ELSE Price
        lacking == IF record[l].charged > record[l].paid
                   THEN record[l].charged - record[l].paid ELSE Price
        money == Smaller(lacking, Above(charged, record[l].paid))
    IN  /\ ~RecordHeld(l) /\ NextPayment(p)
        /\ record[l].delivery = "conducted"
        /\ record[l].finance \notin {"paid", "package"} /\ LiveOf(l, "unit") = {}
        /\ amount' = [amount EXCEPT ![p] = lacking]
        /\ paid' = [paid EXCEPT ![p][l] = money]
        /\ record' = [record EXCEPT
               ![l].charged = charged, ![l].paid = @ + money, ![l].final = TRUE,
               ![l].finance = FinanceFor(charged, record[l].paid + money)]
        /\ UNCHANGED <<event, ledger, package, request, begun>>

\* register_payment: the oldest unpaid lessons are closed first.
Owing == {l \in Lessons : record[l].delivery = "conducted" /\ record[l].finance \in Unpaid}
Debt == [l \in Lessons |->
            IF l \in Owing THEN Above(record[l].charged, record[l].paid) ELSE 0]
Given(sum, l) == Smaller(Debt[l],
                         Above(sum, SumFunctionOnSet(Debt, {k \in Lessons : k < l})))

RegisterPayment(p, sum) ==
    /\ NextPayment(p) /\ \A l \in Owing : ~RecordHeld(l)
    /\ amount' = [amount EXCEPT ![p] = sum]
    /\ paid' = [paid EXCEPT ![p] = [l \in Lessons |-> Given(sum, l)]]
    /\ record' = [l \in Lessons |->
           IF Given(sum, l) = 0 THEN record[l]
           ELSE [record[l] EXCEPT
                    !.paid = @ + Given(sum, l),
                    !.finance = FinanceFor(record[l].charged, record[l].paid + Given(sum, l))]]
    /\ UNCHANGED <<event, ledger, package, request, begun>>

CancelPackage ==
    /\ package.status # "cancelled"
    /\ begun < MaxBegun /\ begun' = begun + 1
    /\ package' = [package EXCEPT !.status = "cancelled"]
    /\ UNCHANGED <<event, record, ledger, amount, paid, request>>

\* adjust_package: one more unit, by hand.
TopUp ==
    /\ begun < MaxBegun /\ begun' = begun + 1
    /\ package' = [PackageWith(package.left + 1) EXCEPT !.total = @ + 1]
    /\ UNCHANGED <<event, record, ledger, amount, paid, request>>

-----------------------------------------------------------------------------
(* Cancelling a lesson: the event is locked, its record is not *)

CancelReads(q, l) ==
    /\ Begin(q) /\ event[l] # "cancelled" /\ ~EventHeld(l)
    /\ request' = [request EXCEPT ![q] =
           [step |-> "cancelling", lesson |-> l, copy |-> record[l]]]
    /\ UNCHANGED <<event, record, ledger, package, amount, paid>>

\* record_has_confirmed_payment and _active_txs_for_record
CancelLists(q) ==
    LET l == request[q].lesson
    IN  /\ request[q].step = "cancelling"
        /\ request' = [request EXCEPT ![q] =
               [step |-> "undoing", lesson |-> l, copy |-> request[q].copy,
                paid |-> request[q].copy.paid > 0 \/ MoneyOn(l) > 0,
                entries |-> LiveEntries(l)]]
        /\ UNCHANGED <<event, record, ledger, package, amount, paid, begun>>

CancelKeepsPaid(q) ==
    LET l == request[q].lesson
    IN  /\ request[q].step = "undoing" /\ ~RecordHeld(l) /\ request[q].paid
        /\ record' = [record EXCEPT ![l].delivery = "cancelled"]
        /\ event' = [event EXCEPT ![l] = "cancelled"]
        /\ request' = [request EXCEPT ![q] = Idle]
        /\ UNCHANGED <<ledger, package, amount, paid, begun>>

\* The entries are reversed as they were listed: reverse_transaction looks
\* for an earlier reversal before it locks the entry, and not again.  Then
\* the copy of the record is saved whole.
CancelUndoes(q) ==
    LET l == request[q].lesson
        entries == request[q].entries
    IN  /\ request[q].step = "undoing" /\ ~RecordHeld(l) /\ ~request[q].paid
        /\ ledger' = Undone(entries)
        /\ package' = Returned(entries)
        /\ paid' = Released(entries, l)
        /\ record' = [record EXCEPT ![l] =
               [request[q].copy EXCEPT !.delivery = "cancelled", !.charged = 0, !.paid = 0,
                                       !.finance = "not_billable", !.final = TRUE]]
        /\ event' = [event EXCEPT ![l] = "cancelled"]
        /\ request' = [request EXCEPT ![q] = Idle]
        /\ UNCHANGED <<amount, begun>>

\* ALREADY_REVERSED: cancel_event swallows it and cancels the event.
CancelGivesUp(q) ==
    /\ request[q].step = "undoing" /\ ~request[q].paid
    /\ \E i \in request[q].entries : ~Live(i)
    /\ event' = [event EXCEPT ![request[q].lesson] = "cancelled"]
    /\ request' = [request EXCEPT ![q] = Idle]
    /\ UNCHANGED <<record, ledger, package, amount, paid, begun>>

\* A billing that holds the record and waits for the event, a cancellation
\* that holds the event and waits for the record: the database ends one.
LockVictim(q) ==
    /\ \E b, c \in Requests :
          /\ q \in {b, c}
          /\ request[b].step = "settling" /\ request[b].event # "completed"
          /\ request[c].step = "undoing" /\ request[c].lesson = request[b].lesson
    /\ request' = [request EXCEPT ![q] = Idle]
    /\ UNCHANGED <<event, record, ledger, package, amount, paid, begun>>

\* restore_event brings the lesson back and leaves its record as it is.
Restore(l) ==
    /\ event[l] = "cancelled" /\ ~EventHeld(l)
    /\ event' = [event EXCEPT ![l] = "planned"]
    /\ UNCHANGED <<record, ledger, package, amount, paid, request, begun>>

-----------------------------------------------------------------------------
Step(q) ==
    \/ LeaveBilling(q) \/ LockForBilling(q) \/ BillUnit(q) \/ UnitGone(q) \/ BillMoney(q)
    \/ CancelLists(q) \/ CancelKeepsPaid(q) \/ CancelUndoes(q) \/ CancelGivesUp(q)
    \/ LockVictim(q)

Next ==
    \/ \E q \in Requests : Step(q)
    \/ \E q \in Requests, l \in Lessons :
          Complete(q, l) \/ AskBilling(q, l) \/ CancelReads(q, l)
    \/ \E l \in Lessons :
          SkipBilling(l) \/ Unfinalize(l) \/ SettleFromPackage(l) \/ RefundUnit(l) \/ Restore(l)
    \/ \E l \in Lessons, p \in Payments : MarkPaid(l, p)
    \/ \E p \in Payments, sum \in Amounts : RegisterPayment(p, sum)
    \/ CancelPackage \/ TopUp

Spec == Init /\ [][Next]_vars

\* A request that has begun runs to its end.
FairSpec == Spec /\ \A q \in Requests : WF_vars(Step(q))

-----------------------------------------------------------------------------
(* Properties *)

\* A lesson is settled once: there is never a charge beside a unit of the
\* package, and never two of either, whatever was billed, reversed, paid or
\* refunded before (record_has_active_charge, _clear_money_charge_for_
\* package_settle and the ledger keys).
SettledOnce == \A l \in Lessons : Cardinality(LiveEntries(l)) <= 1

\* A lesson shown as taken from the package has a unit that is not
\* reversed; one shown as paid has that much money of payments on it.
SettlementIsReal ==
    \A l \in Lessons :
        /\ record[l].finance = "package" => LiveOf(l, "unit") # {}
        /\ record[l].finance = "paid" => MoneyOn(l) >= record[l].charged

\* Units left and units on lessons add up to those of the package: only a
\* cancellation whose list is out of date changes the difference, and then
\* the pupil gains a unit; none is ever lost.
Surplus ==
    package.left + Cardinality({i \in DOMAIN ledger : Live(i) /\ ledger[i].kind = "unit"})
        - package.total

ListOutOfDate(q) == /\ request[q].step = "undoing"
                    /\ \E i \in request[q].entries : ~Live(i)

UnitsAddUp ==
    [][Surplus' # Surplus =>
          /\ Surplus' > Surplus
          /\ \E q \in Requests : ListOutOfDate(q) /\ request'[q] = Idle]_vars

\* Money put on a lesson stays on it: no reversal of the lesson's billing
\* takes it off, except a cancellation that looked for payments before.
MoneyStays ==
    [][\A l \in Lessons :
          MoneyOn(l)' < MoneyOn(l) =>
              \E q \in Requests : /\ request[q].step = "undoing" /\ ~request[q].paid
                                  /\ request[q].lesson = l /\ request'[q] = Idle]_vars

\* auto_finalize_after_lesson_complete: a lesson whose completion is saved,
\* and that was never billed or cancelled, ends up charged or taken from the
\* package, unless the package is what it was to be taken from.
Fresh(l) == record[l] = NewRecord /\ EntriesOf(l) = {}
FreshLessonIsBilled ==
    \A l \in Lessons :
        (Fresh(l) /\ \E q \in Requests : /\ request[q].step = "billing"
                                        /\ request[q].lesson = l /\ request[q].auto)
            ~> (~Fresh(l) \/ Usable)

\* "Автосписание после завершения урока (журнал / complete)"
\* (src/Cabinet/billing_service.py:2776): the billing of a completed lesson
\* that no request works on has been decided.
CompletionBills ==
    \A l \in Lessons :
        event[l] = "completed" /\ (\A q \in Requests : request[q] = Idle)
            => record[l].final
=============================================================================
