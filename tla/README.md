# TLA+ models of ITFlux

ITFlux is a cabinet for private teachers: lessons with a video call, shared boards and
materials, homework, a journal, a paid subscription with promotions and promo codes, and the
billing between a teacher and the students. The server is a Django application with
PostgreSQL and Channels, the client a React application, and next to them run a tldraw sync
server and jobs started by cron.

The server is a set of worker processes without shared memory. Whatever two requests agree
on, they agree on through rows of the database: by `transaction.atomic`, by
`select_for_update`, by `get_or_create` on a unique key, or by nothing at all. That is where
unit tests reach least, since they run one request at a time, and it is what these models
are about.

A unit of atomicity in every model is one database transaction that locks the row it decides
on, or one unlocked read, or one call to an external service. Where the code counts by two
queries, the model has two steps.

## Files

| Module | What it is |
|---|---|
| `PaymentSettlement` | a subscription payment from checkout to settlement, with the bank |
| `PaidAccess` | abstract: charged payments, and only they, grant access |
| `PromotionLimit` | how the places of a limited promotion are given out |
| `LimitedUse` | abstract: places taken, used, given back, within two limits |
| `PromoCodeLimit` | how the uses of a promo code are reserved and counted |
| `CallFailover` | which video service a lesson is on and who knows it |
| `SubscriptionPeriod` | the period a teacher has paid for and everyone who moves its end |
| `AutoRenewal` | the hourly job that charges a saved card, and the teacher's refusal |
| `LessonBilling` | what a student owes: ledger, package and payments, settled lesson by lesson |
| `Booking` | a teacher's calendar: students book and cancel while the teacher rearranges it |
| `MC*` | small instances for TLC, one module for each of the eight components |
| `*_proofs` | the theorems and their TLAPS proofs, for each of the eight components |

`PROJECT.json` maps every definition to the lines it models, and lists runs, mutants,
findings, hazards and theorems.

## Inventory

For each part: its state, its operations, what it exchanges with the others, what is hard
and what makes it correct.

**Subscription payments** (`Cabinet/payment_service.py`, `tbank_payment.py`,
`payment_reconcile.py`). State: `Payment` (status, `provider_payment_id`, metadata with
`superseded_by`), `PaymentWebhookEvent` keyed by provider and event id. Operations:
`create_payment`, `handle_webhook`, `sync_payment_from_provider`, `reconcile`,
`create_recurrent_payment`, `activate_subscription_from_payment`. Calls the bank (Init,
GetState, Cancel, Charge) and is called by it (notifications). Hard: the same fact reaches
the server as a notification, as a GetState answer of the return page and as a reading of the
reconcile job, in any order and under different event keys; `create_payment` is a chain of
transactions with HTTP calls between. Correct when access follows the money: never without
it, always after it, once per charge.

**Promotions** (`promotion_service.py`). State: `Promotion` and `PromotionRedemption`.
Operations: price, reserve under the promotion's lock, confirm, release, grant at price zero.
Called by checkout and settlement. Correct when limits hold and no place is lost.

**Promo codes** (`PromoCodeService` in `subscription_service.py`). State: `PromoCode` with
`uses_count`, `PromoCodeUsage`. Operations: validate, apply, confirm, release; no lock when
applying. Correct when `uses_count` is the number of applied usages and the limits hold.

**Subscription periods** (`subscription_lifecycle.py`, `subscription_downgrade.py`,
`referral_service.py`, `registration_promo.py`, activation in `payment_service.py`). State:
`TeacherSubscription` (plan, status, `expires_at`, `prepaid_until`), `SubscriptionPlanChange`.
Operations: activation and prepayment, scheduling and cancelling a plan change, the hourly
job, bonus days, the cancel request, instant Start, the demotion on reading. Hard: many
writers of one row, some locked and some saving what they read earlier. Correct when no paid
day is lost unasked, and a period that is over ends.

**Automatic renewal** (`r61_autorenew.py`, `process_auto_renewals` in
`subscription_lifecycle.py`, `create_recurrent_payment`). State: `auto_renew`, the saved
card, consent in payment metadata, a payment per period and attempt. Hard: consent, refusal, hourly job
and late notification race; a charge that timed out may have succeeded. Correct when nobody
is charged after a refusal and no period is charged twice.

**Video call failover** (`video_failover.py`, `video_failover_models.py`, join-config in
`video_meeting_service.py`, the page `VideoMeetingPage.jsx` with `videoFailover.js`). State:
the `MeetingCallRoute` row; on each page a remembered generation and a room. Operations: see
CallFailover below. Hard: two looks at the row with a health probe in between, broadcasts and
polls that arrive late, three reasons to move a lesson that undo one another. Correct when
everyone of one generation is in one room, and the lesson neither flaps nor returns unasked.

**Meetings and attendance** (`video_meeting_service.py`, `lesson_lifecycle.py`,
`early_room.py`): a meeting's status, attendance rows, the finish of a lesson and the job that
expires stale rooms. Correct when a lesson is finished and billed once.

**Material session, presentation, screen share** (`meeting_material_session.py`,
`meeting_present.py`, `meeting_screenshare.py`, `meeting_consumers.py`): one active session, a
revision per operation, a controller, what is shown. Hard: operations carry a base revision
and are resent; mode changes and control transfer take no lock. Correct when one thing is
shown at a time, an operation is applied once, and only the controller leads.

**Boards** (`boards_api.py`, `boards_consumers.py`, `board_merge.py`,
`services/tldraw-sync`): scenes merged by element version from HTTP saves, sockets and the
sync server. Correct when an accepted stroke survives merges in any order.

**Schedule and booking** (`schedule_service.py`, `schedule_series.py`,
`availability_service.py`, `busy_intervals.py`, `lesson_lifecycle.py`, the schedule part of
`views.py`). State: `ScheduleEventSeries` with its exceptions, `ScheduleEvent`,
`TeacherBooking`. Operations: a student books a permanent time or cancels it, under the
teacher's row lock; the teacher creates, moves, edits, cancels, restores, skips and deletes
lessons without that lock. Hard: a check for conflicts and the write are apart, a view saves a
whole row it read earlier, and closing a series is a chain of transactions. Correct when two
students never get one time, and a cancelled lesson stays cancelled.

**Teacher-to-student billing** (`billing_service.py`, `billing_models.py`, and
`cancel_event` in `schedule_service.py`). State: an `EventBillingRecord` per lesson and
student, the ledger of `BillingTransaction`, `LessonPackage`, `StudentPayment` with its
allocations. Operations: billing on completion or by hand, undoing it, settling from the
package, entering payments, cancelling and restoring the lesson. Hard: a lesson is settled by
two currencies, each operation finds what the others left, and a cancellation works on a
record and a list of entries it read without a lock. Correct when a lesson is settled once,
a settlement is backed by a live entry, and no unit and no money disappear.

**Homework** (`homework_submit.py`, `homework_attempts.py`): attempts, revisions, reviews.
**Notifications** (`notification_dispatch.py`, `notification_delivery.py`): dispatch keyed
against duplicates, delivery attempts per channel. **Messaging** (`messaging/`): chats, read
marks, moderation. **Paid lessons** (`lesson_access.py`): content grants after a purchase.
**AI** (`ai_service.py`): external calls with usage counters. **Files**
(`files_services.py`): uploads and a storage total. **Journal and plans**
(`journal_service.py`, `plan_*.py`): sequential record keeping. **Accounts, parents,
invitations** (`r91_session.py`, `social_auth.py`, `invitations.py`, `parent_*.py`).
**Task bank** (`Generator/`): tasks, variants, scoring. **Clients** (`frontend/`,
`desktop/`). **Deployment** (`deploy/`): cron entries, read to know which job really runs.

The interactions modelled so far: a checkout writes the payment, reserves the promotion and
the promo code in transactions of their own, then calls the bank; a settlement changes the
payment, confirms or releases both reservations and activates the plan in one transaction;
what that activation writes is `SubscriptionPeriod`'s `Settle`, and the end of the period it
writes is what the renewal job looks at; a join-config reads and may move the route that
reports and commands move as well; completing and cancelling a lesson in the calendar start
the billing of it. The modules meet at these points but are checked apart: each takes the
others' steps as free choices of its environment (a payment may be settled at any time, a
lesson completed or cancelled at any time), so what it shows does not depend on them.

## PaymentSettlement

A `Payment` row is a member of `Payments`; a form at the bank is a pair `<<row, number>>`. Form 1
is opened by the request that creates the row, the others by requests that repeat its POST with
the same idempotency key while the row shows no form (`payment_service.py:193`): each sends an
Init of its own, and the row keeps the PaymentId written last (`tbank_payment.py:551`). Whoever
got the address of a form can pay it, so one row may be charged more than once.

`status`, `supersededBy`, `promo` are columns of the rows of `Payment` and `PromoCodeUsage` (the
status the code calls CANCELLED for a usage is "released" here), `pid` is the form that
`provider_payment_id` names. `events` are the processed `PaymentWebhookEvent` rows: a
notification, a sync and a job of our own put the same bank status under different keys, which is
the whole point of `Event`. `step`, `todo`, `probed` are where the request that creates the row
stands, `resubmitted` are the repeated ones that wait for the bank; `reading` is what `reconcile`
has listed or read and not yet applied; `bank`, `payable` and `notes` belong to the bank and the
payer. `activated` counts, by form, the reports that called `activate_subscription_from_payment`.

| Action | Code |
|---|---|
| `CheckReuse` … `FinishCheckout` | the steps of `create_payment`, in their order |
| `ReservePromoFails` | the code is used up: FAILED, and nothing to release |
| `ReservePromotionFails` | the promotion is full: FAILED, and the code stays reserved |
| `InitFails`, `ReleaseAfterInitFailure` | its `except` branch: status first, release second |
| `ProbeSuperseded`, `CancelSupersededForm` | GetState and Cancel of `_supersede_other_pending` |
| `Resubmit`, `ResubmitInitOk`, `ResubmitInitFails` | the same POST again |
| `HandleWebhook` | `handle_webhook`, one transaction |
| `Notification`, `NotificationReplyLost` | `PaymentWebhookView` |
| `Sync` | `sync_payment_from_provider`, payment row locked |
| `ReconcileList`, `ReconcileAsks`, `ReconcileApply` | `reconcile`: list, ask the bank, apply later, nothing locked in between |
| `PayerConfirms`, `FormExpires`, `BankRefunds`, … | the bank (external) |

`Faults` names what the environment may do: lost replies (redelivery), a success after a declined
attempt on the same form, refunds, a dying worker. Each run says which faults it allows. That a
form survives a declined attempt is an assumption on the bank; the code is written for it, since
it handles `paid` from any status. A promotion place is full or not as the environment chooses;
how places are counted is `PromotionLimit`.

Not in the model: the amount check, card tokens and `RebillId`, the mock provider, recurrent
charges, purchases of lessons and collections, the zero-price grant (see PromotionLimit),
intermediate bank statuses that settle nothing, and the content of an activation. `reconcile`
lists a payment only when the request that created it works on it no more (`MIN_AGE`, half an
hour).

`PaidAccess` has three sets of charges: `charged`, `granted` and `absorbed`. A charge maps to a
form that is `Charged`, it is granted when the form has activated the plan, and absorbed when its
confirmation was processed and found the payment granted for another form: the code answers that
the payment is paid already (`payment_service.py:844`), opens nothing and returns nothing.
`PaidAccess` allows it for a second charge of one payment only and promises that every charge is
granted or absorbed in the end. Access granted is not taken back by this pipeline: a refund
changes the payment, not the subscription, and the abstract module says so.

## PromotionLimit and PromoCodeLimit

Both follow one reservation per payment: `none`, `reserved`, `applied`, `cancelled`.

In `PromotionLimit` a request prices the payment without a lock (`Price`), creates the row,
takes the promotion's lock (`Lock`, variable `holder`), counts all redemptions and then those
of the teacher (`CountAll`, `CountOwn`, two queries), and reserves, is refused, or grants at
price zero. Settlement changes redemptions without that lock, between the two counts too.
`eligible` stands for the window, the switch and the audience, and may be withdrawn at any
time. The limits are constants: an edit of the promotion in the admin is not modelled. The
price calculation is one step, and a refusal joins the rollback and the FAILED write that
follows. `RespectsLimits` is refinement of `LimitedUse`, where a place is taken only while
there is one and an applied place is never given back.

In `PromoCodeLimit` nothing is locked while a code is applied: `ReadCode`, `CountReserved`,
`CountOwn`, `Reserve` are four steps. A confirmation locks usage and code, so it reads
(`ConfirmRead`) and commits (`ConfirmCommit`) or aborts. The other conditions of `validate`
(dates, plan, first payment) are left out: they do not change what is counted.

## CallFailover

`route` is the `MeetingCallRoute` row (generation 0: not created), `report` the latest
outage report of each user in `failure_reports`, `mode` the deployment's
`VIDEO_FAILOVER_MODE`. `join`, `fault` and `command` are requests under way, `caller` what
each page holds. `cause` is history: what really put the lesson where it is, which the code
infers from `switch_reason`; no action reads it.

| Action | Code |
|---|---|
| `AskJoin`, `ReadRoute`, `ReleaseForced`, `ForceLivekit`, `Annotate` | join-config: admission, the unlocked read, `release_forced_livekit`, `switch_provider`, `annotate_join_config` and the page's reaction |
| `Hear`, `Leave` | `applyMediaRoute` for broadcast and poll; closing the page |
| `ReportFault`, `CheckFault`, `OpenCircuit`, `SwitchAfterFault` | `report_fault` and the automatic `switch_provider`: unlocked check, probe, locked recheck |
| `AskSwitch`, `SwitchAlreadyDone`, `SwitchByCommand`, `SwitchConflicts`, `TakeAnswer`, `LoseAnswer` | the teacher's switch |
| `Disconnect`, `RemoveFromSchedule` | the two ways off a lesson |
| `ChangeMode`, `Tick`, `CrowdOut` | a deployment, time, the 30-report cap |

Abstractions: the two primary services are one value; the meeting is live throughout and
LiveKit is configured; a join the page has dropped has no further effect on the server;
a page is closed only while no command of it is under way; reports of other faults only push
reports out; time is in ticks.

## SubscriptionPeriod

`row` is the `TeacherSubscription` row, `change` its active `SubscriptionPlanChange`, `job`
where `process_subscriptions` stands, and `request` what the requests hold that read the row
without a lock and save it later. A plan is its rank, 0 is Start; time is in days, and a
payment buys `Period` of them. A month or a year is one `Period`, the promo period given at
registration and edits in the Django admin are left out.

| Action | Code |
|---|---|
| `Settle` | `activate_subscription_from_payment`: locked; prepayment, extension or a new start |
| `Schedule`, `CancelChange` | `DowngradeService.schedule` and `cancel`, locked |
| `JobList`, `JobPostpones`, `JobAppliesPrepaid`, `JobAppliesStart` | `apply_due_changes`: lists changes, then locks and looks again |
| `JobListsExpired`, `JobExpires` | `process_expired_subscriptions` |
| `DemoteRead`, `DemoteUpdate` | `get_current_plan`, which demotes by a conditional UPDATE |
| `CancelRead`, `CancelSave`, `StartRead`, `StartSave` | the cancel request and the choice of Start: read, then save the whole row |
| `RewardWaits`, `RewardRead`, `RewardSave` | referral days, written over a row read earlier |

The code has writers that may lose what others wrote. The properties name them one by one,
so that every other writer is held to the rule: an instant Start or a cancel request saves
the plan and the end it read, `RewardSave` the end it read, and all may overwrite an
activation in between. The row is read twice for a reward, to see that it is paid for
(`referral_service.py:366`) and to extend it (207); `RewardRead` is both. `Cap` is the 13
months beyond which `Settle` calls an end anomalous and counts from today instead
(`payment_service.py:1069`), whether or not the days were paid for: they are lost, and
`PaidTimeIsKept` names a payment for the running plan that meets an end `OutOfReach`. In the run
two payments carry the end there and a third one drops it.

## AutoRenewal

The hours around the end of a period are told by `slot`, from 0 (before the window of
renewal) to 4 (after the grace). `plan`, `nextPlan` and `change` are the plan of the row, the plan
of the next period (`effective_next_plan`) and the status of the active plan change. A recurrent
payment is found by `renewal_cycle_key`: the end of the period and the slug of the next plan
(`r61_autorenew.py:150`), so `pay` has the payments by `Cycle == <<period, nextPlan>>` and attempt,
with what the bank knows of each. `checkout` is a payment of the teacher that carries the consent;
`request` is a cabinet request between its commit and its answer; `wish` and `replanned` are
history: what the teacher last said and was told, and the periods whose next plan was changed
while a payment for them was open.

| Action | Code |
|---|---|
| `OpenCheckout`, `PayCheckout`, `SyncCheckout`, `NoticeCheckout` | a purchase of any plan with the consent box, confirmed by sync or by a notification, `apply_auto_renew_consent` |
| `TurnOn`, `TurnOff`, `Unbind`, `AnswerOn`, `AnswerOff` | `SubscriptionManageView.post` |
| `SchedulePlan`, `KeepPlan` | `DowngradeService.schedule` (a cheaper plan, or Start: the plan is cancelled) and `cancel` |
| `JobLock` … `JobGivesUp` (together `Job`) | `process_auto_renewals` with `create_recurrent_payment`: read the row again, create or resume the payment of the cycle, look at the row again, Init, Charge, settle, give up |
| `Notify`, `BankDecides`, `ReconcileFails` | notifications, the fate of a charge in processing, the operator's reconcile |
| `Arrive`, `Expire`, `Tick` | `apply_due_changes` and `process_expired_subscriptions` with the grace, and time |

A payment for a cheaper plan that is settled while the period runs becomes a prepaid change, any
other starts a new period (`Bought`). The end of a period is its number: bonus days that move it,
and the key with it, are left out.
Mails, the price and the consent texts are left out. A failing Init leaves a PENDING
payment without an id, which only the operator's `reconcile_pending_payments` closes.

## LessonBilling

One account with one package, lessons of one price, payments entered by the teacher. `record`
is the `EventBillingRecord` of each lesson, `ledger` the `BillingTransaction` entries (charges
and units; an entry is reversed, never deleted), `paid` the allocations. "Conducted" stands for
CONDUCTED and NO_SHOW. `request` holds the requests that take several steps.

| Action | Code |
|---|---|
| `Complete`, `AskBilling` | completion in the journal or by the view; the billing modal |
| `LeaveBilling`, `LockForBilling`, `BillUnit`, `UnitGone`, `BillMoney` | `auto_finalize_after_lesson_complete` and `finalize_event_billing`: the record is locked, free money is read, then a unit is consumed or a charge appended and paid |
| `SkipBilling`, `Unfinalize` | not billable; `unfinalize_event_billing` |
| `SettleFromPackage`, `RefundUnit`, `MarkPaid`, `RegisterPayment` | `charge_lesson_from_package`, `refund_lesson_package_charge`, `mark_lesson_as_paid_manually`, `register_payment` |
| `CancelPackage`, `TopUp` | `cancel_package`, `adjust_package` |
| `CancelReads`, `CancelLists`, `CancelKeepsPaid`, `CancelUndoes`, `CancelGivesUp` | `cancel_event` with `sync_cancelled_event_billing` |
| `LockVictim` | PostgreSQL ends a deadlock between a billing and a cancellation (external) |
| `Restore` | `restore_event`, which leaves the record as it is |

Left out: groups, free and deferred lessons, custom amounts, `return_package`, freezing and
extending packages, refunds of payments, changing a charge or a payment, monthly periods,
mismatching durations, moved events and the rebuild. There is no reversal by the teacher:
`POST /transactions/<id>/reverse/` fails on PostgreSQL, because `@transaction.atomic` at
`billing_service.py:3668` stands on `release_record_payment_allocations` and not on
`reverse_transaction` below it, which then calls `select_for_update` outside a transaction
(3694). The tests pass because `TestCase` wraps each of them in one.

## Booking

The calendar of one teacher. `series` is a `ScheduleEventSeries` with its `TeacherBooking`,
`lesson` the `ScheduleEvent` rows, named by their series and the date they were made for,
`holder` the booking that has locked the teacher's row, `ask` and `tab` what the requests of
students and teacher have read. `placed` and `late` are history.

| Action | Code |
|---|---|
| `Lock`, `Preview`, `Book` | `book_slot`: the teacher's row, the busy time, the lessons |
| `BeginCancel`, `EndCancel` | `cancel_student_booking` |
| `BeginCreate`, `Create` | `api_schedule_events` and `create_series` |
| `BeginMove`, `Move`; `BeginEdit`, `Save` | `api_schedule_update` with `move_event` or `update_event` |
| `BeginRestore`, `Restore` | `restore_event`, which holds the lesson's row from check to write |
| `BeginCancelSeries`, `CancelNext`, `CloseSeries`, `Release` | `cancel_series`: not one transaction |
| `SetAside`, `Delete` | `cancel_event`, `skip_event`, `delete_inactive_events_with_scope` |

Days are the teacher's. A lesson has a second date, `ServerDate`, in the zone of the server
(`TIME_ZONE`, Moscow, `Generator/settings.py:427`): `DateShift` says by how many days it differs
at an hour. `cancel_student_booking` takes the cut-off from the teacher's clock
(`availability_service.py:1291`) and `cancel_series` filters with `starts_at__date`
(`schedule_service.py:1113`), which Django evaluates in the server's zone, so `LiveFrom` compares
a teacher's day with a server's. In the run the hour on offer is still the day before on the
server, as an early lesson in Kamchatka is. Only weekly patterns (`Weekly`) hold a weekday.

Lessons last one cell and travel takes no time. The three queries of `get_busy_intervals` are
one reading. A series row and its lessons appear in one step, since a recurring series is busy
from its row on; a single lesson is a series with one date. A move is followed by the view's
save of the row it read back. Left out: conducted lessons, groups, conflicts of students and
groups, the window of booking, moving, editing or regenerating a whole series, and the plan
that follows the calendar.

## What each run checks

Passing runs:

| Run | Instance | Shows |
|---|---|---|
| `PaymentSettlement_one` | 1 payment posted twice, so two forms; declined and retried forms, refunds, crashes, failing reservations, fair | `PaidOnlyWhenCharged`, `PromoFollowsPayment`, `RepeatOnlyAfterReversal`, `PaidLostOnlyOnRefund`, `KeepsPromise` (implements `PaidAccess` with its liveness) |
| `PaymentSettlement_two` | 2 payments that supersede and cancel each other, one form each, lost replies, fair | `OneActivationPerReport`, `KeepsPromise` |
| `PromotionLimit` | 4 payments of 3 teachers, limits 2 and 1, a grant, one payment with crashes and a repeated submit | `RespectsLimits` (implements `LimitedUse`), `NoPlaceLeftBehind` |
| `PromoCodeLimit_count` | 3 payments, 2 teachers, all faults | `UsesCounted` |
| `CallFailover_modes` | teacher and student, two modes, removals, 4 generations | `CallersNeverAhead`, `OneMovePerGeneration`, `NoAutomaticReturn`, `CallersNeverRollBack`, `RevokedStayOut` |
| `CallFailover_outage` | teacher and student, reports and pauses, 4 generations, fair | `AutoSwitchBudget`, `EvidenceIsFresh`, `LaggingCallersCatchUp` |
| `SubscriptionPeriod` | two paid plans, the lower bought three times, the higher once, an end out of reach, 2 plan changes, 4 days, fair job | `NoEarlyDemotion`, `PaidTimeIsKept`, `PrepaidPlanArrives`, `DueChangeSettles`, `PeriodEnds`, types |
| `AutoRenewal` | 1 renewed period, 2 paid plans, 2 attempts for each, 2 requests of the teacher, fair job and bank | `OneChargePerPeriod`, `ChargeNeedsConsent`, `RefusalStands`, `PeriodEnds`, `ChargedIsRenewed`, types |
| `LessonBilling` | 2 lessons, a package that starts empty and is topped up, 1 payment, 2 overlapping requests, fair | `SettledOnce`, `SettlementIsReal`, `UnitsAddUp`, `MoneyStays`, `FreshLessonIsBilled`, types |
| `Booking` | 2 students, a series of the teacher, 2 days, an hour of the day before on the server, 3 requests of the teacher | `NoDoubleBooking`, `NothingLeftBehind`, `StaysCancelled`, `HeldWhileRunning` |

Runs that end in a counterexample, each on a sentence of the repository (quoted in
`PROJECT.json` under findings):

| Run | What happens |
|---|---|
| `PaymentSettlement_twice` | sync activates, the bank refunds, the delayed confirmation activates again |
| `LessonBilling_again` | a lesson is completed and billed, its billing is undone, and completing it again bills nothing: the reversed entry still holds the key |

The models have these behaviours too; no run is devoted to them.

*Payments and promotions.*

- The payer pays between GetState and Cancel of a superseded form (`payment_service.py:450`)
  and is paid back at once, against the docstring at 423.
- Two checkouts of one offer both find no form to hand out again and open one each, against
  the comment at `payment_service.py:209`. Two checkouts of different offers mark each other
  as superseded (430), so neither form is handed out again; both can still be paid, which
  `KeepsPromise` covers.
- A payment that succeeds on a form whose first attempt was declined confirms neither the
  promotion (`promotion_service.py:434`) nor the promo code (`subscription_service.py:483`):
  it is paid at the reduced price and counted in no limit. `PromoFollowsPayment` names it.
- The code is reserved before the promotion. When the promotion is full by then, the payment
  fails without releasing the code (`payment_service.py:323`), and no job ever does: a code for
  one teacher or for few uses is gone. A worker that dies between FAILED and the release (354)
  leaves the same. `PromoFollowsPayment` names both (`unreleased`, `dead`).
- A checkout posted again with its key while the row shows no form opens a second one
  (`payment_service.py:193`, `tbank_payment.py:551`). Both can be paid. The second charge finds
  the payment PAID (844) and opens nothing; `KeepsPromise` calls it absorbed. Sync and reconcile
  ask about the PaymentId written last only. The second form may also be settled before the first
  request has reserved the code, which then stays reserved on a paid payment, and that request may
  fail and write FAILED over PAID (352), after which the second charge activates the plan again.
- A report that an attempt was declined, processed after the confirmation of a later attempt on
  the same form, overwrites PAID with FAILED (869), and a later confirmation under another event
  key activates once more. `PaidLostOnlyOnRefund` and `RepeatOnlyAfterReversal` name such reports.
- The last use of a promo code is given out twice: reservations are counted before the new
  one is written, with no lock (`subscription_service.py:367`, against the comment at 365).

*Calls.*

- A removal from the lesson hides that only the mode had put it on LiveKit, so it does not
  return with the mode (`video_failover.py:584`, against the docstring at 172).
- `annotate_join_config` reads the generation after the credentials were chosen
  (`video_failover.py:157`, docstring at 207), and the answer that nothing had to be switched
  carries a newer generation, which the page takes without joining again
  (`VideoMeetingPage.jsx:2619`): both leave a page in its old room under the new number.
- A removed user who asks in the moment of the removal may still enter once
  (`video_meeting_service.py:1259`).

*Subscriptions and renewal.*

- Whoever has paid for more than 13 months ahead (two yearly plans) loses days with the next
  payment: it takes the end for an anomaly and counts from today (`payment_service.py:1069`),
  against the comment at 968, «два webhook/платежа не теряют месяцы». `PaidTimeIsKept` names it.
- A second prepayment of a cheaper plan computes its end from `expires_at` again
  (`subscription_downgrade.py:484`) and swallows the first, against the same
  comment. Bonus days granted during
  a prepaid change are swallowed the same way, and `schedule` supersedes a prepaid change that
  `cancel` would refuse to touch. `PaidTimeIsKept` names the payment and the plan change; the
  bonus days never make the end of what is paid any later there.
- A renewal is charged twice when its next plan changes under an open charge. A charge for the
  cheaper plan is sent, the answer is lost, the teacher keeps the present plan after all, and the
  next hourly run finds no payment under the new key (`r61_autorenew.py:150`) and charges for that
  plan. With `schedule` in place of `cancel` it takes a job that missed the end of the period, as
  it renews before it applies due changes. The docstring at
  `payment_service.py:1405` («Повтор cron по тому же billing cycle: не создаём второй Charge.»)
  is true of one key. `OneChargePerPeriod` names a period that was `replanned` so.
- The job reads the row again before it charges (`payment_service.py:1217`) and does not ask
  whether it is still due: when a checkout of the teacher has extended it since, it charges for the
  period after that one.
- A late charge of a recurrent payment saves its card again (824), also after the teacher unbound
  it; renewal stays off.
- A notification that comes late turns renewal on after a refusal, because `mark_user_disabled`
  marks PAID payments only (`r61_autorenew.py:121`, comment at 102); `RefusalStands` leaves out
  a refusal that crosses a form already paid.
- A charge whose answer was lost and which the bank rejects ends renewal after one attempt
  (`payment_service.py:1421` does not say `will_retry`, 1411 does), against the comment at
  `subscription_lifecycle.py:144`.

*Billing.*

- A lesson that was cancelled and restored keeps its "not billable" record, so its completion
  bills nothing (`billing_service.py:2776`).
- When the package goes away between the choice of it and the consumption of a unit, the
  complete view swallows the error (`schedule_api.py:460`). `FreshLessonIsBilled` excepts it.
- A cancellation that read the record before a charge was made leaves that charge live on a
  lesson marked not billable; one whose list is out of date gives a unit back twice, which
  `UnitsAddUp` names.
- Two billings at once put the same free money on two lessons (2219, no lock on payments).

*Calendar.*

- At an hour that is the day before in Moscow, a student who cancels today keeps the lesson of
  today, though it lies ahead (`schedule_service.py:1113`); `NothingLeftBehind` names that lesson.
  West of Moscow, a late lesson of yesterday that was left planned is cancelled too. The teacher's
  "this and following" takes the cut-off from the event's zone (1090) and may in the same way leave
  out the very lesson it was called on.
- A moved lesson leaves a phantom: `get_busy_intervals` knows the materialized dates by where
  they are now, so the original date of a recurring lesson stays busy (`busy_intervals.py:191`).
- The edit view saves the whole row after its freshness check (`views.py:1360`) and revives a
  lesson cancelled meanwhile, or inserts one deleted meanwhile; `StaysCancelled` names `Save`.
- Restoring, creating and moving check for conflicts without the teacher's lock and may land
  on a booking just made (`lesson_lifecycle.py:261`); `NoDoubleBooking` names lessons the
  teacher has placed.
- A request that dies between closing a series and releasing its booking keeps the weekday
  slot taken (`schedule_service.py:1124`); `HeldWhileRunning` names that moment.
- The unique weekday key refuses a booking whose dates are all free, when the other booking's
  lessons were cancelled one by one or its series has run out: bookings never expire.

`NoPlaceLeftBehind` excepts a request whose worker died between FAILED and the release, which
leaves the reservation for good, and a form that a second request opened before the reservation
existed. Every exception is written in its property; what it leaves open is in the list above.

**Bounds.** Payments meet each other only pairwise (supersede, dedupe) or through a count, so
two payments suffice for the first and one more than the limit for the second. `PaymentSettlement_one`
has every fault but the lost reply, with two forms of one row, and `PaymentSettlement_two` has the
lost reply: one payment with all of them together is some ten million states, too many for the
liveness check, and the theorems cover the safety of it for any number of payments and forms.
Both promotion limits can bite
only with four payments of three teachers; there the faults belong to one of the payments,
which suffices since a place is lost by one request at a time.
`activated` needs no bound: every activation uses up an event key, of which there are
finitely many. `MaxGeneration` is the one artificial bound of CallFailover: moves stop
there; four generations are a move, a return and a move again, which is what it takes to spend
the automatic budget twice. `Window` and `Cooldown` keep the order of the real settings (90
and 120 seconds). Two callers suffice for `MinReporters = 2`.
`SubscriptionPeriod` needs two paid plans for an upgrade and a cheaper plan, two payments for
the latter to prepay it twice and three to drop an end that two have carried beyond `Cap` (3 days,
with a `Period` of 2), two plan changes for one to supersede the other, and one
reading at a time, since each unlocked writer races the locked ones. `AutoRenewal`
renews one period, so that payments for two plans with two attempts each fit, and two requests:
to schedule the cheaper plan and to keep the present one, with the job in between. A charge may
still end long after its period. In
`LessonBilling` money on one lesson can be wanted by another, one billing races one
cancellation, and the price is two so that a lesson can be half paid; instances with a unit to
start with, two payments and amounts 1 and 2 (1.1 million states), and with three entries
(596 thousand) held without the liveness property. In `Booking` three requests of the teacher
suffice to move a lesson, cancel it and restore it while two students compete; one hour is enough,
since two students want the same one and only its date on the server tells hours apart. The same
instance with an ordinary hour beside it held with two requests. The theorems below remove these
bounds for the safety properties they cover.

**Deadlock** is not checked: lessons, payments, promotions, periods and calendars really come
to an end, and the models stop at their bounds. That nothing waits for ever is stated by the
liveness properties.

**Fairness.** `FairSpec` of PaymentSettlement assumes weak fairness of `Notification` only: the
bank repeats a notification until it reads OK, which `PaymentWebhookView` relies on (comment
at `subscription_api.py:1361`). Nothing is assumed of `reconcile`: `deploy/crontab.itflux` does
not schedule it. `CallFailover` assumes that a page that is open polls (every 8 seconds,
`VideoMeetingPage.jsx:1632`) and that requests under way are answered. `SubscriptionPeriod` and
`AutoRenewal` assume that cron starts `process_subscriptions` (`deploy/crontab.itflux:28`,
hourly) and that it comes to its end; `AutoRenewal` also that time passes and that the bank
decides about a charge and repeats its notification. `LessonBilling` assumes that a request
that has begun runs to its end. Users, payers, reports, moves and refunds are never fair.
Safety needs none of it: invariants and action properties look at every reachable state and
step, and the theorems are about `Spec`.

## What is proved

All theorems hold for every value of the constants under the assumption each module names
(`SettlementAssumption`, `PromotionAssumption`, `PromoCodeAssumption`, `CallersAssumption`,
`SettingsAssumption`, `PeriodAssumption`, `RenewalAssumption`, `BookingAssumption`,
`BillingAssumption`). TLC evaluates them in every run. They say that limits and prices are
numbers of the right sign; `BillingAssumption` also that lessons and payments are finitely
many, without which nothing adds up, `PeriodAssumption` that a reward is at least two days (it is 14,
`pricing_service.py:18`), and `BookingAssumption` that a lesson's date on the server is at most one
day off. No theorem has a hypothesis of its own.

*PaymentSettlement_proofs.* The inductive invariant is `IInv`: the types, `FormInv` (which step
of which request each form has come from: form 1 is unopened before the first request's Init, a
form that was never handed out cannot be charged) and `ReportInv` (every notification in flight and
every reading of reconcile is `Known`, that is, still true of the bank, or a declined attempt that
was retried since). `Report` says what any settlement knows of the report it handles, and
`StepKinds` divides the steps into reports, steps of the row's own request, and steps that touch no
row; the proofs of the properties go along that division.

`ChargeInv` adds that an activated form is charged, that a PAID row has an activated form and that
a processed confirmation names a charged form: `PaidOnlyWhenChargedAlways`.
`OneActivationPerReportAlways` is inductive with the types: every branch of `handle_webhook` that
activates adds one of the two keys. `ImplementsPaidAccess` is step simulation: a bank confirmation
is `Charge`, the first activation of a form is `Grant`, a processed confirmation that finds the
row PAID for another form is `Absorb`, and all else stutters. `RepeatInv` says that a row no
reversal has touched has no activated form, or one, activated once, and is PAID:
`RepeatNeedsReversal`. `PaidIsKept` follows from what a step can do to a PAID row: `UndoingReport`
(only a report of money returned or of a declined attempt, or one about another form) and
`UndoingOwnStep` (only the FAILED of its own request). `CodeInv` follows the reservation of a code
from the request that makes it to the form that stands on it, and past FAILED to the request that
is about to release it, dies, or gives up: `CodeFollowsMoney`. All of them are about any number
of payments and forms and all faults together.

*PromotionLimit_proofs.* `LimitInv` says that only the holder of the row stands between lock
and commit, that what it has counted is still an upper bound (`CountStands`), and that it has
no redemption yet. Settlement may only lower the counts (`PlacesStay`), so `Reserve` and
`Grant` map to `Take`. `LimitsRespected` is the refinement; it has no fairness, so it is
proved in full. `FailedGivesItsPlaceBack` adds two conjuncts (`ReleaseInv`): a form that is open
before its checkout is done was opened by a resubmission, and a failed checkout that is not
about to release its place either was overtaken so or holds no place.

*PromoCodeLimit_proofs.* `CountInv`: at most one confirmation has the code locked, and what it
read is still there. Then the commit adds one to both sides of `UsesCounted`.

*CallFailover_proofs.* `CallInv` collects the reason-versus-history link (`ForcedByMode`), the
age of old reports against the running pause (`OldReportsAge`), pages that wait
(`PagesWait`), and the order of generations on pages, in commands and in the row
(`CommandsInOrder`). From it follow the budget, the freshness of evidence, that no page is ahead, and
the action properties; `RevokedStayOutHolds` is shown for the list of removed users and for
their pages apart, since most steps change one of them only.

*SubscriptionPeriod_proofs.* `TypesHold`, and `DemotionsWait` from the types: each writer that
may lower a plan is shown to test the end of the period of the locked row, not of the row it
listed or read. `PaidDaysKept` needs three facts more (`KeptInv`): a request is answered before a
second midnight (`Fresh`), what a cancel request has read was over or Start (`SeenOver`), and
when a change that is paid for has come after the one the job holds, the period runs on past
the job's day (`Ahead`). That a reward is at least two days is why a row read yesterday and saved with
the reward does not end before today.

*AutoRenewal_proofs.* `RenewalInv` has four parts beside the types. `HeldInv` says what the
payment is that the job works on, at each of its steps. `PayInv`: at most one payment of a
cycle is open, and a charge is taken by an open payment only. `PlanInv`: an open cycle of the
running period is that of the next plan, unless the plan was changed too late, is prepaid, or has
ended, and two open cycles of one period mean that it was changed too late. Together they give
`OneChargePerPeriod` (`ChargedOnce`). `WishInv`: after an answered refusal neither
the flag, nor a request, nor a checkout that could still turn it on is left, and the job that
has passed its last look was not refused. `RefusalHolds` and `RefusedIsNotCharged` follow.

*Booking_proofs.* `BookedOnce` rests on `BookingInv`: only the holder of the teacher's row is
between its reading and its lessons, and every live lesson of a student that the teacher has
not placed is in what the holder has read as busy. `CancelledForGood` rests on `LeavingInv`:
what the cancellation has listed still contains every live lesson of the series that falls under
it by the server's dates, but those the teacher touched after it began; `MissedLesson` says that
what the query misses of the teacher's days is a lesson of the first one at an hour of the day
before. `CancelledLessonsStay` rests on `DrawnInv`: a series that is not
made yet has no lessons and is named by at most one request of the teacher, the one that makes
it, so the lessons that booking and creating bring to life were never there before.
`WeekdayHeldAndReleased` rests on `HeldInv`: no request can
name a series that is not made yet, and a series that is being released is closed.

*LessonBilling_proofs.* `BillingInv` has three parts. `TypeInv` adds to the types that a request
that undoes a billing lists entries of its own lesson. `LedgerInv`: a lesson has at most one
live entry (`Alone`), one that is not billed has none (`OnlyBilled`), and a request that settles
a lesson has found none and is the only one to settle it (`Held`); a request that only asks
whether a lesson is billed could not keep `Alone`. `MoneyInv`: what a record calls paid is
covered by allocations (`Backed`), a record that says paid has its charge covered (`PaidUp`), one
that says package has its unit (`HasUnit`), and a payment not entered yet has given nothing and
promises nothing (`Unentered`). From these follow `LessonsSettledOnce`, `SettlementsAreReal`,
`MoneyStaysOnLessons`, and `UnitsAlwaysAddUp`: only a cancellation that works from an outdated
list changes the difference between what was bought and what is left or used, and then to the
student's good. Balances are sums over finite sets. What a fold computes cannot be shown by
induction here; that a sum is a number, grows with its parts and changes with one of them is
shown by the smallest set for which it would fail.

Only model-checked: `PrepaidPlanArrives`, whose invariant must follow a saved row through
chains of outdated readings and plan changes; and everything that needs fairness
(`LaggingCallersCatchUp`, `DueChangeSettles`, both `PeriodEnds`, `ChargedIsRenewed`,
`FreshLessonIsBilled`, the liveness half of `KeepsPromise`), which the prover does not
reach. The mutants show for every property of a passing run a plausible bug that breaks it.

## Plan

Done: the eight components, and the proofs of their safety. Next, in order:

1. A proof of `PrepaidPlanArrives`, from `PeriodInv`, `Fresh` and what the two unlocked saves
   may have read; it will need more of `Period` and `Bonus` than `PeriodAssumption` says.
2. `MaterialSession` with `ScreenShare`: operations with base revisions, resends, control
   transfer (`meeting_material_session.py`, `meeting_screenshare.py`). Theorem: an operation
   is applied at most once.
3. `SubscriptionPeriod` composed with `PaymentSettlement`: the reversal of a payment against
   the days it bought.
4. `BoardMerge`: `board_merge.py` as functions against a reference merge, and two editors.
5. `LessonLifecycle` (meetings, attendance, finish), `Homework`, `NotificationDelivery`, and
   purchases of lessons and collections as a branch of the settlement.

## Not modelled

Page rendering, login, files, AI calls, messaging, journal and plans, and task scoring: they are
sequential code over one row or calls of external services, with little that depends on the
order of two actors; the reason for each is with its component in `PROJECT.json`. The
Generator application and the excel import of plans make up most of the lines and keep no
protocol. Database locks are not variables of their own: a transaction is one action, so
waiting for locks and the deadlock of `sync` with `reconcile` (`payment_service.py:598`) do
not show; the one exception is `LockVictim` of `LessonBilling`.

## Running

    tlc -config PaymentSettlement_one.cfg MCPaymentSettlement
    tlapm PaymentSettlement_proofs.tla

Runs take up to about three minutes with two workers; the longest are `AutoRenewal`,
`CallFailover_outage`, `PromotionLimit` and `PaymentSettlement_one`. The proofs of
`PaymentSettlement`, `LessonBilling`, `Booking` and `AutoRenewal` are the longest to check.
