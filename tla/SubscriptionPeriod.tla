-------------------------- MODULE SubscriptionPeriod --------------------------
(***************************************************************************)
(* The period a teacher has paid for, and everyone who moves its end: the  *)
(* activation of a payment, the prepayment of a cheaper plan, a scheduled  *)
(* change of plan and the hourly job that carries it out, referral days,   *)
(* and the requests that leave a plan.                                     *)
(*                                                                         *)
(* A transaction that locks the TeacherSubscription row is one action.     *)
(* Where the code reads the row without a lock and saves it later, reading *)
(* and saving are two actions and the request keeps the row it read.       *)
(*                                                                         *)
(* The subscription has no saved card here: automatic renewal is           *)
(* AutoRenewal.                                                            *)
(***************************************************************************)
EXTENDS Integers, FiniteSets

CONSTANTS
    TopPlan,        \* the highest rank of a plan; rank 0 is Start
    Period,         \* the days a payment buys
    Bonus,          \* the days a referral reward adds (14 in the code)
    Cap,            \* an end further ahead than this is not built upon (13 months)
    Purchases,      \* bound: payments for each paid plan that are settled
    Horizon,        \* bound: the last day looked at
    MaxChanges,     \* bound: plan changes a teacher schedules
    MaxReadings     \* bound: requests at a time that hold a row they read

Plans == 0 .. TopPlan
Start == 0
PaidPlans == 1 .. TopPlan
None  == -1

ASSUME PeriodAssumption ==
    /\ TopPlan \in Nat
    /\ Period \in Nat \ {0}
    /\ Bonus \in Nat \ {0, 1}     \* longer than a request that crosses midnight
    /\ Cap \in Nat
    /\ Purchases \in [PaidPlans -> Nat]
    /\ Horizon \in Nat /\ MaxChanges \in Nat /\ MaxReadings \in Nat

VARIABLES
    now,            \* the day
    row,            \* the TeacherSubscription row
    change,         \* its active SubscriptionPlanChange row
    asked,          \* how many changes the teacher has scheduled
    settled,        \* how many payments for each plan have been settled
    reward,         \* the ReferralReward this teacher earns
    job,            \* where process_subscriptions stands
    request         \* the requests that hold a row they read without a lock

vars == <<now, row, change, asked, settled, reward, job, request>>

\* The end of a period; 0 is the NULL of the code.
Days == Nat

Rows == [plan : Plans, status : {"active", "expired", "cancelled"},
         expires : Days, prepaid : Days, scheduled : Plans \cup {None},
         cancelled : BOOLEAN]

\* Of a change that is closed nothing is read again; its id only tells it
\* from the change the job holds.
Changes  == [to : Plans, at : Days, status : {"pending", "prepaid"}, id : {1, 2}]
NoChange == [id |-> 0]

\* A request that works on a row it read at an earlier time.
Requests == {"cancel", "start", "reward", "demote"}
Readings == [row : Rows, at : Days]
Nothing  == [at |-> None]

Steps == {"idle", "changes", "done", "expire"}
Idle  == [step |-> "idle", at |-> 0, change |-> NoChange, listed |-> FALSE]

\* TeacherSubscription.is_valid, for a subscription that ends by its date.
Valid(r, t) == r.status = "active" /\ (r.expires = 0 \/ r.expires > t)

\* A paid period that is not over.
Running(r, t) == Valid(r, t) /\ r.expires > t

PaidActive(r, t) == Valid(r, t) /\ r.plan # Start

TypeOK ==
    /\ now \in Nat
    /\ row \in Rows
    /\ change \in Changes \cup {NoChange}
    /\ asked \in Nat
    /\ settled \in [PaidPlans -> Nat]
    /\ reward \in {"none", "saving", "available", "granted"}
    /\ job \in [step : Steps, at : Nat, change : Changes \cup {NoChange},
                listed : BOOLEAN]
    /\ request \in [Requests -> Readings \cup {Nothing}]

Init ==
    /\ now = 1
    /\ row = [plan |-> Start, status |-> "active", expires |-> 0, prepaid |-> 0,
              scheduled |-> None, cancelled |-> FALSE]
    /\ change = NoChange
    /\ asked = 0
    /\ settled = [plan \in PaidPlans |-> 0]
    /\ reward = "none"
    /\ job = Idle
    /\ request = [q \in Requests |-> Nothing]

--------------------------------------------------------------------------------
(* Plan changes and their mirror in the row.                               *)

NewChange(plan, end, how) ==
    [to |-> plan, at |-> end, status |-> how,
     id |-> IF job.change.id = 1 THEN 2 ELSE 1]

\* sync_subscription_mirror: what the row says of change c.
MirrorOf(c) == IF c = NoChange THEN None ELSE c.to

\* sync_effective_at_to_expires: an active change moves with the period.
Moved(c, end) == IF c = NoChange \/ end = 0 THEN c ELSE [c EXCEPT !.at = end]

\* extend_subscription_by_days on a row, at time t.
Extended(r, t) ==
    [r EXCEPT !.expires = (IF r.expires > t THEN r.expires ELSE t) + Bonus,
              !.status = "active"]

--------------------------------------------------------------------------------
(* A payment is settled: activate_subscription_from_payment, all of it in  *)
(* the transaction that holds the row.                                     *)

\* Reward days that wait for an active plan come on top of row r, and the
\* active change c moves with the end.
FinishActivation(r, c) ==
    LET earned == reward = "available" /\ PaidActive(r, now)
        after  == IF earned THEN Extended(r, now) ELSE r
    IN  /\ row' = [after EXCEPT !.scheduled = MirrorOf(c)]
        /\ change' = Moved(c, after.expires)
        /\ reward' = IF earned THEN "granted" ELSE reward

\* mark_prepaid: the cheaper plan waits for the end of the running period.
Prepay(plan) ==
    FinishActivation([row EXCEPT !.prepaid = row.expires + Period],
                     IF change # NoChange /\ change.to = plan
                     THEN [change EXCEPT !.status = "prepaid", !.at = row.expires]
                     ELSE NewChange(plan, row.expires, "prepaid"))

\* Mutant: a renewal starts today and drops the days still running.
EndFromToday(plan) == now + Period

\* Mutant: the days that are left are taken for the date they end on.
EndFromDaysLeft(plan) == Period + row.expires - now

\* The running period reaches further ahead than a payment builds upon.
OutOfReach == row.expires > now + Cap

\* The end of the period that a payment for plan buys now.  Days out of reach are
\* taken for a mistake, paid for or not, and dropped.
EndAfter(plan) ==
    Period + IF /\ row.expires > now
                /\ row.plan = plan
                /\ ~OutOfReach
             THEN row.expires ELSE now

\* An active change is carried out or superseded by the payment.
Activate(plan) ==
    FinishActivation([plan |-> plan, status |-> "active", expires |-> EndAfter(plan),
                      prepaid |-> 0, scheduled |-> None, cancelled |-> FALSE], NoChange)

IsPrepayment(plan) == Running(row, now) /\ plan < row.plan

Settle(plan) ==
    /\ settled[plan] < Purchases[plan]
    /\ settled' = [settled EXCEPT ![plan] = @ + 1]
    /\ \/ IsPrepayment(plan) /\ Prepay(plan)
       \/ ~IsPrepayment(plan) /\ Activate(plan)
    /\ UNCHANGED <<now, asked, job, request>>

--------------------------------------------------------------------------------
(* The teacher schedules a cheaper plan or takes it back.                  *)

\* DowngradeService.schedule, and the cancel request of a running period.
\* The change that was active before is superseded.
Schedule(target) ==
    /\ Running(row, now) /\ target < row.plan
    /\ asked < MaxChanges
    /\ asked' = asked + 1
    /\ change' = NewChange(target, row.expires, "pending")
    /\ row' = [row EXCEPT !.scheduled = target, !.cancelled = @ \/ target = Start]
    /\ UNCHANGED <<now, settled, reward, job, request>>

\* Mutant: a change that is paid for can be cancelled as well.
CancelAnyChange ==
    /\ change # NoChange
    /\ change' = NoChange
    /\ row' = [row EXCEPT !.prepaid = 0, !.scheduled = None]
    /\ UNCHANGED <<now, asked, settled, reward, job, request>>

\* DowngradeService.cancel: a change that is paid for stays.
CancelChange ==
    /\ change # NoChange /\ change.status = "pending"
    /\ change' = NoChange
    /\ row' = [row EXCEPT !.prepaid = 0, !.scheduled = None]
    /\ UNCHANGED <<now, asked, settled, reward, job, request>>

--------------------------------------------------------------------------------
(* Requests that read the row without a lock and save it later.            *)

Read(q) ==
    /\ request[q] = Nothing
    /\ Cardinality({r \in Requests : request[r] # Nothing}) < MaxReadings
    /\ request' = [request EXCEPT ![q] = [row |-> row, at |-> now]]
    /\ UNCHANGED <<now, row, change, asked, settled, job>>

Answer(q) ==
    /\ request[q] # Nothing
    /\ request' = [request EXCEPT ![q] = Nothing]
    /\ UNCHANGED <<now, asked, settled, job>>

\* The cancel request of a subscription whose period does not run.
CancelRead ==
    /\ ~(Running(row, now) /\ row.plan # Start)
    /\ ~row.cancelled
    /\ Read("cancel")
    /\ UNCHANGED reward

\* It saves plan, status and end as it read them, or ended.
CancelSave ==
    LET seen == request["cancel"].row
        over == seen.expires = 0 \/ seen.expires <= request["cancel"].at
        left == over /\ seen.plan # Start
    IN  /\ Answer("cancel")
        /\ row' = [row EXCEPT !.cancelled = TRUE, !.scheduled = None,
                              !.status = IF over THEN "cancelled" ELSE seen.status,
                              !.plan = IF left THEN Start ELSE seen.plan,
                              !.expires = IF left THEN 0 ELSE seen.expires]
        /\ UNCHANGED <<change, reward>>

\* Start is chosen and no paid period runs: the whole row is saved.
StartRead ==
    /\ ~(Running(row, now) /\ row.plan # Start)
    /\ Read("start")
    /\ UNCHANGED reward

StartSave ==
    /\ Answer("start")
    /\ row' = [request["start"].row EXCEPT !.plan = Start, !.status = "active",
                                           !.expires = 0, !.scheduled = None]
    /\ UNCHANGED <<change, reward>>

\* Someone this teacher invited pays for the first time: without a plan to
\* extend the days wait for one.
RewardWaits ==
    /\ reward = "none" /\ ~PaidActive(row, now)
    /\ reward' = "available"
    /\ UNCHANGED <<now, row, change, asked, settled, job, request>>

RewardRead ==
    /\ reward = "none" /\ PaidActive(row, now)
    /\ reward' = "saving"
    /\ Read("reward")

\* Only end and status are saved, both as computed from the row it read.
RewardSave ==
    LET more == Extended(request["reward"].row, request["reward"].at)
    IN  /\ Answer("reward")
        /\ change' = Moved(change, more.expires)
        /\ row' = [row EXCEPT !.expires = more.expires, !.status = more.status,
                              !.scheduled = IF change' = change THEN @ ELSE MirrorOf(change)]
        /\ reward' = "granted"

\* get_current_plan of any request that finds the period over.
DemoteRead ==
    /\ ~Valid(row, now) /\ row.expires # 0 /\ row.status = "active"
    /\ change = NoChange
    /\ Read("demote")
    /\ UNCHANGED reward

\* Its UPDATE is conditional on the row as it is by then.
DemoteUpdate ==
    LET due == /\ row.status = "active"
               /\ row.expires # 0 /\ row.expires <= request["demote"].at
    IN  /\ Answer("demote")
        /\ row' = IF due THEN [row EXCEPT !.plan = Start, !.status = "expired"] ELSE row
        /\ UNCHANGED <<change, reward>>

--------------------------------------------------------------------------------
(* The hourly job: apply_due_changes, then process_expired_subscriptions.  *)

\* Mutant: only changes nobody has paid for are listed.
JobListUnpaid ==
    /\ job.step = "idle"
    /\ IF change # NoChange /\ change.status = "pending" /\ change.at <= now
       THEN job' = [Idle EXCEPT !.step = "changes", !.at = now, !.change = change]
       ELSE job' = [Idle EXCEPT !.step = "done", !.at = now]
    /\ UNCHANGED <<now, row, change, asked, settled, reward, request>>

\* A due change is listed, and kept as it was, before anything is locked.
JobList ==
    /\ job.step = "idle"
    /\ IF change # NoChange /\ change.at <= now
       THEN job' = [Idle EXCEPT !.step = "changes", !.at = now, !.change = change]
       ELSE job' = [Idle EXCEPT !.step = "done", !.at = now]
    /\ UNCHANGED <<now, row, change, asked, settled, reward, request>>

ChangesDone ==
    /\ job' = [Idle EXCEPT !.step = "done", !.at = job.at]
    /\ UNCHANGED <<now, asked, settled, reward, request>>

\* The change the job holds is the one that is still active.
HeldIsActive == change.id = job.change.id

\* The locked row still runs: the change waits for its end.
StillRuns == row.expires > job.at

JobPostpones ==
    /\ job.step = "changes" /\ StillRuns
    /\ IF job.change.at < row.expires
       THEN /\ change' = IF HeldIsActive THEN [change EXCEPT !.at = row.expires] ELSE change
            /\ row' = [row EXCEPT !.scheduled = job.change.to]
       ELSE UNCHANGED <<row, change>>
    /\ ChangesDone

\* _apply_prepaid
JobAppliesPrepaid ==
    /\ job.step = "changes" /\ ~StillRuns
    /\ job.change.status = "prepaid"
    /\ change' = IF HeldIsActive THEN NoChange ELSE change
    /\ row' = [row EXCEPT !.plan = job.change.to, !.status = "active",
                          !.expires = IF row.prepaid > now THEN row.prepaid ELSE @,
                          !.prepaid = 0, !.cancelled = FALSE,
                          !.scheduled = MirrorOf(change')]
    /\ ChangesDone

\* _apply_to_start: Start was asked for, or a paid plan nobody paid for.
JobAppliesStart ==
    /\ job.step = "changes" /\ ~StillRuns
    /\ job.change.status = "pending"
    /\ change' = IF HeldIsActive THEN NoChange ELSE change
    /\ row' = [row EXCEPT !.plan = Start, !.status = "expired", !.prepaid = 0,
                          !.scheduled = MirrorOf(change')]
    /\ ChangesDone

\* The query of process_expired_subscriptions.
JobListsExpired ==
    /\ job.step = "done"
    /\ job' = [Idle EXCEPT !.step = "expire", !.at = now,
                 !.listed = /\ row.plan # Start /\ row.status # "expired"
                            /\ row.expires # 0 /\ row.expires <= now]
    /\ UNCHANGED <<now, row, change, asked, settled, reward, request>>

\* Mutant: what was listed is not looked at again under the lock.
AsListed == TRUE

\* Mutant: only a subscription its owner has left comes to its end.
OverIfLeft == row.cancelled /\ row.plan # Start /\ change = NoChange

\* What a listed row must still be once it is locked.
StillOver ==
    /\ row.expires # 0 /\ row.expires <= job.at
    /\ row.plan # Start
    /\ change = NoChange

JobExpires ==
    /\ job.step = "expire"
    /\ row' = IF job.listed /\ StillOver
              THEN [row EXCEPT !.plan = Start, !.status = "expired", !.scheduled = None]
              ELSE row
    /\ job' = Idle
    /\ UNCHANGED <<now, change, asked, settled, reward, request>>

\* A request, and a run of the job, may cross midnight, not stay for days.
Tick ==
    /\ now < Horizon
    /\ job.step = "idle" \/ job.at = now
    /\ \A q \in Requests : request[q] = Nothing \/ request[q].at = now
    /\ now' = now + 1
    /\ UNCHANGED <<row, change, asked, settled, reward, job, request>>

--------------------------------------------------------------------------------
Job == \/ JobList \/ JobPostpones \/ JobAppliesPrepaid \/ JobAppliesStart
       \/ JobListsExpired \/ JobExpires

Next ==
    \/ \E plan \in PaidPlans : Settle(plan)
    \/ \E target \in Plans : Schedule(target)
    \/ CancelChange
    \/ CancelRead \/ CancelSave \/ StartRead \/ StartSave
    \/ RewardWaits \/ RewardRead \/ RewardSave
    \/ DemoteRead \/ DemoteUpdate
    \/ Job
    \/ Tick

Spec == Init /\ [][Next]_vars

\* Cron starts the job every hour and the job comes to its end.
FairSpec == Spec /\ WF_vars(Job)

--------------------------------------------------------------------------------
(* Properties.                                                             *)

\* A plan goes down only when its period is over: the job, a demotion and a
\* prepaid change look at the locked row again (process_expired_subscriptions,
\* apply_due_changes, the conditional UPDATE of get_current_plan), whatever
\* payment came in since they chose it. Two requests do not look again: the
\* cancel request and the choice of Start save the plan of the row they read.
NoEarlyDemotion ==
    [][row'.plan < row.plan => row.expires <= now \/ CancelSave \/ StartSave]_vars

\* The end of what the teacher has paid for.
PaidUntil(r, c) ==
    IF c # NoChange /\ c.status = "prepaid" /\ r.prepaid > r.expires
    THEN r.prepaid ELSE r.expires

\* Nobody takes away days that are paid for and not over: not a payment for
\* the same or a cheaper plan, not the job with a change or a row that is out of
\* date, not a demotion. What may shorten them is named: a request that saves a
\* row it read earlier, a payment for a higher plan (it starts today), a payment
\* for the same plan while its end lies further ahead than the code builds upon
\* (paid days are dropped then, as mistaken ones are), and what meets days paid
\* for in advance: another payment counts from the end of the running period
\* again, and another plan change supersedes the prepaid one.
PaidTimeIsKept ==
    [][PaidUntil(row', change') < PaidUntil(row, change) /\ PaidUntil(row, change) > now
          /\ row.plan # Start
       => \/ CancelSave \/ StartSave \/ RewardSave
          \/ \E plan \in PaidPlans :
                /\ Settle(plan)
                /\ plan > row.plan \/ (plan = row.plan /\ OutOfReach) \/ row.prepaid > 0
          \/ row.prepaid > 0 /\ \E t \in Plans : Schedule(t)]_vars

\* A cheaper plan that is paid for in advance ends by taking effect: an active
\* prepaid change is closed only together with the plan it names, unless the
\* teacher pays for another plan or schedules another change first, or the row
\* has already lost its period to an unlocked save.
PrepaidPlanArrives ==
    [][change # NoChange /\ change.status = "prepaid" /\ change' # change
          => \/ change' # NoChange /\ [change' EXCEPT !.at = change.at] = change
             \/ row'.plan = change.to
             \/ row.expires = 0
             \/ \E plan \in PaidPlans : Settle(plan)
             \/ \E t \in Plans : Schedule(t)]_vars

\* As long as cron starts the job, a change that is due over a period that is
\* over is carried out, also when the job held an older change or was overtaken
\* by a payment; only more paid days may put it off.
DueChangeSettles ==
    (change # NoChange /\ change.at <= now /\ row.expires <= now)
        ~> (change = NoChange \/ row.expires > now)

\* As long as cron starts the job, a paid plan does not outlive its period: with
\* or without a scheduled change, the plan falls to Start or a payment extends it.
PeriodEnds ==
    (row.plan # Start /\ row.expires # 0 /\ row.expires <= now)
        ~> (row.plan = Start \/ row.expires = 0 \/ row.expires > now)
================================================================================
