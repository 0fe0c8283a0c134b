------------------------------ MODULE AutoRenewal ------------------------------
(***************************************************************************)
(* Automatic renewal: a teacher who agreed to it is charged by the hourly  *)
(* job when the paid period ends, at most twice, and can refuse at any     *)
(* time.  The job talks to the bank with nothing locked; the answer may be *)
(* lost, and notifications and the teacher's requests come in between.     *)
(*                                                                         *)
(* A renewal is charged for the plan of the next period, which the teacher *)
(* may change while a charge is on its way; the payments of a renewal are  *)
(* found by the end of the period and that plan (renewal_cycle_key).       *)
(*                                                                         *)
(* Everything that depends on the hours around the end of a period is told *)
(* by slot: 0 before the renewal window, 1 the six hours before the end,   *)
(* 2 and 3 the half days of grace after it, 4 after the grace.  The gap    *)
(* between two attempts (MIN_RENEW_ATTEMPT_GAP) is one slot.               *)
(***************************************************************************)
EXTENDS Integers, FiniteSets

CONSTANTS
    Periods,        \* bound: 1 .. n, the paid periods that are renewed
    TopPlan,        \* the plans are ranked 0 .. TopPlan, 0 is Start
    MaxAttempts,    \* MAX_RENEW_ATTEMPTS: charges tried for one period
    MaxToggles      \* bound: requests of the teacher in the cabinet

ASSUME RenewalAssumption ==
    /\ Periods \subseteq Nat
    /\ TopPlan \in Nat \ {0}
    /\ MaxAttempts \in Nat \ {0}
    /\ MaxToggles \in Nat

VARIABLES
    slot,           \* the time, relative to the end of the period
    period,         \* expires_at: the number of the period that runs
    plan,           \* the plan of the row
    nextPlan,       \* effective_next_plan: the plan of the next period
    change,         \* the status of the active plan change
    auto,           \* auto_renew
    card,           \* whether a RebillId is saved
    journal,        \* the last entry of the consent journal
    attempted,      \* last_renewal_attempt_at: the slot of the last attempt
    pay,            \* the recurrent payments, by cycle key and attempt
    checkout,       \* a payment of the teacher that carries the consent
    request,        \* a cabinet request between its commit and its answer
    toggles,        \* how many requests the teacher has made
    job,            \* where process_auto_renewals stands
    wish,           \* what the teacher last said, see AnswerOff
    replanned       \* the periods whose next plan the teacher changed too late

vars == <<slot, period, plan, nextPlan, change, auto, card, journal, attempted, pay,
          checkout, request, toggles, job, wish, replanned>>

subscription == <<slot, period, plan, nextPlan, change>>
teacher      == <<checkout, request, toggles, wish, journal, replanned>>

Plans     == 0 .. TopPlan
PaidPlans == 1 .. TopPlan

\* renewal_cycle_key: the end of a period and the plan that follows it.
Cycles == Periods \X PaidPlans
Cycle  == <<period, nextPlan>>

Slots    == 0 .. 4
Window   == 1 .. 3
Ended    == 2 .. 4
Attempts == 1 .. MaxAttempts

Statuses == {"none", "pending", "paid", "failed", "cancelled"}
Answers  == {"none", "processing", "charged", "rejected"}
Payments == [status : Statuses, id : BOOLEAN, bank : Answers]
NoPayment == [status |-> "none", id |-> FALSE, bank |-> "none"]

Steps == {"idle", "prepare", "recheck", "init", "charge", "settle", "giveup"}
Idle  == [step |-> "idle", cycle |-> <<0, 0>>, attempt |-> 1, refused |-> FALSE]

TypeOK ==
    /\ slot \in Slots /\ period \in Nat
    /\ plan \in Plans /\ nextPlan \in Plans
    /\ change \in {"none", "pending", "prepaid"}
    /\ auto \in BOOLEAN /\ card \in BOOLEAN
    /\ journal \in {"none", "granted", "revoked"}
    /\ attempted \in Slots
    /\ pay \in [Cycles -> [Attempts -> Payments]]
    /\ checkout \in [status : {"none", "pending", "paid"}, plan : Plans, bank : BOOLEAN,
                     noticed : BOOLEAN, applied : BOOLEAN, disabled : BOOLEAN]
    /\ request \in {"none", "on", "off", "off_already"}
    /\ toggles \in Nat
    /\ job \in [step : Steps, cycle : Nat \X Plans, attempt : Attempts, refused : BOOLEAN]
    /\ wish \in {"on", "off", "crossed"}
    /\ replanned \subseteq Periods

Init ==
    /\ slot = 0 /\ period = 1
    /\ plan \in PaidPlans /\ nextPlan = plan /\ change = "none"
    /\ card \in BOOLEAN /\ auto \in BOOLEAN /\ (auto => card)
    /\ journal = IF auto THEN "granted" ELSE "none"
    /\ attempted = 0
    /\ pay = [c \in Cycles |-> [n \in Attempts |-> NoPayment]]
    /\ checkout = [status |-> "none", plan |-> 0, bank |-> FALSE, noticed |-> FALSE,
                   applied |-> FALSE, disabled |-> FALSE]
    /\ request = "none" /\ toggles = 0
    /\ job = Idle
    /\ wish = IF auto THEN "on" ELSE "off"
    /\ replanned = {}

\* The payments of a cycle: those that wait or are paid, those that exist, and how
\* many have failed.
Open(c)     == {n \in Attempts : pay[c][n].status \in {"pending", "paid"}}
Tried(c)    == {n \in Attempts : pay[c][n].status # "none"}
FailedIn(c) == Cardinality({n \in Attempts : pay[c][n].status = "failed"})

--------------------------------------------------------------------------------
(* The settlement of a payment.                                            *)

\* The row after the activation of a payment for a plan; an active plan change is
\* over, and the attempts of the new period start afresh.
Activated(bought) ==
    /\ period' = period + 1 /\ slot' = 0 /\ attempted' = 0
    /\ plan' = bought /\ nextPlan' = bought /\ change' = "none"

\* mark_prepaid: a cheaper plan that is paid for while the period still runs waits
\* for its end.
Prepaid(bought) ==
    /\ nextPlan' = bought /\ change' = "prepaid"
    /\ UNCHANGED <<slot, period, plan, attempted>>

Early(bought) == bought < plan /\ slot \notin Ended

Bought(bought) == IF Early(bought) THEN Prepaid(bought) ELSE Activated(bought)

\* handle_webhook for a recurrent payment that is confirmed: its card is saved
\* (again), and automatic renewal stays as the teacher has it.
SettlePaid(c, n) ==
    /\ pay' = [pay EXCEPT ![c][n].status = "paid"]
    /\ Bought(c[2])
    /\ card' = TRUE /\ auto' = auto

SettleFailed(c, n) ==
    /\ pay' = [pay EXCEPT ![c][n].status = "failed"]
    /\ UNCHANGED <<subscription, attempted, auto, card>>

\* Mutant: money that arrives after the plan has ended is not settled.
NotifyWhileRunning(c, n) ==
    /\ plan # 0 /\ pay[c][n].status \notin {"none", "paid"}
    /\ \/ pay[c][n].bank = "charged" /\ SettlePaid(c, n)
       \/ pay[c][n].bank = "rejected" /\ pay[c][n].status = "pending" /\ SettleFailed(c, n)
    /\ UNCHANGED <<teacher, job>>

\* A notification of the bank, or a check of the payment by anyone but the job.
Notify(c, n) ==
    /\ pay[c][n].status \notin {"none", "paid"}
    /\ \/ pay[c][n].bank = "charged" /\ SettlePaid(c, n)
       \/ pay[c][n].bank = "rejected" /\ pay[c][n].status = "pending" /\ SettleFailed(c, n)
    /\ UNCHANGED <<teacher, job>>

\* The operator's reconcile command fails a payment that never got an id. It
\* takes none that is younger than the requests of the job last.
ReconcileFails(c, n) ==
    /\ pay[c][n].status = "pending" /\ ~pay[c][n].id
    /\ <<job.cycle, job.attempt>> # <<c, n>>
    /\ SettleFailed(c, n)
    /\ UNCHANGED <<teacher, job>>

\* The bank decides about a charge it has accepted.
BankDecides(c, n) ==
    /\ pay[c][n].bank = "processing"
    /\ \E answer \in {"charged", "rejected"} : pay' = [pay EXCEPT ![c][n].bank = answer]
    /\ UNCHANGED <<subscription, auto, card, attempted, teacher, job>>

--------------------------------------------------------------------------------
(* A checkout that carries the consent.                                    *)

\* The form is opened and the consent of its checkbox journalled.
OpenCheckout ==
    /\ checkout.status = "none"
    /\ \E bought \in PaidPlans :
          checkout' = [checkout EXCEPT !.status = "pending", !.plan = bought]
    /\ journal' = "granted" /\ wish' = "on"
    /\ UNCHANGED <<subscription, auto, card, attempted, pay, request, toggles, replanned, job>>

\* The payer confirms the form, and with it the consent.
PayCheckout ==
    /\ checkout.status = "pending" /\ ~checkout.bank
    /\ checkout' = [checkout EXCEPT !.bank = TRUE]
    /\ wish' = "on"
    /\ UNCHANGED <<subscription, auto, card, attempted, pay, request, toggles, replanned, journal, job>>

\* apply_auto_renew_consent, for the card that is saved and the plan that runs by
\* now: a consent to a plan that only waits is not applied.
ConsentApplies(saved, runs) ==
    saved /\ runs = checkout.plan /\ ~checkout.applied /\ ~checkout.disabled

\* GetState finds the payment confirmed; it tells nothing of the card.
SyncCheckout ==
    /\ checkout.status = "pending" /\ checkout.bank
    /\ Bought(checkout.plan)
    /\ auto' = IF Early(checkout.plan) THEN auto
               ELSE (auto /\ card) \/ ConsentApplies(card, plan')
    /\ checkout' = [checkout EXCEPT !.status = "paid",
                                    !.applied = ConsentApplies(card, plan')]
    /\ UNCHANGED <<card, pay, request, toggles, journal, wish, replanned, job>>

\* The notification brings the RebillId; it may be late and find a payment that
\* is settled: then the card is saved and the consent applied to a valid plan.
NoticeCheckout ==
    /\ checkout.bank /\ ~checkout.noticed
    /\ card' = TRUE
    /\ \/ /\ checkout.status = "pending"
          /\ Bought(checkout.plan)
          /\ auto' = (auto \/ ~Early(checkout.plan))
          /\ checkout' = [checkout EXCEPT !.status = "paid", !.noticed = TRUE,
                                          !.applied = ConsentApplies(TRUE, plan')]
       \/ /\ checkout.status = "paid"
          /\ LET applies == ConsentApplies(TRUE, plan) /\ slot \notin Ended
             IN  /\ auto' = (auto \/ applies)
                 /\ checkout' = [checkout EXCEPT !.noticed = TRUE,
                                                 !.applied = @ \/ applies]
          /\ UNCHANGED <<subscription, attempted>>
    /\ UNCHANGED <<pay, request, toggles, journal, wish, replanned, job>>

--------------------------------------------------------------------------------
(* The teacher in the cabinet.                                             *)

Ask ==
    /\ request = "none" /\ toggles < MaxToggles
    /\ toggles' = toggles + 1
    /\ UNCHANGED <<slot, period, plan, attempted, pay, checkout, journal, job>>

\* A request that leaves the next plan as it is.
SamePlan == UNCHANGED <<nextPlan, change, replanned>>

\* _set_auto_renew commits the flag and goes on to the journal.
TurnOn ==
    /\ plan # 0 /\ slot \notin Ended /\ card
    /\ Ask /\ SamePlan
    /\ auto' = TRUE /\ wish' = "on"
    /\ request' = IF auto THEN "none" ELSE "on"
    /\ UNCHANGED card

TurnOff ==
    /\ Ask /\ SamePlan
    /\ auto' = FALSE
    /\ request' = IF auto THEN "off" ELSE "off_already"
    /\ UNCHANGED <<card, wish>>

\* unbind_card
Unbind ==
    /\ card
    /\ Ask /\ SamePlan
    /\ auto' = FALSE /\ card' = FALSE
    /\ request' = IF auto THEN "off" ELSE "off_already"
    /\ UNCHANGED wish

\* The second half: the journal entry of a consent.
AnswerOn ==
    /\ request = "on" /\ request' = "none"
    /\ journal' = "granted"
    /\ UNCHANGED <<subscription, auto, card, attempted, pay, checkout, toggles, wish, replanned, job>>

\* A form that is paid and not settled yet, or was settled between the two halves
\* of the refusal, crosses it: its consent is applied.
Crossed == auto \/ (checkout.bank /\ checkout.status = "pending")

\* Mutant: a refusal leaves the consent of a settled payment to be applied.
AnswerOffUnmarked ==
    /\ request \in {"off", "off_already"} /\ request' = "none"
    /\ journal' = IF request = "off" THEN "revoked" ELSE journal
    /\ wish' = IF Crossed THEN "crossed" ELSE "off"
    /\ UNCHANGED <<subscription, auto, card, attempted, pay, checkout, toggles, replanned, job>>

\* mark_user_disabled takes back a consent that is settled and not applied; the
\* refusal is journalled when it changed something. It is answered then.
AnswerOff ==
    /\ request \in {"off", "off_already"} /\ request' = "none"
    /\ checkout' = [checkout EXCEPT !.disabled = checkout.status = "paid" /\ ~checkout.applied]
    /\ journal' = IF request = "off" THEN "revoked" ELSE journal
    /\ wish' = IF Crossed THEN "crossed" ELSE "off"
    /\ UNCHANGED <<subscription, auto, card, attempted, pay, toggles, replanned, job>>

\* The next plan becomes another one: too late, if a payment for it is under way.
Replan(next) ==
    /\ Ask
    /\ nextPlan' = next
    /\ replanned' = replanned \cup {p \in Periods : p = period /\
                        \E c \in Cycles : c[1] = p /\ Open(c) # {}}
    /\ UNCHANGED <<card, request, wish>>

\* DowngradeService.schedule while the period runs, for a cheaper plan or for Start
\* (the plan is cancelled); an earlier change is superseded, paid for or not.
SchedulePlan ==
    /\ slot \notin Ended
    /\ \E next \in Plans :
          /\ next < plan
          /\ Replan(next)
          /\ auto' = (auto /\ next # 0)
    /\ change' = "pending"

\* DowngradeService.cancel; it refuses a change that is paid for.
KeepPlan ==
    /\ change = "pending"
    /\ Replan(plan) /\ change' = "none"
    /\ UNCHANGED auto

--------------------------------------------------------------------------------
(* The job.                                                                *)

Go(step) == job' = [job EXCEPT !.step = step]

\* The attempt is stamped on the locked row.
JobLock ==
    /\ job.step = "idle" /\ period \in Periods
    /\ auto /\ card /\ journal = "granted"
    /\ plan # 0 /\ slot \in Window /\ attempted # slot
    /\ attempted' = slot
    /\ job' = [Idle EXCEPT !.step = "prepare"]
    /\ UNCHANGED <<subscription, auto, card, pay, teacher>>

\* create_recurrent_payment reads the row again, whatever it has become, and goes by
\* the payments of its cycle: it charges, gives up or leaves it to an earlier
\* attempt. A plan that is paid for in advance, or Start, is not charged for.
Renews ==
    /\ auto /\ journal = "granted" /\ card
    /\ change # "prepaid" /\ nextPlan # 0
    /\ period \in Periods     \* bound

Proceeds == job.step = "prepare" /\ Renews

JobSkips ==
    /\ job.step = "prepare"
    /\ \/ ~Renews
       \/ Renews /\ Open(Cycle) = {} /\ Tried(Cycle) # {} /\ FailedIn(Cycle) = 0
       \/ Renews /\ \E n \in Open(Cycle) : pay[Cycle][n].status = "paid" \/ ~pay[Cycle][n].id
    /\ job' = Idle
    /\ UNCHANGED <<subscription, auto, card, attempted, pay, teacher>>

\* Mutant: an attempt that is still open is not looked for.
JobCreatesAnew ==
    /\ Proceeds
    /\ FailedIn(Cycle) < MaxAttempts
    /\ \E n \in Attempts :
          /\ n = Cardinality(Tried(Cycle)) + 1
          /\ pay' = [pay EXCEPT ![Cycle][n].status = "pending"]
          /\ job' = [job EXCEPT !.step = "recheck", !.cycle = Cycle, !.attempt = n]
    /\ UNCHANGED <<subscription, auto, card, attempted, teacher>>

\* Mutant: an attempt more than MAX_RENEW_ATTEMPTS.
JobCreatesOneMore ==
    /\ Proceeds
    /\ Open(Cycle) = {} /\ FailedIn(Cycle) <= MaxAttempts
    /\ LET n == FailedIn(Cycle) + 1
       IN  /\ pay' = [c \in Cycles |-> [k \in Attempts |->
                         IF <<c, k>> = <<Cycle, n>>
                         THEN [NoPayment EXCEPT !.status = "pending"] ELSE pay[c][k]]]
           /\ job' = [job EXCEPT !.step = "recheck", !.cycle = Cycle, !.attempt = n]
    /\ UNCHANGED <<subscription, auto, card, attempted, teacher>>

\* The key of an attempt counts the attempts that failed; it is unique.
JobCreates ==
    /\ Proceeds
    /\ Open(Cycle) = {}
    /\ Tried(Cycle) = {} \/ FailedIn(Cycle) > 0
    /\ FailedIn(Cycle) < MaxAttempts
    /\ LET n == FailedIn(Cycle) + 1
       IN  IF pay[Cycle][n].status = "none"
           THEN /\ pay' = [pay EXCEPT ![Cycle][n].status = "pending"]
                /\ job' = [job EXCEPT !.step = "recheck", !.cycle = Cycle, !.attempt = n]
           ELSE job' = Idle /\ UNCHANGED pay
    /\ UNCHANGED <<subscription, auto, card, attempted, teacher>>

JobHasFailed ==
    /\ Proceeds
    /\ Open(Cycle) = {} /\ FailedIn(Cycle) >= MaxAttempts
    /\ Go("giveup")
    /\ UNCHANGED <<subscription, auto, card, attempted, pay, teacher>>

\* _resume_recurrent_payment: GetState on a payment that waits.
JobResumes ==
    /\ Proceeds
    /\ \E n \in Open(Cycle) :
          LET payment == pay[Cycle][n]
          IN  /\ payment.status = "pending" /\ payment.id
              /\ \/ payment.bank = "charged" /\ SettlePaid(Cycle, n) /\ job' = Idle
                 \/ payment.bank = "rejected" /\ SettleFailed(Cycle, n) /\ Go("giveup")
                 \/ /\ payment.bank \in {"none", "processing"} /\ job' = Idle
                    /\ UNCHANGED <<subscription, auto, card, attempted, pay>>
    /\ UNCHANGED teacher

\* Mutant: the row is not read again before the bank is called.
JobRecheckNothing ==
    /\ job.step = "recheck"
    /\ job' = [job EXCEPT !.step = "init", !.refused = wish = "off" /\ request = "none"]
    /\ UNCHANGED <<subscription, auto, card, attempted, pay, teacher>>

\* The last look at the row; the payment is cancelled if renewal is off by now.
JobRechecks ==
    /\ job.step = "recheck"
    /\ IF auto
       THEN /\ job' = [job EXCEPT !.step = "init", !.refused = wish = "off" /\ request = "none"]
            /\ UNCHANGED pay
       ELSE /\ pay' = [pay EXCEPT ![job.cycle][job.attempt].status = "cancelled"]
            /\ job' = Idle
    /\ UNCHANGED <<subscription, auto, card, attempted, teacher>>

\* Init of the payment; when it fails the payment waits without an id.
JobInit ==
    /\ job.step = "init"
    /\ \/ /\ pay' = [pay EXCEPT ![job.cycle][job.attempt].id = TRUE]
          /\ Go("charge")
       \/ job' = Idle /\ UNCHANGED pay
    /\ UNCHANGED <<subscription, auto, card, attempted, teacher>>

\* Charge: what the bank does, and whether its answer arrives. A rejection that
\* is answered is written at once; without an answer the payment waits.
JobCharge ==
    /\ job.step = "charge"
    /\ LET c == job.cycle
           n == job.attempt
       IN  \E bank \in Answers, answered \in BOOLEAN :
              LET known == IF answered /\ bank = "rejected" THEN "failed" ELSE "pending"
              IN  /\ answered => bank # "none"
                  /\ pay' = [pay EXCEPT ![c][n].bank = bank, ![c][n].status = known]
                  /\ job' = IF answered /\ bank = "charged"
                            THEN [job EXCEPT !.step = "settle"]
                            ELSE IF known = "failed" /\ FailedIn(c) + 1 >= MaxAttempts
                            THEN [job EXCEPT !.step = "giveup"] ELSE Idle
    /\ UNCHANGED <<subscription, auto, card, attempted, teacher>>

\* The job settles the charge that was answered, unless a notification has.
JobSettles ==
    /\ job.step = "settle"
    /\ IF pay[job.cycle][job.attempt].status = "paid"
       THEN card' = TRUE /\ UNCHANGED <<subscription, attempted, auto, pay>>
       ELSE SettlePaid(job.cycle, job.attempt)
    /\ job' = Idle
    /\ UNCHANGED teacher

\* An UPDATE without a lock switches renewal off.
JobGivesUp ==
    /\ job.step = "giveup"
    /\ auto' = FALSE /\ job' = Idle
    /\ UNCHANGED <<subscription, card, attempted, pay, teacher>>

\* Mutant: a subscription with a card is kept however long the grace has lasted.
InGraceForever == auto /\ card

\* process_expired_subscriptions keeps a plan that may still be renewed.
InGrace == auto /\ card /\ slot # 4

\* The other half of the hourly job. apply_due_changes: the plan that was paid for
\* in advance begins, and one that was not falls to Start, like a plan without a
\* change whose grace is over.
Arrive ==
    /\ job.step = "idle"
    /\ change = "prepaid" /\ slot \in Ended
    /\ Activated(nextPlan)
    /\ UNCHANGED <<auto, card, pay, teacher, job>>

Expire ==
    /\ job.step = "idle"
    /\ plan # 0 /\ slot \in Ended
    /\ change = "pending" \/ (change = "none" /\ ~InGrace)
    /\ plan' = 0 /\ nextPlan' = 0 /\ change' = "none" /\ auto' = FALSE
    /\ UNCHANGED <<slot, period, card, attempted, pay, teacher, job>>

\* The job is over before the next slot begins.
Tick ==
    /\ slot < 4 /\ job.step = "idle"
    /\ slot' = slot + 1
    /\ UNCHANGED <<period, plan, nextPlan, change, auto, card, attempted, pay, teacher, job>>

--------------------------------------------------------------------------------
Job == \/ JobLock \/ JobSkips \/ JobCreates \/ JobHasFailed \/ JobResumes
       \/ JobRechecks \/ JobInit \/ JobCharge \/ JobSettles \/ JobGivesUp

Bank == \E c \in Cycles, n \in Attempts :
            Notify(c, n) \/ BankDecides(c, n) \/ ReconcileFails(c, n)

Next ==
    \/ OpenCheckout \/ PayCheckout \/ SyncCheckout \/ NoticeCheckout
    \/ TurnOn \/ TurnOff \/ Unbind \/ AnswerOn \/ AnswerOff
    \/ SchedulePlan \/ KeepPlan
    \/ Bank
    \/ Job \/ Arrive \/ Expire \/ Tick

Spec == Init /\ [][Next]_vars

\* The hourly job runs to its end and time passes; the bank decides about a charge
\* and then repeats its notification until it is received.
FairSpec ==
    /\ Spec
    /\ WF_vars(Job) /\ WF_vars(Arrive) /\ WF_vars(Expire) /\ WF_vars(Tick)
    /\ \A c \in Cycles, n \in Attempts : WF_vars(Notify(c, n)) /\ WF_vars(BankDecides(c, n))

--------------------------------------------------------------------------------
(* Properties.                                                             *)

\* The end of one period is paid for once: whatever answers are lost and
\* notifications late, no second renewal of it is charged, for the same next plan
\* (renewal_cycle_key, _resume_recurrent_payment) or for another one. Excepted is a
\* period whose next plan the teacher changed while a payment for it waited or was
\* paid: the other plan has a key of its own, and the job charges for it too.
OneChargePerPeriod ==
    \A c, d \in Cycles : \A m, n \in Attempts :
        /\ c[1] = d[1]
        /\ pay[c][m].bank \in {"processing", "charged"}
        /\ pay[d][n].bank \in {"processing", "charged"}
        => (c = d /\ m = n) \/ (c # d /\ c[1] \in replanned)

\* A refusal that was answered is respected: the bank is not asked for money
\* unless the job took its last look at the row before that answer. A refusal
\* that crosses a form already paid is not in it.
ChargeNeedsConsent == [][job.step = "charge" /\ pay' # pay => ~job.refused]_vars

\* Renewal does not come on again by itself after a refusal that was answered.
RefusalStands == [][auto' /\ ~auto => wish' # "off" \/ request # "none"]_vars

\* A period that has ended does not stay: it is renewed or the plan falls to
\* Start, whether the charge fails, hangs or is refused.
PeriodEnds == \A p \in Periods : (plan # 0 /\ period = p /\ slot \in Ended)
                                     ~> (plan = 0 \/ period # p)

\* Money that a renewal has taken extends the subscription in the end, also when the
\* answer of the charge was lost and the plan has fallen to Start meanwhile: again
\* and again nothing that was charged is left unsettled.
ChargedIsRenewed ==
    []<>(\A c \in Cycles, n \in Attempts :
            pay[c][n].bank = "charged" => pay[c][n].status = "paid")
================================================================================
