----------------------- MODULE SubscriptionPeriod_proofs -----------------------
(***************************************************************************)
(* What holds of SubscriptionPeriod for every number of plans, every       *)
(* period and every number of requests: the types, that no step but the    *)
(* two unlocked saves takes a paid plan away before its end, and that only *)
(* the steps PaidTimeIsKept names shorten what is paid for.                *)
(***************************************************************************)
EXTENDS SubscriptionPeriod, TLAPS

\* A subscription that is not active has no paid plan.
Settled(r) == r.status # "active" => r.plan = Start

\* The inductive invariant: the types, a plan of Start in every row that is not
\* active, the copies that requests hold included, and no reading from the future.
PeriodInv ==
    /\ TypeOK
    /\ Settled(row)
    /\ \A q \in Requests : request[q] # Nothing => Settled(request[q].row)
    /\ \A q \in Requests : request[q].at <= now
    /\ job.step = "changes" => job.change \in Changes
    /\ job.at <= now

--------------------------------------------------------------------------------
(* Facts about the helpers.                                                *)

LEMMA PlanFacts ==
    /\ Start \in Plans
    /\ PaidPlans \subseteq Plans
    /\ Plans \subseteq Int
    /\ Start = 0
    /\ \A p \in Plans : p >= 0
BY PeriodAssumption DEF Plans, PaidPlans, Start

LEMMA NothingIsNoReading == \A x \in Readings : x # Nothing
BY DEF Readings, Nothing

LEMMA ExtendedRow ==
    ASSUME NEW r \in Rows, NEW t \in Nat
    PROVE  /\ Extended(r, t) \in Rows
           /\ Extended(r, t).plan = r.plan
           /\ Extended(r, t).status = "active"
<1>1. (IF r.expires > t THEN r.expires ELSE t) + Bonus \in Nat
  BY PeriodAssumption DEF Rows, Days
<1> QED
  BY <1>1 DEF Extended, Rows, Days

LEMMA MirrorIsPlan ==
    ASSUME NEW c \in Changes \cup {NoChange}
    PROVE  MirrorOf(c) \in Plans \cup {None}
BY DEF MirrorOf, Changes

LEMMA MovedIsChange ==
    ASSUME NEW c \in Changes \cup {NoChange}, NEW end \in Nat
    PROVE  Moved(c, end) \in Changes \cup {NoChange}
BY DEF Moved, Changes, Days

LEMMA NewChangeIsChange ==
    ASSUME NEW p \in Plans, NEW end \in Nat, NEW how \in {"pending", "prepaid"}
    PROVE  NewChange(p, end, how) \in Changes
BY DEF NewChange, Changes, Days

\* An activation keeps the plan of the row it starts from, or adds bonus days.
LEMMA FinishKeeps ==
    ASSUME PeriodInv, NEW r \in Rows, Settled(r), NEW c \in Changes \cup {NoChange},
           FinishActivation(r, c)
    PROVE  /\ row' \in Rows
           /\ Settled(row')
           /\ row'.plan = r.plan
           /\ change' \in Changes \cup {NoChange}
           /\ reward' \in {"none", "saving", "available", "granted"}
<1> DEFINE after == IF reward = "available" /\ PaidActive(r, now) THEN Extended(r, now) ELSE r
<1>1. now \in Nat /\ reward \in {"none", "saving", "available", "granted"}
  BY DEF PeriodInv, TypeOK
<1>2. /\ after \in Rows
      /\ after.plan = r.plan
      /\ Settled(after)
  BY <1>1, ExtendedRow DEF Settled
<1>3. MirrorOf(c) \in Plans \cup {None}
  BY MirrorIsPlan
<1>4. row' = [after EXCEPT !.scheduled = MirrorOf(c)]
  BY DEF FinishActivation
<1>5. row' \in Rows /\ row'.plan = after.plan /\ row'.status = after.status
  BY <1>2, <1>3, <1>4 DEF Rows
<1>6. change' = Moved(c, after.expires) /\ after.expires \in Nat
  BY <1>2 DEF FinishActivation, Rows, Days
<1>7. change' \in Changes \cup {NoChange}
  BY <1>6, MovedIsChange
<1>8. reward' \in {"none", "saving", "available", "granted"}
  BY <1>1 DEF FinishActivation
<1> QED
  BY <1>2, <1>5, <1>7, <1>8 DEF Settled

LEMMA EndAfterIsDay ==
    ASSUME PeriodInv, NEW plan
    PROVE  EndAfter(plan) \in Nat
BY PeriodAssumption DEF EndAfter, PeriodInv, TypeOK, Rows, Days

LEMMA PrepayKeeps ==
    ASSUME PeriodInv, NEW plan \in PaidPlans, Prepay(plan)
    PROVE  /\ row' \in Rows
           /\ Settled(row')
           /\ row'.plan = row.plan
           /\ change' \in Changes \cup {NoChange}
           /\ reward' \in {"none", "saving", "available", "granted"}
<1> DEFINE r == [row EXCEPT !.prepaid = row.expires + Period]
           c == IF change # NoChange /\ change.to = plan
                THEN [change EXCEPT !.status = "prepaid", !.at = row.expires]
                ELSE NewChange(plan, row.expires, "prepaid")
<1>1. r \in Rows /\ Settled(r) /\ r.plan = row.plan
  BY PeriodAssumption DEF PeriodInv, TypeOK, Rows, Days, Settled
<1>2. row.expires \in Nat /\ plan \in Plans
  BY PlanFacts DEF PeriodInv, TypeOK, Rows, Days
<1>3. c \in Changes \cup {NoChange}
  BY <1>2, NewChangeIsChange DEF PeriodInv, TypeOK, Changes, Days
<1>4. FinishActivation(r, c)
  BY DEF Prepay
<1> HIDE DEF r, c
<1> QED
  BY <1>1, <1>3, <1>4, FinishKeeps

LEMMA ActivateKeeps ==
    ASSUME PeriodInv, NEW plan \in PaidPlans, Activate(plan)
    PROVE  /\ row' \in Rows
           /\ Settled(row')
           /\ row'.plan = plan
           /\ change' \in Changes \cup {NoChange}
           /\ reward' \in {"none", "saving", "available", "granted"}
<1> DEFINE r == [plan |-> plan, status |-> "active", expires |-> EndAfter(plan),
                 prepaid |-> 0, scheduled |-> None, cancelled |-> FALSE]
<1>1. r \in Rows /\ Settled(r) /\ r.plan = plan
  BY PlanFacts, EndAfterIsDay DEF Rows, Days, Settled
<1>2. FinishActivation(r, NoChange)
  BY DEF Activate
<1> HIDE DEF r
<1> QED
  BY <1>1, <1>2, FinishKeeps

LEMMA NewReading == ASSUME PeriodInv PROVE [row |-> row, at |-> now] \in Readings
BY DEF PeriodInv, TypeOK, Readings, Days

--------------------------------------------------------------------------------
(* The invariant is inductive.                                             *)

LEMMA InitInv == Init => PeriodInv
<1> SUFFICES ASSUME Init PROVE PeriodInv
  OBVIOUS
<1>1. row \in Rows /\ Settled(row)
  BY PlanFacts DEF Init, Rows, Days, Settled
<1>2. job \in [step : Steps, at : Nat, change : Changes \cup {NoChange}, listed : BOOLEAN]
  BY DEF Init, Idle, Steps
<1>3. request \in [Requests -> Readings \cup {Nothing}] /\ \A q \in Requests : request[q] = Nothing
  BY DEF Init
<1>4. settled \in [PaidPlans -> Nat]
  BY DEF Init
<1> QED
  BY <1>1, <1>2, <1>3, <1>4 DEF Init, PeriodInv, TypeOK, Nothing, None, Idle

LEMMA SettleInv == ASSUME PeriodInv, NEW plan \in PaidPlans, Settle(plan) PROVE PeriodInv'
<1> USE DEF PeriodInv
<1>1. settled' \in [PaidPlans -> Nat]
  BY DEF Settle, TypeOK
<1>2. /\ row' \in Rows /\ Settled(row')
      /\ change' \in Changes \cup {NoChange}
      /\ reward' \in {"none", "saving", "available", "granted"}
  BY PrepayKeeps, ActivateKeeps DEF Settle
<1>3. UNCHANGED <<now, asked, job, request>>
  BY DEF Settle
<1> QED
  BY <1>1, <1>2, <1>3 DEF TypeOK

LEMMA ScheduleInv == ASSUME PeriodInv, NEW target \in Plans, Schedule(target) PROVE PeriodInv'
<1> USE DEF PeriodInv
<1>1. NewChange(target, row.expires, "pending") \in Changes
  BY NewChangeIsChange DEF TypeOK, Rows, Days
<1>2. row' \in Rows /\ Settled(row')
  BY DEF Schedule, TypeOK, Rows, Settled
<1> QED
  BY <1>1, <1>2 DEF Schedule, TypeOK

LEMMA CancelChangeInv == ASSUME PeriodInv, CancelChange PROVE PeriodInv'
<1> USE DEF PeriodInv
<1>1. row' \in Rows /\ Settled(row')
  BY DEF CancelChange, TypeOK, Rows, Days, Settled
<1> QED
  BY <1>1 DEF CancelChange, TypeOK

\* A request reads the row: the copy is a row like the one it was taken from.
LEMMA ReadInv ==
    ASSUME PeriodInv, NEW q \in Requests, Read(q),
           reward' \in {"none", "saving", "available", "granted"}
    PROVE  PeriodInv'
<1> USE DEF PeriodInv
<1>1. request' = [request EXCEPT ![q] = [row |-> row, at |-> now]]
  BY DEF Read
<1>2. request' \in [Requests -> Readings \cup {Nothing}]
  BY <1>1, NewReading DEF TypeOK
<1>3. \A p \in Requests : request'[p] # Nothing => Settled(request'[p].row)
  BY <1>1 DEF TypeOK
<1>4. \A p \in Requests : request'[p].at <= now'
  BY <1>1 DEF TypeOK, Read
<1> QED
  BY <1>2, <1>3, <1>4 DEF Read, TypeOK

\* A request is answered and leaves the row and the change well formed.
LEMMA AnswerInv ==
    ASSUME PeriodInv, NEW q \in Requests, Answer(q),
           row' \in Rows, Settled(row'), change' \in Changes \cup {NoChange},
           reward' \in {"none", "saving", "available", "granted"}
    PROVE  PeriodInv'
<1> USE DEF PeriodInv
<1>1. request' = [request EXCEPT ![q] = Nothing]
  BY DEF Answer
<1>2. request' \in [Requests -> Readings \cup {Nothing}]
  BY <1>1 DEF TypeOK
<1>3. \A p \in Requests : request'[p] # Nothing => Settled(request'[p].row)
  BY <1>1 DEF TypeOK
<1>4. \A p \in Requests : request'[p].at <= now'
  BY <1>1 DEF TypeOK, Answer, Nothing, None
<1> QED
  BY <1>2, <1>3, <1>4 DEF Answer, TypeOK

LEMMA ReadingFacts ==
    ASSUME PeriodInv, NEW q \in Requests, Answer(q)
    PROVE  request[q] \in Readings /\ request[q].row \in Rows /\ request[q].at \in Nat
           /\ Settled(request[q].row)
<1>1. request[q] \in Readings
  BY DEF PeriodInv, TypeOK, Answer
<1> QED
  BY <1>1 DEF Answer, Readings, Days, PeriodInv

LEMMA ReadsInv ==
    ASSUME PeriodInv, CancelRead \/ StartRead \/ RewardRead \/ DemoteRead PROVE PeriodInv'
<1>1. reward \in {"none", "saving", "available", "granted"}
  BY DEF PeriodInv, TypeOK
<1>2. CASE CancelRead
  BY <1>1, <1>2, ReadInv DEF CancelRead, Requests
<1>3. CASE StartRead
  BY <1>1, <1>3, ReadInv DEF StartRead, Requests
<1>4. CASE RewardRead
  BY <1>1, <1>4, ReadInv DEF RewardRead, Requests
<1>5. CASE DemoteRead
  BY <1>1, <1>5, ReadInv DEF DemoteRead, Requests
<1> QED
  BY <1>2, <1>3, <1>4, <1>5

LEMMA CancelSaveInv == ASSUME PeriodInv, CancelSave PROVE PeriodInv'
<1> DEFINE seen == request["cancel"].row
           over == seen.expires = 0 \/ seen.expires <= request["cancel"].at
           left == over /\ seen.plan # Start
<1>1. Answer("cancel") /\ UNCHANGED <<change, reward>>
  BY DEF CancelSave
<1>2. seen \in Rows /\ Settled(seen)
  BY <1>1, ReadingFacts DEF Requests
<1>3. row' = [row EXCEPT !.cancelled = TRUE, !.scheduled = None,
                         !.status = IF over THEN "cancelled" ELSE seen.status,
                         !.plan = IF left THEN Start ELSE seen.plan,
                         !.expires = IF left THEN 0 ELSE seen.expires]
  BY DEF CancelSave
<1>4. row' \in Rows /\ Settled(row')
  <2> HIDE DEF seen
  <2> QED
    BY <1>2, <1>3, PlanFacts DEF PeriodInv, TypeOK, Rows, Days, Settled
<1> QED
  BY <1>1, <1>4, AnswerInv DEF PeriodInv, TypeOK, Requests

LEMMA StartSaveInv == ASSUME PeriodInv, StartSave PROVE PeriodInv'
<1>1. Answer("start") /\ UNCHANGED <<change, reward>>
  BY DEF StartSave
<1>2. request["start"].row \in Rows
  BY <1>1, ReadingFacts DEF Requests
<1>3. row' \in Rows /\ Settled(row')
  BY <1>2, PlanFacts DEF StartSave, Rows, Days, Settled
<1> QED
  BY <1>1, <1>3, AnswerInv DEF PeriodInv, TypeOK, Requests

LEMMA RewardSaveInv == ASSUME PeriodInv, RewardSave PROVE PeriodInv'
<1> DEFINE more == Extended(request["reward"].row, request["reward"].at)
<1>1. Answer("reward") /\ reward' = "granted" /\ change' = Moved(change, more.expires)
  BY DEF RewardSave
<1>2. request["reward"].row \in Rows /\ request["reward"].at \in Nat
  BY <1>1, ReadingFacts DEF Requests
<1>3. more \in Rows /\ more.status = "active"
  BY <1>2, ExtendedRow
<1>4. change' \in Changes \cup {NoChange}
  BY <1>1, <1>3, MovedIsChange DEF PeriodInv, TypeOK, Rows, Days
<1>5. MirrorOf(change) \in Plans \cup {None}
  BY MirrorIsPlan DEF PeriodInv, TypeOK
<1>6. row' = [row EXCEPT !.expires = more.expires, !.status = more.status,
                         !.scheduled = IF change' = change THEN @ ELSE MirrorOf(change)]
  BY DEF RewardSave
<1>7. row' \in Rows /\ Settled(row')
  <2> HIDE DEF more
  <2> QED
    BY <1>3, <1>5, <1>6 DEF PeriodInv, TypeOK, Rows, Settled
<1> QED
  BY <1>1, <1>4, <1>7, AnswerInv DEF Requests

LEMMA DemoteUpdateInv == ASSUME PeriodInv, DemoteUpdate PROVE PeriodInv'
<1>1. Answer("demote") /\ UNCHANGED <<change, reward>>
  BY DEF DemoteUpdate
<1>2. row' \in Rows /\ Settled(row')
  BY PlanFacts DEF DemoteUpdate, PeriodInv, TypeOK, Rows, Settled
<1> QED
  BY <1>1, <1>2, AnswerInv DEF PeriodInv, TypeOK, Requests

LEMMA RewardWaitsInv == ASSUME PeriodInv, RewardWaits PROVE PeriodInv'
BY DEF RewardWaits, PeriodInv, TypeOK

\* A step of the job that leaves the row and the change well formed.
LEMMA ChangesDoneInv ==
    ASSUME PeriodInv, ChangesDone, row' \in Rows, Settled(row'),
           change' \in Changes \cup {NoChange}
    PROVE  PeriodInv'
<1>1. job' \in [step : Steps, at : Nat, change : Changes \cup {NoChange}, listed : BOOLEAN]
  BY DEF ChangesDone, Idle, Steps, PeriodInv, TypeOK
<1>2. job'.at = job.at /\ job'.step = "done"
  BY DEF ChangesDone, Idle
<1> QED
  BY <1>1, <1>2 DEF ChangesDone, PeriodInv, TypeOK

LEMMA JobListInv == ASSUME PeriodInv, JobList PROVE PeriodInv'
<1>1. /\ job' \in [step : Steps, at : Nat, change : Changes \cup {NoChange}, listed : BOOLEAN]
      /\ job'.at = now
      /\ job'.step = "changes" => job'.change \in Changes
  <2>1. CASE change # NoChange /\ change.at <= now
    BY <2>1 DEF JobList, Idle, Steps, PeriodInv, TypeOK
  <2>2. CASE ~(change # NoChange /\ change.at <= now)
    BY <2>2 DEF JobList, Idle, Steps, PeriodInv, TypeOK
  <2> QED
    BY <2>1, <2>2
<1> QED
  BY <1>1 DEF JobList, PeriodInv, TypeOK

LEMMA JobPostponesInv == ASSUME PeriodInv, JobPostpones PROVE PeriodInv'
<1> USE DEF PeriodInv, TypeOK
<1>1. job.change \in Changes
  BY DEF JobPostpones
<1>2. job.change.to \in Plans
  BY <1>1 DEF Changes
<1>3. row' \in Rows /\ Settled(row')
  BY <1>2 DEF JobPostpones, Rows, Settled
<1>4. change' \in Changes \cup {NoChange}
  <2>1. CASE change = NoChange \/ change' = change
    BY <2>1, <1>1 DEF JobPostpones, HeldIsActive, Changes, NoChange
  <2>2. CASE change \in Changes /\ change' = [change EXCEPT !.at = row.expires]
    BY <2>2 DEF Changes, Rows, Days
  <2> QED
    BY <2>1, <2>2 DEF JobPostpones
<1>5. ChangesDone
  BY DEF JobPostpones
<1> QED
  BY <1>3, <1>4, <1>5, ChangesDoneInv

LEMMA JobAppliesPrepaidInv == ASSUME PeriodInv, JobAppliesPrepaid PROVE PeriodInv'
<1>1. change' \in Changes \cup {NoChange} /\ ChangesDone
  BY DEF JobAppliesPrepaid, PeriodInv, TypeOK
<1>2. job.change.to \in Plans
  BY DEF JobAppliesPrepaid, PeriodInv, TypeOK, Changes
<1>3. MirrorOf(change') \in Plans \cup {None}
  BY <1>1, MirrorIsPlan
<1>4. row' \in Rows /\ Settled(row')
  BY <1>2, <1>3 DEF JobAppliesPrepaid, PeriodInv, TypeOK, Rows, Days, Settled
<1> QED
  BY <1>1, <1>4, ChangesDoneInv

LEMMA JobAppliesStartInv == ASSUME PeriodInv, JobAppliesStart PROVE PeriodInv'
<1>1. change' \in Changes \cup {NoChange} /\ ChangesDone
  BY DEF JobAppliesStart, PeriodInv, TypeOK
<1>2. MirrorOf(change') \in Plans \cup {None}
  BY <1>1, MirrorIsPlan
<1>3. row' \in Rows /\ Settled(row')
  BY <1>2, PlanFacts DEF JobAppliesStart, PeriodInv, TypeOK, Rows, Days, Settled
<1> QED
  BY <1>1, <1>3, ChangesDoneInv

LEMMA JobListsExpiredInv == ASSUME PeriodInv, JobListsExpired PROVE PeriodInv'
<1>1. /\ job' \in [step : Steps, at : Nat, change : Changes \cup {NoChange}, listed : BOOLEAN]
      /\ job'.at = now /\ job'.step = "expire"
  BY DEF JobListsExpired, Idle, Steps, PeriodInv, TypeOK
<1> QED
  BY <1>1 DEF JobListsExpired, PeriodInv, TypeOK

LEMMA JobExpiresInv == ASSUME PeriodInv, JobExpires PROVE PeriodInv'
<1>1. row' \in Rows /\ Settled(row')
  BY PlanFacts DEF JobExpires, PeriodInv, TypeOK, Rows, Settled
<1>2. /\ job' \in [step : Steps, at : Nat, change : Changes \cup {NoChange}, listed : BOOLEAN]
      /\ job'.at = 0 /\ job'.step = "idle"
  BY DEF JobExpires, Idle, Steps
<1> QED
  BY <1>1, <1>2 DEF JobExpires, PeriodInv, TypeOK

LEMMA TickInv == ASSUME PeriodInv, Tick PROVE PeriodInv'
<1>1. now' = now + 1 /\ now \in Nat /\ now' \in Nat
  BY DEF Tick, PeriodInv, TypeOK
<1>2. \A q \in Requests : request[q].at \in Int
  BY DEF PeriodInv, TypeOK, Readings, Nothing, None, Days
<1>3. \A q \in Requests : request'[q].at <= now'
  BY <1>1, <1>2 DEF Tick, PeriodInv
<1>4. job.at \in Nat /\ job'.at <= now'
  BY <1>1 DEF Tick, PeriodInv, TypeOK
<1> QED
  BY <1>1, <1>3, <1>4 DEF Tick, PeriodInv, TypeOK

LEMMA NextInv == PeriodInv /\ [Next]_vars => PeriodInv'
<1> SUFFICES ASSUME PeriodInv, [Next]_vars PROVE PeriodInv'
  OBVIOUS
<1>1. ASSUME NEW plan \in PaidPlans, Settle(plan) PROVE PeriodInv'
  BY <1>1, SettleInv
<1>2. ASSUME NEW target \in Plans, Schedule(target) PROVE PeriodInv'
  BY <1>2, ScheduleInv
<1>3. CASE CancelChange
  BY <1>3, CancelChangeInv
<1>4. CASE CancelRead \/ StartRead \/ RewardRead \/ DemoteRead
  BY <1>4, ReadsInv
<1>5. CASE CancelSave \/ StartSave \/ RewardSave \/ DemoteUpdate \/ RewardWaits
  BY <1>5, CancelSaveInv, StartSaveInv, RewardSaveInv, DemoteUpdateInv, RewardWaitsInv
<1>6. CASE Job
  BY <1>6, JobListInv, JobPostponesInv, JobAppliesPrepaidInv, JobAppliesStartInv,
     JobListsExpiredInv, JobExpiresInv DEF Job
<1>7. CASE Tick
  BY <1>7, TickInv
<1>8. CASE UNCHANGED vars
  BY <1>8 DEF vars, PeriodInv, TypeOK
<1> QED
  BY <1>1, <1>2, <1>3, <1>4, <1>5, <1>6, <1>7, <1>8 DEF Next

LEMMA InvHolds == Spec => []PeriodInv
BY InitInv, NextInv, PTL DEF Spec

--------------------------------------------------------------------------------
(* Days that are paid for.                                                 *)

\* A request is answered before a second midnight.
Fresh == \A q \in Requests : request[q] # Nothing => now <= request[q].at + 1

\* What a cancel request has read is Start, or a period that was over.
SeenOver ==
    LET seen == request["cancel"]
    IN  seen # Nothing => seen.row.plan = Start \/ seen.row.expires <= seen.at

\* While the job holds a change nobody has paid for, a change that is paid for
\* in advance has come after it, onto a period that runs on.
Ahead ==
    /\ job.step = "changes" /\ job.change.status = "pending"
    /\ change # NoChange /\ change.status = "prepaid"
    /\ row.prepaid > row.expires /\ row.plan # Start
    => row.expires > job.at

KeptInv == PeriodInv /\ Fresh /\ SeenOver /\ Ahead

LEMMA InitKept == Init => KeptInv
BY InitInv DEF Init, Idle, Requests, KeptInv, Fresh, SeenOver, Ahead

LEMMA RowFacts ==
    ASSUME PeriodInv
    PROVE  /\ row \in Rows /\ Settled(row) /\ now \in Nat
           /\ row.plan \in Plans /\ row.expires \in Nat /\ row.prepaid \in Nat
           /\ job.at \in Nat /\ job.at <= now
           /\ change \in Changes \cup {NoChange}
BY DEF PeriodInv, TypeOK, Rows, Days

\* An end that is paid for is the end of the period or of what waits behind it.
LEMMA PaidUntilFacts ==
    ASSUME NEW r \in Rows, NEW c
    PROVE  /\ PaidUntil(r, c) \in Nat
           /\ r.expires \in Nat /\ r.prepaid \in Nat
           /\ PaidUntil(r, c) >= r.expires
           /\ PaidUntil(r, c) # r.expires =>
                /\ c # NoChange /\ c.status = "prepaid" /\ r.prepaid > r.expires
                /\ PaidUntil(r, c) = r.prepaid
BY DEF PaidUntil, Rows, Days

LEMMA ExtendedLater ==
    ASSUME NEW r \in Rows, NEW t \in Nat
    PROVE  /\ Extended(r, t).expires \in Nat
           /\ Extended(r, t).expires >= r.expires
           /\ Extended(r, t).expires >= t + Bonus
BY PeriodAssumption DEF Extended, Rows, Days

\* An activation leaves an end that is no earlier.
LEMMA FinishLater ==
    ASSUME PeriodInv, NEW r \in Rows, NEW c, FinishActivation(r, c)
    PROVE  /\ row'.expires \in Nat /\ row'.expires >= r.expires
           /\ c = NoChange => change' = NoChange
<1> DEFINE after == IF reward = "available" /\ PaidActive(r, now) THEN Extended(r, now) ELSE r
<1>1. now \in Nat
  BY RowFacts
<1>2. after \in Rows /\ after.expires \in Nat /\ after.expires >= r.expires
  <2>1. r.expires \in Nat
    BY DEF Rows, Days
  <2>2. /\ Extended(r, now) \in Rows /\ Extended(r, now).expires \in Nat
        /\ Extended(r, now).expires >= r.expires
    BY <1>1, ExtendedRow, ExtendedLater
  <2>3. after = r \/ after = Extended(r, now)
    OBVIOUS
  <2> HIDE DEF after
  <2>4. CASE after = r
    BY <2>1, <2>4
  <2>5. CASE after = Extended(r, now)
    BY <2>2, <2>5
  <2> QED
    BY <2>3, <2>4, <2>5
<1>3. row' = [after EXCEPT !.scheduled = MirrorOf(c)] /\ change' = Moved(c, after.expires)
  BY DEF FinishActivation
<1> HIDE DEF after
<1> QED
  BY <1>2, <1>3 DEF Rows, Moved

LEMMA PrepayLater ==
    ASSUME PeriodInv, NEW plan \in PaidPlans, Prepay(plan)
    PROVE  row'.expires \in Nat /\ row'.expires >= row.expires
<1> DEFINE r == [row EXCEPT !.prepaid = row.expires + Period]
<1>1. r \in Rows /\ r.expires = row.expires
  BY PeriodAssumption DEF PeriodInv, TypeOK, Rows, Days
<1> HIDE DEF r
<1>2. \E c : FinishActivation(r, c)
  BY DEF Prepay, r
<1> QED
  BY <1>1, <1>2, FinishLater

LEMMA ActivateLater ==
    ASSUME PeriodInv, NEW plan \in PaidPlans, Activate(plan)
    PROVE  row'.expires \in Nat /\ row'.expires >= EndAfter(plan) /\ change' = NoChange
<1> DEFINE r == [plan |-> plan, status |-> "active", expires |-> EndAfter(plan),
                 prepaid |-> 0, scheduled |-> None, cancelled |-> FALSE]
<1>1. r \in Rows /\ r.expires = EndAfter(plan)
  BY PlanFacts, EndAfterIsDay DEF Rows, Days
<1>2. FinishActivation(r, NoChange)
  BY DEF Activate
<1> HIDE DEF r
<1> QED
  BY <1>1, <1>2, FinishLater

\* The cancel request and the choice of Start leave the teacher on Start.
LEMMA SavesStart ==
    ASSUME KeptInv, CancelSave \/ StartSave
    PROVE  row'.plan = Start
<1>1. CASE StartSave
  <2>1. request["start"].row \in Rows
    BY <1>1, ReadingFacts DEF StartSave, KeptInv, Requests
  <2> QED
    BY <1>1, <2>1 DEF StartSave, Rows
<1>2. CASE CancelSave
  <2> DEFINE seen == request["cancel"].row
             over == seen.expires = 0 \/ seen.expires <= request["cancel"].at
             left == over /\ seen.plan # Start
  <2>1. Answer("cancel") /\ request["cancel"] # Nothing
    BY <1>2 DEF CancelSave, Answer
  <2>2. seen.plan = Start \/ over
    BY <2>1 DEF KeptInv, SeenOver
  <2>3. row' = [row EXCEPT !.cancelled = TRUE, !.scheduled = None,
                           !.status = IF over THEN "cancelled" ELSE seen.status,
                           !.plan = IF left THEN Start ELSE seen.plan,
                           !.expires = IF left THEN 0 ELSE seen.expires]
    BY <1>2 DEF CancelSave
  <2>4. row \in Rows
    BY RowFacts DEF KeptInv
  <2> HIDE DEF over, seen
  <2>5. row'.plan = IF left THEN Start ELSE seen.plan
    BY <2>3, <2>4 DEF Rows
  <2> QED
    BY <2>2, <2>5
<1> QED
  BY <1>1, <1>2

\* An answer to a request, and a request that begins, keep the readings.
LEMMA ReadingsKept ==
    ASSUME KeptInv, [Next]_vars
    PROVE  Fresh' /\ SeenOver'
<1>a. /\ PeriodInv /\ Fresh /\ SeenOver /\ now \in Nat
      /\ request \in [Requests -> Readings \cup {Nothing}]
      /\ \A q \in Requests : request[q].at \in Int
  BY DEF KeptInv, PeriodInv, TypeOK, Readings, Nothing, None, Days
<1>1. ASSUME NEW q \in Requests, Answer(q) PROVE Fresh' /\ SeenOver'
  <2>1. request' = [request EXCEPT ![q] = Nothing] /\ UNCHANGED now
    BY <1>1 DEF Answer
  <2> QED
    BY <1>a, <2>1 DEF Fresh, SeenOver, Requests
<1>2. ASSUME NEW q \in Requests, Read(q),
             q = "cancel" => row.plan = Start \/ row.expires <= now
      PROVE  Fresh' /\ SeenOver'
  <2>1. request' = [request EXCEPT ![q] = [row |-> row, at |-> now]] /\ UNCHANGED now
    BY <1>2 DEF Read
  <2> QED
    BY <1>a, <1>2, <2>1 DEF Fresh, SeenOver, Requests
<1>3. CASE CancelRead
  <2>1. row.plan = Start \/ row.expires <= now
    BY <1>3, <1>a, RowFacts DEF CancelRead, Running, Valid, Settled
  <2> QED
    BY <1>2, <1>3, <2>1 DEF CancelRead, Requests
<1>4. CASE StartRead \/ RewardRead \/ DemoteRead
  BY <1>2, <1>4 DEF StartRead, RewardRead, DemoteRead, Requests
<1>5. CASE CancelSave \/ StartSave \/ RewardSave \/ DemoteUpdate
  BY <1>1, <1>5 DEF CancelSave, StartSave, RewardSave, DemoteUpdate, Requests
<1>6. CASE Tick
  BY <1>a, <1>6 DEF Tick, Fresh, SeenOver
<1>7. ASSUME UNCHANGED <<now, request>> PROVE Fresh' /\ SeenOver'
  BY <1>a, <1>7 DEF Fresh, SeenOver
<1> QED
  BY <1>3, <1>4, <1>5, <1>6, <1>7
  DEF Next, Settle, Schedule, CancelChange, RewardWaits, Job, JobList, JobPostpones,
      JobAppliesPrepaid, JobAppliesStart, JobListsExpired, JobExpires, ChangesDone, vars

LEMMA StepAhead ==
    ASSUME KeptInv, [Next]_vars
    PROVE  Ahead'
<1>a. PeriodInv /\ Fresh /\ Ahead
  BY DEF KeptInv
<1>b. /\ row \in Rows /\ Settled(row) /\ now \in Nat
      /\ row.plan \in Plans /\ row.expires \in Nat /\ row.prepaid \in Nat
      /\ job.at \in Nat /\ job.at <= now
      /\ change \in Changes \cup {NoChange}
  BY <1>a, RowFacts
<1>1. ASSUME NEW plan \in PaidPlans, Settle(plan) PROVE Ahead'
  <2>1. CASE IsPrepayment(plan) /\ Prepay(plan)
    <3>1. row'.expires >= row.expires /\ row.expires > now /\ row'.expires \in Nat
      BY <1>a, <2>1, PrepayLater DEF IsPrepayment, Running
    <3> QED
      BY <1>1, <1>b, <3>1 DEF Settle, Ahead
  <2>2. CASE Activate(plan)
    BY <1>a, <2>2, ActivateLater DEF Ahead
  <2> QED
    BY <1>1, <2>1, <2>2 DEF Settle
<1>2. ASSUME NEW target \in Plans, Schedule(target) PROVE Ahead'
  <2>1. change'.status = "pending"
    BY <1>2 DEF Schedule, NewChange
  <2> QED
    BY <2>1 DEF Ahead
<1>3. CASE CancelChange
  BY <1>3 DEF CancelChange, Ahead
<1>4. CASE CancelSave \/ StartSave
  BY <1>4, SavesStart DEF Ahead
<1>5. CASE RewardSave
  <2> DEFINE more == Extended(request["reward"].row, request["reward"].at)
  <2>1. Answer("reward") /\ request["reward"] # Nothing /\ UNCHANGED job
    BY <1>5 DEF RewardSave, Answer
  <2>2. request["reward"].row \in Rows /\ request["reward"].at \in Nat
    BY <1>a, <2>1, ReadingFacts DEF Requests
  <2>3. more.expires \in Nat /\ more.expires >= request["reward"].at + Bonus
    BY <2>2, ExtendedLater
  <2>4. now <= request["reward"].at + 1
    BY <1>a, <2>1 DEF Fresh, Requests
  <2>5. row'.expires = more.expires
    BY <1>5, <1>b DEF RewardSave, Rows
  <2> HIDE DEF more
  <2>6. row'.expires > job.at
    BY <1>b, <2>2, <2>3, <2>4, <2>5, PeriodAssumption
  <2> QED
    BY <2>1, <2>6 DEF Ahead
<1>6. CASE DemoteUpdate
  <2>1. row' = row \/ row'.plan = Start
    BY <1>6, <1>b DEF DemoteUpdate, Rows
  <2> QED
    BY <1>6, <1>a, <2>1 DEF DemoteUpdate, Answer, Ahead
<1>7. CASE JobList
  <2>1. job'.step = "changes" => job'.change = change
    BY <1>7 DEF JobList, Idle
  <2> QED
    BY <1>7, <2>1 DEF JobList, Ahead
<1>8. ASSUME job'.step # "changes" PROVE Ahead'
  BY <1>8 DEF Ahead
<1>9. CASE JobPostpones \/ JobAppliesPrepaid \/ JobAppliesStart \/ JobListsExpired \/ JobExpires
  <2>1. ChangesDone \/ JobListsExpired \/ JobExpires
    BY <1>9 DEF JobPostpones, JobAppliesPrepaid, JobAppliesStart
  <2>2. job'.step # "changes"
    <3>1. CASE ChangesDone
      BY <3>1 DEF ChangesDone, Idle
    <3>2. CASE JobListsExpired
      BY <3>2 DEF JobListsExpired, Idle
    <3>3. CASE JobExpires
      BY <3>3 DEF JobExpires, Idle
    <3> QED
      BY <2>1, <3>1, <3>2, <3>3
  <2> QED
    BY <1>8, <2>2
<1>10. ASSUME UNCHANGED <<row, change, job>> PROVE Ahead'
  BY <1>a, <1>10 DEF Ahead
<1> QED
  BY <1>1, <1>2, <1>3, <1>4, <1>5, <1>6, <1>7, <1>9, <1>10
  DEF Next, Job, CancelRead, StartRead, RewardRead, DemoteRead, Read, RewardWaits, Tick, vars

LEMMA StepKept == KeptInv /\ [Next]_vars => KeptInv'
BY NextInv, ReadingsKept, StepAhead DEF KeptInv

\* The steps that may shorten what is paid for.
Shortens ==
    \/ CancelSave \/ StartSave \/ RewardSave
    \/ \E plan \in PaidPlans :
          /\ Settle(plan)
          /\ plan > row.plan \/ (plan = row.plan /\ OutOfReach) \/ row.prepaid > 0
    \/ row.prepaid > 0 /\ \E t \in Plans : Schedule(t)

LEMMA StepKeepsDays ==
    ASSUME KeptInv, Next, ~Shortens,
           PaidUntil(row, change) > now, row.plan # Start
    PROVE  PaidUntil(row', change') >= PaidUntil(row, change)
<1>a. PeriodInv /\ Ahead /\ PeriodInv'
  BY NextInv DEF KeptInv
<1>b. /\ row \in Rows /\ Settled(row) /\ now \in Nat
      /\ row.plan \in Plans /\ row.expires \in Nat /\ row.prepaid \in Nat
      /\ job.at \in Nat /\ job.at <= now
      /\ change \in Changes \cup {NoChange}
      /\ row.status = "active"
  BY <1>a, RowFacts DEF Settled
<1>c. row' \in Rows
  BY <1>a DEF PeriodInv, TypeOK
<1>d. /\ PaidUntil(row, change) \in Nat /\ PaidUntil(row', change') \in Nat
      /\ PaidUntil(row', change') >= row'.expires /\ row'.expires \in Nat
      /\ PaidUntil(row, change) # row.expires =>
           /\ change # NoChange /\ change.status = "prepaid"
           /\ row.prepaid > row.expires /\ PaidUntil(row, change) = row.prepaid
  BY <1>b, <1>c, PaidUntilFacts
<1>e. ASSUME PaidUntil(row, change) = row.expires, row'.expires >= row.expires
      PROVE  PaidUntil(row', change') >= PaidUntil(row, change)
  BY <1>b, <1>d, <1>e
<1>1. ASSUME NEW plan \in PaidPlans, Settle(plan)
      PROVE  PaidUntil(row', change') >= PaidUntil(row, change)
  <2>1. plan <= row.plan /\ row.prepaid = 0 /\ plan \in Nat
    BY <1>1, <1>b, PeriodAssumption DEF Shortens, Plans, PaidPlans
  <2>2. PaidUntil(row, change) = row.expires
    BY <1>b, <1>d, <2>1
  <2>3. CASE Prepay(plan)
    BY <1>a, <1>e, <2>2, <2>3, PrepayLater
  <2>4. CASE ~IsPrepayment(plan) /\ Activate(plan)
    <3>1. plan = row.plan
      <4>1. row.expires > now
        BY <2>2
      <4>2. Running(row, now)
        BY <1>b, <4>1 DEF Running, Valid
      <4>3. row.plan \in Int
        BY <1>b, PlanFacts
      <4> QED
        BY <2>1, <2>4, <4>2, <4>3 DEF IsPrepayment
    <3>2. EndAfter(plan) = Period + row.expires
      BY <1>1, <1>b, <2>2, <3>1 DEF EndAfter, Shortens
    <3> QED
      BY <1>a, <1>b, <1>e, <2>2, <2>4, <3>2, ActivateLater, PeriodAssumption
  <2> QED
    BY <1>1, <2>3, <2>4 DEF Settle
<1>2. ASSUME NEW target \in Plans, Schedule(target)
      PROVE  PaidUntil(row', change') >= PaidUntil(row, change)
  <2>1. row.prepaid = 0
    BY <1>2, <1>b DEF Shortens
  <2>2. row'.expires = row.expires
    BY <1>2, <1>b DEF Schedule, Rows
  <2> QED
    BY <1>b, <1>d, <1>e, <2>1, <2>2
<1>3. CASE CancelChange
  <2>1. row'.expires = row.expires /\ change.status = "pending"
    BY <1>3, <1>b DEF CancelChange, Rows
  <2> QED
    BY <1>b, <1>d, <1>e, <2>1
<1>4. CASE DemoteUpdate
  <2>1. row'.expires = row.expires /\ row'.prepaid = row.prepaid /\ change' = change
    BY <1>4, <1>b DEF DemoteUpdate, Rows
  <2> QED
    BY <1>b, <1>d, <2>1 DEF PaidUntil
<1>5. CASE JobPostpones
  <2>1. row'.expires = row.expires /\ row'.prepaid = row.prepaid
    BY <1>5, <1>b DEF JobPostpones, Rows
  <2>2. change # NoChange => change' # NoChange /\ change'.status = change.status
    BY <1>5, <1>b DEF JobPostpones, Changes, NoChange
  <2> QED
    BY <1>b, <1>d, <2>1, <2>2 DEF PaidUntil
<1>6. CASE JobAppliesPrepaid
  <2>1. row.expires <= now
    BY <1>6, <1>b DEF JobAppliesPrepaid, StillRuns
  <2>2. PaidUntil(row, change) = row.prepaid /\ row.prepaid > now
    BY <1>b, <1>d, <2>1
  <2>3. row'.expires = row.prepaid
    BY <1>6, <1>b, <2>2 DEF JobAppliesPrepaid, Rows
  <2> QED
    BY <1>d, <2>2, <2>3
<1>7. CASE JobAppliesStart
  <2>1. row.expires <= job.at
    BY <1>7, <1>b DEF JobAppliesStart, StillRuns
  <2>2. PaidUntil(row, change) # row.expires
    BY <1>b, <2>1
  <2> QED
    BY <1>7, <1>a, <1>b, <1>d, <2>1, <2>2 DEF JobAppliesStart, Ahead
<1>8. CASE JobExpires
  <2>1. CASE row' = row
    BY <1>8, <1>d, <2>1 DEF JobExpires
  <2>2. CASE StillOver
    BY <1>b, <1>d, <2>2 DEF StillOver
  <2> QED
    BY <1>8, <2>1, <2>2 DEF JobExpires
<1>9. ASSUME UNCHANGED <<row, change>> PROVE PaidUntil(row', change') >= PaidUntil(row, change)
  BY <1>9, <1>d
<1> QED
  BY <1>1, <1>2, <1>3, <1>4, <1>5, <1>6, <1>7, <1>8, <1>9
  DEF Next, Job, CancelRead, StartRead, RewardRead, DemoteRead, Read, RewardWaits,
      JobList, JobListsExpired, Tick, Shortens

--------------------------------------------------------------------------------
(* Theorems.                                                               *)

\* The types, for any number of plans, any period and any number of requests.
THEOREM TypesHold == Spec => []TypeOK
<1>1. PeriodInv => TypeOK
  BY DEF PeriodInv
<1> QED
  BY InvHolds, <1>1, PTL

\* A plan goes down before the end of its period only by one of the two requests
\* that save a row they read earlier; every other writer looks at the locked row.
THEOREM DemotionsWait == Spec => NoEarlyDemotion
<1> DEFINE Demotes == row'.plan < row.plan => row.expires <= now \/ CancelSave \/ StartSave
<1>1. PeriodInv /\ [Next]_vars => [Demotes]_vars
  <2> SUFFICES ASSUME PeriodInv, Next, ~(CancelSave \/ StartSave), row'.plan < row.plan
               PROVE  row.expires <= now
    BY DEF vars
  <2>1. /\ row \in Rows /\ Settled(row) /\ now \in Nat
        /\ row.plan \in Plans /\ row.expires \in Nat
    BY DEF PeriodInv, TypeOK, Rows, Days
  <2>2. row'.plan # row.plan
    <3>1. PeriodInv'
      BY NextInv
    <3>2. row'.plan \in Plans
      BY <3>1 DEF PeriodInv, TypeOK, Rows
    <3>3. row'.plan \in Int /\ row.plan \in Int
      BY <2>1, <3>2, PlanFacts
    <3> QED
      BY <3>3
  <2>3. ASSUME NEW plan \in PaidPlans, Settle(plan) PROVE row.expires <= now
    <3>1. CASE Prepay(plan)
      BY <2>2, <3>1, PrepayKeeps
    <3>2. CASE ~IsPrepayment(plan) /\ Activate(plan)
      <4>1. plan < row.plan
        BY <3>2, ActivateKeeps
      <4>2. row.status = "active"
        BY <2>1, <4>1, PlanFacts DEF Settled
      <4> QED
        BY <2>1, <3>2, <4>1, <4>2 DEF IsPrepayment, Running, Valid
    <3> QED
      BY <2>3, <3>1, <3>2 DEF Settle
  <2>4. CASE RewardWaits \/ CancelRead \/ StartRead \/ RewardRead \/ DemoteRead
    BY <2>2, <2>4 DEF RewardWaits, CancelRead, StartRead, RewardRead, DemoteRead, Read
  <2>5. ASSUME NEW target \in Plans, Schedule(target) PROVE row.expires <= now
    BY <2>1, <2>2, <2>5 DEF Schedule, Rows
  <2>6. CASE CancelChange
    BY <2>1, <2>2, <2>6 DEF CancelChange, Rows
  <2>7. CASE RewardSave
    BY <2>1, <2>2, <2>7 DEF RewardSave, Rows
  <2>8. CASE DemoteUpdate
    <3>1. row.expires <= request["demote"].at
      BY <2>1, <2>2, <2>8 DEF DemoteUpdate, Rows
    <3>2. request["demote"].at \in Int /\ request["demote"].at <= now
      BY <2>8, ReadingFacts DEF DemoteUpdate, PeriodInv, Requests
    <3> QED
      BY <2>1, <3>1, <3>2
  <2>9. CASE JobList \/ JobListsExpired \/ Tick
    BY <2>2, <2>9 DEF JobList, JobListsExpired, Tick
  <2>10. job.at \in Nat /\ job.at <= now
    BY DEF PeriodInv, TypeOK
  <2>11. CASE JobPostpones
    BY <2>1, <2>2, <2>11 DEF JobPostpones, Rows
  <2>12. CASE JobAppliesPrepaid \/ JobAppliesStart
    BY <2>1, <2>10, <2>12 DEF JobAppliesPrepaid, JobAppliesStart, StillRuns
  <2>13. CASE JobExpires
    BY <2>1, <2>2, <2>10, <2>13 DEF JobExpires, StillOver
  <2> QED
    BY <2>3, <2>4, <2>5, <2>6, <2>7, <2>8, <2>9, <2>11, <2>12, <2>13 DEF Next, Job
<1> QED
  BY InvHolds, <1>1, PTL DEF Spec, NoEarlyDemotion

\* Nobody takes away days that are paid for and not over but the steps the property
\* names: neither the job with a change or a row that is out of date, nor a
\* demotion, nor a payment for a cheaper plan, nor one for the same plan unless the
\* end lies out of the reach of the code.
THEOREM PaidDaysKept == Spec => PaidTimeIsKept
<1>1. KeptInv /\ [Next]_vars
        => [PaidUntil(row', change') < PaidUntil(row, change) /\ PaidUntil(row, change) > now
               /\ row.plan # Start
            => \/ CancelSave \/ StartSave \/ RewardSave
               \/ \E plan \in PaidPlans :
                     /\ Settle(plan)
                     /\ plan > row.plan \/ (plan = row.plan /\ OutOfReach) \/ row.prepaid > 0
               \/ row.prepaid > 0 /\ \E t \in Plans : Schedule(t)]_vars
  <2> SUFFICES ASSUME KeptInv, Next, ~Shortens,
                      PaidUntil(row, change) > now, row.plan # Start
               PROVE  ~(PaidUntil(row', change') < PaidUntil(row, change))
    BY DEF Shortens
  <2>1. PaidUntil(row', change') >= PaidUntil(row, change)
    BY StepKeepsDays
  <2>2. PaidUntil(row', change') \in Nat /\ PaidUntil(row, change) \in Nat
    BY NextInv, PaidUntilFacts DEF KeptInv, PeriodInv, TypeOK
  <2> QED
    BY <2>1, <2>2
<1>2. KeptInv /\ [Next]_vars => KeptInv'
  BY StepKept
<1> QED
  BY <1>1, <1>2, InitKept, PTL DEF Spec, PaidTimeIsKept
================================================================================
