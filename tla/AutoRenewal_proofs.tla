-------------------------- MODULE AutoRenewal_proofs --------------------------
(***************************************************************************)
(* What holds of AutoRenewal for every number of periods, attempts and     *)
(* cabinet requests: one period is charged once, and a refusal stands.     *)
(***************************************************************************)
EXTENDS AutoRenewal, FiniteSetTheorems, TLAPS

\* A charge the bank has accepted.
Taken(x) == x.bank \in {"processing", "charged"}

\* The payment the job has in hand, and what it knows of it.
HeldInv ==
    job.step \in {"recheck", "init", "charge", "settle"} =>
          LET held == pay[job.cycle][job.attempt]
          IN  /\ job.cycle \in Cycles
              /\ job.step \in {"recheck", "init"} =>
                    held.status = "pending" /\ held.bank = "none" /\ ~held.id
              /\ job.step = "charge" =>
                    held.status = "pending" /\ held.bank = "none" /\ held.id
              /\ job.step = "settle" => held.bank = "charged"

\* Of the payments of one period at most one is open, and a charge is taken by an
\* open one only; before a payment has its id the bank does not know it.
PayInv ==
    /\ \A c \in Cycles : \A m, n \in Open(c) : m = n
    /\ \A c \in Cycles, n \in Attempts :
          /\ Taken(pay[c][n]) => n \in Open(c)
          /\ ~pay[c][n].id => pay[c][n].bank = "none"
          /\ pay[c][n].status = "none" => ~pay[c][n].id

\* Once a refusal is answered nothing is left that would turn renewal on.
WishInv ==
    /\ wish = "off" /\ request = "none" => ~auto
    /\ request = "on" => wish = "on"
    /\ checkout.bank /\ checkout.status = "pending" => wish # "off"
    /\ checkout.status = "paid" /\ ~checkout.applied /\ ~checkout.disabled => wish # "off"
    /\ job.step \in {"init", "charge"} => ~job.refused

\* The cycles with a payment that waits or is paid: none is ahead of its period; for
\* the running period it is the one of the next plan, unless that plan was changed
\* too late or nothing is charged for any more; and two of one period mean that it
\* was.
OpenCycles == {c \in Cycles : Open(c) # {}}

PlanInv ==
    /\ plan = 0 => nextPlan = 0 /\ change = "none"
    /\ \A c \in OpenCycles : c[1] <= period
    /\ \A c \in OpenCycles : c[1] = period =>
          period \in replanned \/ c[2] = nextPlan \/ change = "prepaid" \/ plan = 0
    /\ \A c, d \in OpenCycles : c[1] = d[1] /\ c # d => c[1] \in replanned

RenewalInv == TypeOK /\ HeldInv /\ PayInv /\ WishInv /\ PlanInv

\* The two halves of the types.
FlagsOK == auto \in BOOLEAN /\ card \in BOOLEAN

DataOK ==
    /\ slot \in Slots /\ period \in Nat
    /\ plan \in Plans /\ nextPlan \in Plans
    /\ change \in {"none", "pending", "prepaid"}
    /\ journal \in {"none", "granted", "revoked"}
    /\ attempted \in Slots
    /\ pay \in [Cycles -> [Attempts -> Payments]]
    /\ checkout \in [status : {"none", "pending", "paid"}, plan : Plans, bank : BOOLEAN,
                     noticed : BOOLEAN, applied : BOOLEAN, disabled : BOOLEAN]
    /\ request \in {"none", "on", "off", "off_already"}
    /\ toggles \in Nat
    /\ job \in [step : Steps, cycle : Nat \X Plans, attempt : Attempts, refused : BOOLEAN]
    /\ wish \in {"on", "off", "crossed"}
    /\ replanned \subseteq Periods

LEMMA TypeHalves == TypeOK <=> FlagsOK /\ DataOK
BY DEF TypeOK, FlagsOK, DataOK

--------------------------------------------------------------------------------
(* Facts about the payments of a period.                                   *)

LEMMA CycleFacts ==
    /\ \A c \in Cycles : c[1] \in Periods /\ c[1] \in Nat /\ c[2] \in PaidPlans
    /\ \A c \in Cycles : c = <<c[1], c[2]>>
    /\ PaidPlans \subseteq Plans /\ Plans \subseteq Nat
    /\ 0 \in Plans /\ 0 \notin PaidPlans /\ Plans = PaidPlans \cup {0}
<1>1. /\ PaidPlans \subseteq Plans /\ Plans \subseteq Nat
      /\ 0 \in Plans /\ 0 \notin PaidPlans
  BY RenewalAssumption DEF PaidPlans, Plans
<1>2. Plans = PaidPlans \cup {0}
  BY RenewalAssumption DEF PaidPlans, Plans
<1>3. \A c \in Cycles : c[1] \in Periods /\ c[2] \in PaidPlans /\ c = <<c[1], c[2]>>
  BY DEF Cycles
<1>4. Periods \subseteq Nat
  BY RenewalAssumption
<1> QED
  BY <1>1, <1>2, <1>3, <1>4

LEMMA AttemptFacts ==
    /\ 1 \in Attempts
    /\ Attempts \subseteq Nat
    /\ \A n \in Nat : n < MaxAttempts => n + 1 \in Attempts
BY RenewalAssumption DEF Attempts

LEMMA FailedIsNat == \A c \in Cycles : FailedIn(c) \in Nat
<1>1. IsFiniteSet(Attempts)
  BY RenewalAssumption, FS_Interval DEF Attempts
<1> QED
  BY <1>1, FS_Subset, FS_CardinalityType DEF FailedIn

\* One payment is changed and stays a payment.
LEMMA PaymentUpdate ==
    ASSUME TypeOK, NEW c \in Cycles, NEW n \in Attempts, NEW x \in Payments
    PROVE  LET new == [pay EXCEPT ![c][n] = x]
           IN  /\ new \in [Cycles -> [Attempts -> Payments]]
               /\ new[c][n] = x
               /\ \A d \in Cycles, m \in Attempts : d # c \/ m # n => new[d][m] = pay[d][m]
<1>1. pay \in [Cycles -> [Attempts -> Payments]]
  BY DEF TypeOK
<1>2. [pay[c] EXCEPT ![n] = x] \in [Attempts -> Payments]
  BY <1>1
<1> QED
  BY <1>1, <1>2

\* A payment may change and keep PayInv: it stays open or closed as it was.
LEMMA PayInvKept ==
    ASSUME TypeOK, PayInv, NEW c \in Cycles, NEW n \in Attempts, NEW x \in Payments,
           pay' = [pay EXCEPT ![c][n] = x],
           x.status \in {"pending", "paid"} => n \in Open(c) \/ Open(c) = {},
           Taken(x) => x.status \in {"pending", "paid"},
           ~x.id => x.bank = "none", x.status # "none"
    PROVE  PayInv'
<1>1. /\ pay'[c][n] = x
      /\ \A d \in Cycles, m \in Attempts : d # c \/ m # n => pay'[d][m] = pay[d][m]
  BY PaymentUpdate
<1>2. \A d \in Cycles : d # c => Open(d)' = Open(d)
  BY <1>1 DEF Open
<1>3. \A m \in Attempts : m # n => (m \in Open(c)' <=> m \in Open(c))
  BY <1>1 DEF Open
<1>4. n \in Open(c)' <=> x.status \in {"pending", "paid"}
  BY <1>1 DEF Open
<1>5. \A d \in Cycles : \A m, k \in Open(d)' : m = k
  <2> SUFFICES ASSUME NEW d \in Cycles, NEW m \in Open(d)', NEW k \in Open(d)' PROVE m = k
    OBVIOUS
  <2>1. m \in Attempts /\ k \in Attempts
    BY DEF Open
  <2>2. CASE d # c
    BY <1>2, <2>2 DEF PayInv
  <2>3. CASE d = c
    BY <1>3, <1>4, <2>1, <2>3 DEF PayInv
  <2> QED
    BY <2>2, <2>3
<1>6. ASSUME NEW d \in Cycles, NEW m \in Attempts
      PROVE  /\ Taken(pay'[d][m]) => m \in Open(d)'
             /\ ~pay'[d][m].id => pay'[d][m].bank = "none"
             /\ pay'[d][m].status = "none" => ~pay'[d][m].id
  <2>1. CASE d = c /\ m = n
    BY <1>1, <1>4, <2>1 DEF Taken
  <2>2. CASE d # c \/ m # n
    BY <1>1, <1>2, <1>3, <2>2 DEF PayInv, Taken
  <2> QED
    BY <2>1, <2>2
<1> QED
  BY <1>5, <1>6 DEF PayInv, Taken

\* Its cycle gains no open payment, nor does another one.
LEMMA OpenKept ==
    ASSUME TypeOK, NEW c \in Cycles, NEW n \in Attempts, NEW x \in Payments,
           pay' = [pay EXCEPT ![c][n] = x],
           x.status \in {"pending", "paid"} => n \in Open(c)
    PROVE  OpenCycles' \subseteq OpenCycles
<1>1. /\ pay'[c][n] = x
      /\ \A d \in Cycles, m \in Attempts : d # c \/ m # n => pay'[d][m] = pay[d][m]
  BY PaymentUpdate
<1>2. \A d \in Cycles : Open(d)' \subseteq Open(d)
  BY <1>1 DEF Open
<1> QED
  BY <1>2 DEF OpenCycles

--------------------------------------------------------------------------------
(* The next plan and the open cycles.                                      *)

\* A step that leaves the plans alone and opens no cycle.
LEMMA PlanKept ==
    ASSUME PlanInv, OpenCycles' \subseteq OpenCycles,
           UNCHANGED <<period, plan, nextPlan, change, replanned>>
    PROVE  PlanInv'
BY DEF PlanInv

\* A payment that is activated ends its period, one that is early makes the change
\* a prepaid one.
LEMMA BoughtInv ==
    ASSUME RenewalInv, NEW b \in Plans, Bought(b), UNCHANGED replanned,
           OpenCycles' \subseteq OpenCycles
    PROVE  /\ PlanInv'
           /\ slot' \in Slots /\ period' \in Nat /\ attempted' \in Slots
           /\ plan' \in Plans /\ nextPlan' \in Plans
           /\ change' \in {"none", "pending", "prepaid"}
<1>1. TypeOK /\ PlanInv /\ period \in Nat /\ slot \in Slots /\ attempted \in Slots
  BY DEF RenewalInv, TypeOK
<1>2. \A c \in OpenCycles : c[1] \in Nat
  BY CycleFacts DEF OpenCycles
<1>3. CASE Activated(b)
  <2>1. \A c \in OpenCycles' : c[1] <= period' /\ c[1] # period'
    BY <1>1, <1>2, <1>3 DEF Activated, PlanInv
  <2> QED
    BY <1>1, <1>3, <2>1 DEF Activated, PlanInv, Slots
<1>4. CASE Prepaid(b) /\ Early(b)
  <2>1. plan # 0
    BY <1>4, CycleFacts DEF Early
  <2> QED
    BY <1>1, <1>4, <2>1 DEF Prepaid, PlanInv, TypeOK
<1> QED
  BY <1>3, <1>4 DEF Bought

\* The teacher changes the next plan: the period counts as changed too late if a
\* cycle of it is open.
LEMMA ReplanInv ==
    ASSUME RenewalInv, SchedulePlan \/ KeepPlan
    PROVE  /\ PlanInv'
           /\ plan' \in Plans /\ nextPlan' \in Plans
           /\ change' \in {"none", "pending", "prepaid"} /\ replanned' \subseteq Periods
<1>1. TypeOK /\ PlanInv
  BY DEF RenewalInv
<1>2. PICK next \in Plans : Replan(next) /\ (next = plan \/ next < plan)
  BY <1>1 DEF SchedulePlan, KeepPlan, TypeOK
<1>3. /\ nextPlan' = next /\ UNCHANGED <<period, plan, pay>>
      /\ change' \in {"none", "pending"} /\ plan # 0
  BY <1>1, <1>2, CycleFacts DEF Replan, Ask, SchedulePlan, KeepPlan, PlanInv, TypeOK
<1>4. replanned' = replanned \cup {p \in Periods : p = period /\
                       \E c \in Cycles : c[1] = p /\ Open(c) # {}}
  BY <1>2 DEF Replan
<1>5. OpenCycles' = OpenCycles
  BY <1>3 DEF OpenCycles, Open
<1>6. \A c \in OpenCycles : c[1] = period => period \in replanned'
  BY <1>4, CycleFacts DEF OpenCycles
<1> QED
  BY <1>1, <1>3, <1>4, <1>5, <1>6 DEF PlanInv, TypeOK

--------------------------------------------------------------------------------
(* The invariant is inductive: the steps that leave the payments alone.    *)

LEMMA InitInv == Init => RenewalInv
<1> SUFFICES ASSUME Init PROVE RenewalInv
  OBVIOUS
<1>1. NoPayment \in Payments
  BY DEF NoPayment, Payments, Statuses, Answers
<1>2. pay \in [Cycles -> [Attempts -> Payments]]
  BY <1>1 DEF Init
<1>3. \A c \in Cycles, n \in Attempts : pay[c][n] = NoPayment
  BY DEF Init
<1>4. TypeOK
  <2>1. FlagsOK
    BY DEF Init, FlagsOK
  <2>2. Idle \in [step : Steps, cycle : Nat \X Plans, attempt : Attempts, refused : BOOLEAN]
    BY AttemptFacts, CycleFacts DEF Idle, Steps
  <2>3. DataOK
    BY <1>2, <2>2, CycleFacts DEF Init, DataOK, Slots
  <2> QED
    BY <2>1, <2>3, TypeHalves
<1>5. PayInv
  BY <1>3 DEF PayInv, Open, Taken, NoPayment
<1>6. PlanInv
  <2>1. OpenCycles = {}
    BY <1>3 DEF OpenCycles, Open, NoPayment
  <2> QED
    BY <2>1, CycleFacts DEF PlanInv, Init
<1> QED
  BY <1>4, <1>5, <1>6 DEF Init, RenewalInv, HeldInv, WishInv, Idle

LEMMA CheckoutInv ==
    ASSUME RenewalInv, OpenCheckout \/ PayCheckout \/ SyncCheckout \/ NoticeCheckout
    PROVE  RenewalInv'
<1>1. UNCHANGED <<pay, job>>
  BY DEF OpenCheckout, PayCheckout, SyncCheckout, NoticeCheckout
<1>2. FlagsOK /\ DataOK
  BY TypeHalves DEF RenewalInv
<1>o. OpenCycles' = OpenCycles
  BY <1>1 DEF OpenCycles, Open
<1>s. (SyncCheckout \/ (NoticeCheckout /\ checkout.status = "pending")) =>
         Bought(checkout.plan) /\ UNCHANGED <<replanned, toggles, request, journal, wish>>
  BY DEF SyncCheckout, NoticeCheckout
<1>b. (SyncCheckout \/ (NoticeCheckout /\ checkout.status = "pending")) =>
         /\ PlanInv'
         /\ slot' \in Slots /\ period' \in Nat /\ attempted' \in Slots
         /\ plan' \in Plans /\ nextPlan' \in Plans
         /\ change' \in {"none", "pending", "prepaid"}
  <2>1. checkout.plan \in Plans
    BY <1>2 DEF DataOK
  <2> QED
    BY <1>o, <1>s, <2>1, BoughtInv
<1>p. PlanInv'
  <2>1. CASE OpenCheckout \/ PayCheckout
    BY <1>o, <2>1, PlanKept DEF OpenCheckout, PayCheckout, subscription, RenewalInv
  <2>2. CASE NoticeCheckout /\ checkout.status = "paid"
    BY <1>o, <2>2, PlanKept DEF NoticeCheckout, subscription, RenewalInv
  <2> QED
    BY <1>b, <2>1, <2>2 DEF NoticeCheckout
<1>t. TypeOK'
  <2>1. CASE OpenCheckout
    <3>1. FlagsOK'
      BY <1>2, <2>1 DEF FlagsOK, OpenCheckout
    <3>2. PICK bought \in PaidPlans :
             checkout' = [checkout EXCEPT !.status = "pending", !.plan = bought]
      BY <2>1 DEF OpenCheckout
    <3>3. DataOK'
      BY <1>2, <2>1, <3>2, CycleFacts DEF DataOK, OpenCheckout, subscription
    <3> QED
      BY <3>1, <3>3 DEF TypeOK, FlagsOK, DataOK
  <2>2. CASE PayCheckout
    <3>1. FlagsOK'
      BY <1>2, <2>2 DEF FlagsOK, PayCheckout
    <3>2. DataOK'
      BY <1>2, <2>2 DEF DataOK, PayCheckout, subscription
    <3> QED
      BY <3>1, <3>2 DEF TypeOK, FlagsOK, DataOK
  <2>3. CASE SyncCheckout
    <3>1. FlagsOK'
      BY <1>2, <2>3, Zenon DEF FlagsOK, SyncCheckout, ConsentApplies
    <3>2. DataOK'
      <4>1. PICK b \in BOOLEAN : checkout' = [checkout EXCEPT !.status = "paid", !.applied = b]
        <5> DEFINE b == ConsentApplies(card, plan')
        <5>1. b \in BOOLEAN
          BY Zenon DEF ConsentApplies
        <5>2. checkout' = [checkout EXCEPT !.status = "paid", !.applied = b]
          BY <2>3 DEF SyncCheckout
        <5> HIDE DEF b
        <5> QED
          BY <5>1, <5>2
      <4>2. checkout' \in [status : {"none", "pending", "paid"}, plan : Plans, bank : BOOLEAN,
                           noticed : BOOLEAN, applied : BOOLEAN, disabled : BOOLEAN]
        BY <1>2, <4>1 DEF DataOK
      <4> QED
        BY <1>1, <1>2, <1>b, <1>s, <2>3, <4>2 DEF DataOK
    <3> QED
      BY <3>1, <3>2 DEF TypeOK, FlagsOK, DataOK
  <2>4. CASE NoticeCheckout
    <3>1. FlagsOK'
      BY <1>2, <2>4, Zenon DEF FlagsOK, NoticeCheckout
    <3>2. PICK b \in BOOLEAN, st \in {"pending", "paid"} :
             checkout' = [checkout EXCEPT !.status = st, !.noticed = TRUE, !.applied = b]
      <4>1. CASE checkout.status = "pending"
        <5> DEFINE b == ConsentApplies(TRUE, plan')
        <5>1. b \in BOOLEAN
          BY Zenon DEF ConsentApplies
        <5>2. checkout' = [checkout EXCEPT !.status = "paid", !.noticed = TRUE, !.applied = b]
          BY <2>4, <4>1 DEF NoticeCheckout
        <5> HIDE DEF b
        <5> QED
          BY <5>1, <5>2
      <4>2. CASE checkout.status = "paid"
        <5> DEFINE b == checkout.applied \/ (ConsentApplies(TRUE, plan) /\ slot \notin Ended)
        <5>1. b \in BOOLEAN
          BY Zenon
        <5>2. checkout' = [checkout EXCEPT !.noticed = TRUE, !.applied = b]
          BY <2>4, <4>2 DEF NoticeCheckout
        <5> HIDE DEF b
        <5>3. checkout' = [checkout EXCEPT !.status = "paid", !.noticed = TRUE, !.applied = b]
          BY <1>2, <4>2, <5>2 DEF DataOK
        <5> QED
          BY <5>1, <5>3
      <4> QED
        BY <2>4, <4>1, <4>2 DEF NoticeCheckout
    <3>3. checkout' \in [status : {"none", "pending", "paid"}, plan : Plans, bank : BOOLEAN,
                         noticed : BOOLEAN, applied : BOOLEAN, disabled : BOOLEAN]
      BY <1>2, <3>2 DEF DataOK
    <3>4. DataOK'
      <4>1. CASE checkout.status = "pending"
        BY <1>1, <1>2, <1>b, <1>s, <2>4, <3>3, <4>1 DEF DataOK
      <4>2. CASE checkout.status = "paid"
        BY <1>2, <2>4, <3>3, <4>2 DEF DataOK, NoticeCheckout, subscription
      <4> QED
        BY <2>4, <4>1, <4>2 DEF NoticeCheckout
    <3> QED
      BY <3>1, <3>4 DEF TypeOK, FlagsOK, DataOK
  <2> QED
    BY <2>1, <2>2, <2>3, <2>4
<1>3. WishInv'
  <2> USE DEF RenewalInv, TypeOK, WishInv
  <2>1. CASE OpenCheckout
    BY <2>1 DEF OpenCheckout, subscription
  <2>2. CASE PayCheckout
    BY <2>2 DEF PayCheckout, subscription
  <2>3. CASE SyncCheckout
    BY <2>3 DEF SyncCheckout
  <2>4. CASE NoticeCheckout
    <3>1. CASE checkout.status = "pending"
      BY <2>4, <3>1 DEF NoticeCheckout
    <3>2. CASE checkout.status = "paid"
      BY <2>4, <3>2 DEF NoticeCheckout, subscription, ConsentApplies
    <3> QED
      BY <2>4, <3>1, <3>2 DEF NoticeCheckout
  <2> QED
    BY <2>1, <2>2, <2>3, <2>4
<1> QED
  BY <1>1, <1>p, <1>t, <1>3 DEF RenewalInv, HeldInv, PayInv, Open, Taken

LEMMA CabinetInv ==
    ASSUME RenewalInv,
           TurnOn \/ TurnOff \/ Unbind \/ AnswerOn \/ AnswerOff \/ SchedulePlan \/ KeepPlan
    PROVE  RenewalInv'
<1>1. UNCHANGED <<pay, job>>
  BY DEF TurnOn, TurnOff, Unbind, AnswerOn, AnswerOff, SchedulePlan, KeepPlan, Replan, Ask
<1>p. PlanInv'
  <2>1. CASE TurnOn \/ TurnOff \/ Unbind \/ AnswerOn \/ AnswerOff
    <3>1. OpenCycles' = OpenCycles
      BY <1>1 DEF OpenCycles, Open
    <3>2. UNCHANGED <<period, plan, nextPlan, change, replanned>>
      BY <2>1 DEF TurnOn, TurnOff, Unbind, AnswerOn, AnswerOff, Ask, SamePlan, subscription
    <3> QED
      BY <3>1, <3>2, PlanKept DEF RenewalInv
  <2>2. CASE SchedulePlan \/ KeepPlan
    BY <2>2, ReplanInv
  <2> QED
    BY <2>1, <2>2
<1>2. TypeOK'
  <2>1. FlagsOK /\ DataOK
    BY TypeHalves DEF RenewalInv
  <2>2. FlagsOK'
    BY <2>1, Zenon DEF FlagsOK, TurnOn, TurnOff, Unbind, AnswerOn, AnswerOff, SchedulePlan,
       KeepPlan, Replan, Ask, subscription
  <2>3. DataOK'
    <3>1. CASE TurnOn \/ TurnOff \/ Unbind
      BY <2>1, <3>1 DEF DataOK, TurnOn, TurnOff, Unbind, Ask, SamePlan
    <3>4. CASE SchedulePlan \/ KeepPlan
      <4>1. UNCHANGED <<slot, period, journal, attempted, pay, checkout, request, job, wish>>
            /\ toggles' = toggles + 1
        BY <3>4 DEF SchedulePlan, KeepPlan, Replan, Ask
      <4> QED
        BY <2>1, <3>4, <4>1, ReplanInv DEF DataOK
    <3>2. CASE AnswerOn
      BY <2>1, <3>2 DEF DataOK, AnswerOn, subscription
    <3>3. CASE AnswerOff
      <4> DEFINE b == checkout.status = "paid" /\ ~checkout.applied
      <4>1. b \in BOOLEAN /\ checkout' = [checkout EXCEPT !.disabled = b]
        BY <3>3 DEF AnswerOff
      <4> HIDE DEF b
      <4>2. checkout' \in [status : {"none", "pending", "paid"}, plan : Plans, bank : BOOLEAN,
                           noticed : BOOLEAN, applied : BOOLEAN, disabled : BOOLEAN]
        BY <2>1, <4>1 DEF DataOK
      <4> QED
        BY <2>1, <3>3, <4>2 DEF DataOK, AnswerOff, subscription
    <3> QED
      BY <3>1, <3>2, <3>3, <3>4
  <2> QED
    BY <2>2, <2>3 DEF TypeOK, FlagsOK, DataOK
<1>3. WishInv'
  <2> USE DEF RenewalInv, TypeOK, WishInv
  <2>1. CASE TurnOn
    BY <2>1 DEF TurnOn, Ask
  <2>2. CASE TurnOff \/ Unbind
    BY <2>2 DEF TurnOff, Unbind, Ask
  <2>3. CASE AnswerOn
    BY <2>3 DEF AnswerOn, subscription
  <2>4. CASE AnswerOff
    BY <2>4 DEF AnswerOff, Crossed, subscription
  <2>5. CASE SchedulePlan \/ KeepPlan
    BY <2>5 DEF SchedulePlan, KeepPlan, Replan, Ask
  <2> QED
    BY <2>1, <2>2, <2>3, <2>4, <2>5
<1> QED
  BY <1>1, <1>p, <1>2, <1>3 DEF RenewalInv, HeldInv, PayInv, Open, Taken

LEMMA TimeInv == ASSUME RenewalInv, Tick \/ Arrive \/ Expire PROVE RenewalInv'
<1>1. UNCHANGED <<pay, job, wish, request, checkout, replanned>>
  BY DEF Tick, Arrive, Expire, teacher
<1>o. OpenCycles' = OpenCycles
  BY <1>1 DEF OpenCycles, Open
<1>p. PlanInv'
  <2>1. CASE Tick
    BY <1>1, <1>o, <2>1, PlanKept DEF Tick, RenewalInv
  <2>2. CASE Arrive
    <3>1. \A c \in OpenCycles : c[1] \in Nat /\ c[1] <= period /\ period \in Nat
      BY CycleFacts DEF OpenCycles, RenewalInv, PlanInv, TypeOK
    <3> QED
      BY <1>1, <1>o, <2>2, <3>1 DEF Arrive, Activated, PlanInv, RenewalInv
  <2>3. CASE Expire
    BY <1>1, <1>o, <2>3 DEF Expire, PlanInv, RenewalInv
  <2> QED
    BY <2>1, <2>2, <2>3
<1>2. TypeOK'
  <2>1. FlagsOK /\ DataOK
    BY TypeHalves DEF RenewalInv
  <2>2. FlagsOK'
    BY <2>1, Zenon DEF FlagsOK, Tick, Arrive, Expire
  <2>3. DataOK'
    BY <2>1, CycleFacts DEF DataOK, Tick, Arrive, Activated, Expire, teacher, Slots
  <2> QED
    BY <2>2, <2>3 DEF TypeOK, FlagsOK, DataOK
<1>3. WishInv'
  BY <1>1 DEF RenewalInv, WishInv, Tick, Arrive, Expire
<1> QED
  BY <1>1, <1>p, <1>2, <1>3 DEF RenewalInv, HeldInv, PayInv, Open, Taken

--------------------------------------------------------------------------------
(* The steps of the bank and of the job.                                   *)

Jobs == [step : Steps, cycle : Nat \X Plans, attempt : Attempts, refused : BOOLEAN]

\* Steps that change neither what the teacher said nor turn renewal on.
LEMMA WishKept ==
    ASSUME RenewalInv, UNCHANGED teacher, auto' => auto,
           job'.step \in {"init", "charge"} => ~job'.refused
    PROVE  WishInv'
BY Zenon DEF RenewalInv, WishInv, teacher

\* A payment that is not in the job's hand is changed, or the one it settles.
LEMMA HeldKept ==
    ASSUME RenewalInv, NEW c \in Cycles, NEW n \in Attempts, NEW x \in Payments,
           pay' = [pay EXCEPT ![c][n] = x], UNCHANGED job,
           job.step \in {"recheck", "init", "charge"} => c # job.cycle \/ n # job.attempt,
           x.bank = pay[c][n].bank \/ pay[c][n].bank # "charged"
    PROVE  HeldInv'
<1>1. /\ pay'[c][n] = x
      /\ \A d \in Cycles, m \in Attempts : d # c \/ m # n => pay'[d][m] = pay[d][m]
  BY PaymentUpdate DEF RenewalInv
<1>2. job.attempt \in Attempts
  BY DEF RenewalInv, TypeOK
<1>3. CASE job.step \in {"recheck", "init", "charge"}
  <2>1. job.cycle \in Cycles /\ pay'[job.cycle][job.attempt] = pay[job.cycle][job.attempt]
    BY <1>1, <1>2, <1>3 DEF RenewalInv, HeldInv
  <2> QED
    BY <1>3, <2>1 DEF RenewalInv, HeldInv
<1>4. CASE job.step = "settle"
  <2>1. job.cycle \in Cycles /\ pay[job.cycle][job.attempt].bank = "charged"
    BY <1>4 DEF RenewalInv, HeldInv
  <2>2. pay'[job.cycle][job.attempt].bank = "charged"
    BY <1>1, <1>2, <2>1
  <2> QED
    BY <1>4, <2>1, <2>2 DEF HeldInv
<1>5. CASE job.step \notin {"recheck", "init", "charge", "settle"}
  BY <1>5 DEF RenewalInv, HeldInv
<1> QED
  BY <1>3, <1>4, <1>5

\* An invariant of the payments and of the job, with everything else well typed.
LEMMA Assemble ==
    ASSUME FlagsOK', DataOK', HeldInv', PayInv', WishInv', PlanInv'
    PROVE  RenewalInv'
BY DEF RenewalInv, TypeOK, FlagsOK, DataOK

LEMMA PaidStep ==
    ASSUME RenewalInv, NEW c \in Cycles, NEW n \in Attempts,
           SettlePaid(c, n), pay[c][n].bank = "charged",
           UNCHANGED teacher, job' \in Jobs
    PROVE  /\ FlagsOK' /\ DataOK' /\ PayInv' /\ PlanInv' /\ (auto' => auto)
           /\ [pay[c][n] EXCEPT !.status = "paid"] \in Payments
           /\ pay' = [pay EXCEPT ![c][n] = [pay[c][n] EXCEPT !.status = "paid"]]
<1> DEFINE x == [pay[c][n] EXCEPT !.status = "paid"]
<1>1. FlagsOK /\ DataOK /\ TypeOK /\ PayInv
  BY TypeHalves DEF RenewalInv
<1>2. pay[c][n] \in Payments
  BY <1>1 DEF DataOK
<1>3. x \in Payments /\ x.status = "paid" /\ x.id = pay[c][n].id /\ x.bank = "charged"
  BY <1>2 DEF Payments, Statuses
<1>4. pay' = [pay EXCEPT ![c][n] = x]
  BY DEF SettlePaid
<1>5. n \in Open(c) /\ pay[c][n].id
  BY <1>1 DEF PayInv, Taken
<1> HIDE DEF x
<1>6. PayInv'
  BY <1>1, <1>3, <1>4, <1>5, PayInvKept
<1>7. pay' \in [Cycles -> [Attempts -> Payments]]
  BY <1>1, <1>3, <1>4, PaymentUpdate
<1>8. FlagsOK' /\ (auto' => auto)
  BY <1>1, Zenon DEF FlagsOK, SettlePaid
<1>10. OpenCycles' \subseteq OpenCycles
  BY <1>1, <1>3, <1>4, <1>5, OpenKept
<1>11. c[2] \in Plans /\ Bought(c[2]) /\ UNCHANGED replanned
  BY CycleFacts DEF SettlePaid, teacher
<1>12. /\ PlanInv'
       /\ slot' \in Slots /\ period' \in Nat /\ attempted' \in Slots
       /\ plan' \in Plans /\ nextPlan' \in Plans
       /\ change' \in {"none", "pending", "prepaid"}
  BY <1>10, <1>11, BoughtInv
<1>9. DataOK'
  BY <1>1, <1>7, <1>12 DEF DataOK, teacher, Jobs
<1> QED
  BY <1>3, <1>4, <1>6, <1>8, <1>9, <1>12 DEF x

LEMMA FailedStep ==
    ASSUME RenewalInv, NEW c \in Cycles, NEW n \in Attempts,
           SettleFailed(c, n), pay[c][n].bank = "rejected" \/ ~pay[c][n].id,
           UNCHANGED teacher, job' \in Jobs
    PROVE  /\ FlagsOK' /\ DataOK' /\ PayInv' /\ PlanInv' /\ (auto' => auto)
           /\ [pay[c][n] EXCEPT !.status = "failed"] \in Payments
           /\ pay' = [pay EXCEPT ![c][n] = [pay[c][n] EXCEPT !.status = "failed"]]
<1> DEFINE x == [pay[c][n] EXCEPT !.status = "failed"]
<1>1. FlagsOK /\ DataOK /\ TypeOK /\ PayInv
  BY TypeHalves DEF RenewalInv
<1>2. pay[c][n] \in Payments
  BY <1>1 DEF DataOK
<1>3. x \in Payments /\ x.status = "failed" /\ x.id = pay[c][n].id /\ x.bank = pay[c][n].bank
  BY <1>2 DEF Payments, Statuses
<1>4. pay' = [pay EXCEPT ![c][n] = x]
  BY DEF SettleFailed
<1>5. ~Taken(x) /\ (~x.id => x.bank = "none")
  BY <1>1, <1>3 DEF PayInv, Taken
<1> HIDE DEF x
<1>6. PayInv'
  BY <1>1, <1>3, <1>4, <1>5, PayInvKept
<1>7. pay' \in [Cycles -> [Attempts -> Payments]]
  BY <1>1, <1>3, <1>4, PaymentUpdate
<1>8. FlagsOK' /\ (auto' => auto)
  BY <1>1, Zenon DEF FlagsOK, SettleFailed, subscription
<1>9. DataOK'
  BY <1>1, <1>7 DEF DataOK, SettleFailed, subscription, teacher, Jobs
<1>10. OpenCycles' \subseteq OpenCycles
  BY <1>1, <1>3, <1>4, OpenKept
<1>11. PlanInv'
  BY <1>10, PlanKept DEF RenewalInv, SettleFailed, subscription, teacher
<1> QED
  BY <1>3, <1>4, <1>6, <1>8, <1>9, <1>11 DEF x

LEMMA BankInv ==
    ASSUME RenewalInv, NEW c \in Cycles, NEW n \in Attempts,
           Notify(c, n) \/ BankDecides(c, n) \/ ReconcileFails(c, n)
    PROVE  RenewalInv'
<1>1. job \in Jobs /\ TypeOK /\ PayInv /\ HeldInv /\ FlagsOK /\ DataOK
  BY TypeHalves DEF RenewalInv, TypeOK, Jobs
<1>2. UNCHANGED <<teacher, job>>
  BY DEF Notify, BankDecides, ReconcileFails
<1>w. (auto' => auto) => WishInv'
  BY <1>2, WishKept DEF RenewalInv, WishInv
<1>h. job.step \in {"recheck", "init", "charge"} =>
         pay[job.cycle][job.attempt].bank = "none"
  BY <1>1 DEF HeldInv
<1>3. CASE pay[c][n].bank = "charged" /\ SettlePaid(c, n)
  <2> DEFINE x == [pay[c][n] EXCEPT !.status = "paid"]
  <2>1. /\ FlagsOK' /\ DataOK' /\ PayInv' /\ PlanInv' /\ (auto' => auto)
        /\ x \in Payments /\ pay' = [pay EXCEPT ![c][n] = x]
    BY <1>1, <1>2, <1>3, PaidStep
  <2>2. x.bank = pay[c][n].bank
    BY <1>1, <2>1 DEF DataOK, Payments
  <2> HIDE DEF x
  <2>3. HeldInv'
    BY <1>2, <1>3, <1>h, <2>1, <2>2, HeldKept
  <2> QED
    BY <1>w, <2>1, <2>3, Assemble
<1>4. CASE /\ SettleFailed(c, n)
           /\ \/ pay[c][n].bank = "rejected"
              \/ ~pay[c][n].id /\ <<job.cycle, job.attempt>> # <<c, n>>
  <2> DEFINE x == [pay[c][n] EXCEPT !.status = "failed"]
  <2>1. /\ FlagsOK' /\ DataOK' /\ PayInv' /\ PlanInv' /\ (auto' => auto)
        /\ x \in Payments /\ pay' = [pay EXCEPT ![c][n] = x]
    BY <1>1, <1>2, <1>4, FailedStep
  <2>2. x.bank = pay[c][n].bank
    BY <1>1, <2>1 DEF DataOK, Payments
  <2>3. job.step \in {"recheck", "init", "charge"} => c # job.cycle \/ n # job.attempt
    BY <1>4, <1>h
  <2> HIDE DEF x
  <2>4. HeldInv'
    BY <1>2, <2>1, <2>2, <2>3, HeldKept
  <2> QED
    BY <1>w, <2>1, <2>4, Assemble
<1>5. CASE BankDecides(c, n)
  <2>1. PICK answer \in {"charged", "rejected"} : pay' = [pay EXCEPT ![c][n].bank = answer]
    BY <1>5 DEF BankDecides
  <2> DEFINE x == [pay[c][n] EXCEPT !.bank = answer]
  <2>2. pay[c][n] \in Payments /\ pay[c][n].bank = "processing"
    BY <1>1, <1>5 DEF DataOK, BankDecides
  <2>3. /\ x \in Payments /\ x.status = pay[c][n].status /\ x.id = pay[c][n].id
        /\ x.bank = answer
    BY <2>2 DEF Payments, Answers
  <2>4. pay' = [pay EXCEPT ![c][n] = x]
    BY <2>1
  <2>5. n \in Open(c) /\ pay[c][n].id
    BY <1>1, <2>2 DEF PayInv, Taken
  <2>6. pay[c][n].status \in {"pending", "paid"} /\ x.status # "none"
    BY <2>3, <2>5 DEF Open
  <2> HIDE DEF x
  <2>7. PayInv'
    BY <1>1, <2>3, <2>4, <2>5, <2>6, PayInvKept
  <2>8. HeldInv'
    BY <1>2, <1>h, <2>2, <2>3, <2>4, HeldKept
  <2>9. pay' \in [Cycles -> [Attempts -> Payments]]
    BY <1>1, <2>3, <2>4, PaymentUpdate
  <2>10. FlagsOK' /\ (auto' => auto)
    BY <1>1, <1>5 DEF FlagsOK, BankDecides, subscription
  <2>11. DataOK'
    BY <1>1, <1>5, <2>9 DEF DataOK, BankDecides, subscription, teacher
  <2>12. OpenCycles' \subseteq OpenCycles
    BY <1>1, <2>3, <2>4, <2>5, OpenKept
  <2>13. PlanInv'
    BY <1>5, <2>12, PlanKept DEF RenewalInv, BankDecides, subscription, teacher
  <2> QED
    BY <1>w, <2>7, <2>8, <2>10, <2>11, <2>13, Assemble
<1> QED
  BY <1>3, <1>4, <1>5 DEF Notify, ReconcileFails

\* A step of the job that touches no payment.
LEMMA JobMoves ==
    ASSUME RenewalInv, UNCHANGED <<subscription, pay, teacher>>, card' \in BOOLEAN,
           attempted' \in Slots, auto' \in BOOLEAN, auto' => auto, job' \in Jobs,
           job'.step \in {"idle", "prepare", "giveup"}
    PROVE  RenewalInv'
<1>1. FlagsOK /\ DataOK /\ TypeOK /\ PayInv
  BY TypeHalves DEF RenewalInv
<1>2. FlagsOK'
  BY <1>1 DEF FlagsOK, subscription
<1>3. DataOK'
  BY <1>1 DEF DataOK, subscription, teacher, Jobs
<1>4. PayInv'
  BY <1>1 DEF PayInv, Open, Taken
<1>5. HeldInv'
  BY DEF HeldInv
<1>6. WishInv'
  BY WishKept
<1>7. PlanInv'
  <2>1. OpenCycles' = OpenCycles
    BY DEF OpenCycles, Open
  <2> QED
    BY <2>1, PlanKept DEF RenewalInv, subscription, teacher
<1> QED
  BY <1>2, <1>3, <1>4, <1>5, <1>6, <1>7, Assemble

\* The job opens the cycle of the next plan: another one of its period is open only
\* if the teacher changed that plan.
LEMMA CycleOpened ==
    ASSUME RenewalInv, NEW c \in Cycles, NEW n \in Attempts, NEW x \in Payments,
           UNCHANGED <<subscription, teacher>>, pay' = [pay EXCEPT ![c][n] = x],
           c = Cycle, change # "prepaid"
    PROVE  PlanInv'
<1>1. TypeOK /\ PlanInv /\ period \in Nat
  BY DEF RenewalInv, TypeOK
<1>2. /\ UNCHANGED <<period, plan, nextPlan, change, replanned>>
      /\ c[1] = period /\ c[2] = nextPlan /\ nextPlan # 0 /\ plan # 0
  BY <1>1, CycleFacts DEF Cycle, PlanInv, subscription, teacher
<1>3. \A d \in Cycles : d # c => Open(d)' = Open(d)
  BY <1>1, PaymentUpdate DEF Open
<1>4. \A d \in OpenCycles' : d = c \/ d \in OpenCycles
  BY <1>3 DEF OpenCycles
<1>5. \A d \in OpenCycles : d # c /\ d[1] = c[1] => period \in replanned
  <2> SUFFICES ASSUME NEW d \in OpenCycles, d # c, d[1] = c[1] PROVE period \in replanned
    OBVIOUS
  <2>1. d[2] # nextPlan
    BY <1>2, CycleFacts DEF OpenCycles
  <2> QED
    BY <1>1, <1>2, <2>1 DEF PlanInv
<1>6. \A d \in OpenCycles' : /\ d[1] <= period
                             /\ d[1] = period => period \in replanned \/ d[2] = nextPlan
  BY <1>1, <1>2, <1>4 DEF PlanInv
<1>7. \A d, e \in OpenCycles' : d[1] = e[1] /\ d # e => d[1] \in replanned
  BY <1>1, <1>2, <1>4, <1>5 DEF PlanInv
<1> QED
  BY <1>1, <1>2, <1>6, <1>7 DEF PlanInv

\* A step of the job that writes the payment in its hand.
LEMMA JobWrites ==
    ASSUME RenewalInv, NEW c \in Cycles, NEW n \in Attempts, NEW x \in Payments,
           UNCHANGED <<subscription, card, auto, attempted, teacher>>,
           pay' = [pay EXCEPT ![c][n] = x],
           x.status \in {"pending", "paid"} => n \in Open(c) \/ Open(c) = {},
           Taken(x) => x.status \in {"pending", "paid"},
           ~x.id => x.bank = "none", x.status # "none",
           job' \in Jobs, job'.step # "idle" => job'.cycle = c /\ job'.attempt = n,
           job'.step = "recheck" => x.status = "pending" /\ x.bank = "none" /\ ~x.id,
           job'.step = "charge" => /\ x.status = "pending" /\ x.bank = "none" /\ x.id
                                   /\ ~job'.refused,
           job'.step = "settle" => x.bank = "charged",
           job'.step # "init",
           x.status \in {"pending", "paid"} =>
              n \in Open(c) \/ (c = Cycle /\ change # "prepaid")
    PROVE  RenewalInv'
<1>1. FlagsOK /\ DataOK /\ TypeOK /\ PayInv
  BY TypeHalves DEF RenewalInv
<1>2. FlagsOK'
  BY <1>1 DEF FlagsOK, subscription
<1>3. pay' \in [Cycles -> [Attempts -> Payments]] /\ pay'[c][n] = x
  BY <1>1, PaymentUpdate
<1>4. DataOK'
  BY <1>1, <1>3 DEF DataOK, subscription, teacher, Jobs
<1>5. PayInv'
  BY <1>1, PayInvKept
<1>6. HeldInv'
  BY <1>3 DEF HeldInv
<1>7. WishInv'
  BY WishKept
<1>8. PlanInv'
  <2>1. CASE x.status \in {"pending", "paid"} => n \in Open(c)
    <3>1. OpenCycles' \subseteq OpenCycles
      BY <1>1, <2>1, OpenKept
    <3> QED
      BY <3>1, PlanKept DEF RenewalInv, subscription, teacher
  <2>2. CASE c = Cycle /\ change # "prepaid"
    BY <1>1, <2>2, CycleOpened
  <2> QED
    BY <2>1, <2>2
<1> QED
  BY <1>2, <1>4, <1>5, <1>6, <1>7, <1>8, Assemble

LEMMA JobFacts ==
    ASSUME RenewalInv
    PROVE  /\ job \in Jobs /\ Idle \in Jobs /\ auto \in BOOLEAN /\ attempted \in Slots
           /\ job.step \in {"recheck", "init", "charge", "settle"} => job.cycle \in Cycles
           /\ card \in BOOLEAN
           /\ Proceeds => Cycle \in Cycles
           /\ job.attempt \in Attempts
           /\ \A step \in Steps : [job EXCEPT !.step = step] \in Jobs
<1>1. TypeOK /\ HeldInv
  BY DEF RenewalInv
<1>2. Idle \in Jobs
  BY AttemptFacts, CycleFacts DEF Jobs, Idle, Steps
<1>3. Proceeds => Cycle \in Cycles
  BY <1>1, CycleFacts DEF Proceeds, Renews, Cycle, Cycles, TypeOK
<1> QED
  BY <1>1, <1>2, <1>3 DEF TypeOK, HeldInv, Jobs

LEMMA JobLockInv == ASSUME RenewalInv, JobLock PROVE RenewalInv'
<1> DEFINE new == [Idle EXCEPT !.step = "prepare"]
<1>1. new \in Jobs /\ new.step = "prepare"
  BY JobFacts DEF Idle, Jobs, Steps
<1>2. job' = new /\ attempted' = slot /\ UNCHANGED <<subscription, auto, card, pay, teacher>>
  BY DEF JobLock
<1>3. slot \in Slots
  BY DEF RenewalInv, TypeOK
<1> HIDE DEF new
<1> QED
  BY <1>1, <1>2, <1>3, JobFacts, JobMoves

LEMMA JobStopsInv ==
    ASSUME RenewalInv, JobSkips \/ JobHasFailed \/ JobGivesUp PROVE RenewalInv'
<1>1. CASE JobSkips
  BY <1>1, JobFacts, JobMoves DEF JobSkips, Idle
<1>2. CASE JobHasFailed
  <2>1. job' = [job EXCEPT !.step = "giveup"] /\ job.step = "prepare"
    BY <1>2 DEF JobHasFailed, Go, Proceeds
  <2>2. job' \in Jobs /\ job'.step = "giveup"
    BY <2>1, JobFacts DEF Jobs, Steps
  <2> QED
    BY <1>2, <2>2, JobFacts, JobMoves DEF JobHasFailed
<1>3. CASE JobGivesUp
  BY <1>3, JobFacts, JobMoves DEF JobGivesUp, Idle
<1> QED
  BY <1>1, <1>2, <1>3

LEMMA JobCreatesInv == ASSUME RenewalInv, JobCreates PROVE RenewalInv'
<1> DEFINE c == Cycle
           n == FailedIn(c) + 1
           x == [pay[c][n] EXCEPT !.status = "pending"]
           new == [job EXCEPT !.step = "recheck", !.cycle = c, !.attempt = n]
<1>1. c \in Cycles /\ n \in Attempts /\ change # "prepaid" /\ c \in Nat \X Plans
  <2>1. c \in Cycles /\ FailedIn(c) < MaxAttempts /\ change # "prepaid"
    BY JobFacts DEF JobCreates, Proceeds, Renews
  <2>2. FailedIn(c) \in Nat
    BY <2>1, FailedIsNat
  <2>3. n \in Attempts
    BY <2>1, <2>2, AttemptFacts
  <2>4. c \in Nat \X Plans
    BY <2>1, CycleFacts
  <2> QED
    BY <2>1, <2>3, <2>4
<1>2. pay[c][n] \in Payments /\ PayInv /\ job \in Jobs
  BY <1>1, JobFacts DEF RenewalInv, TypeOK
<1>3. CASE pay[c][n].status = "none"
  <2>1. pay' = [pay EXCEPT ![c][n] = x] /\ job' = new
    BY <1>3 DEF JobCreates
  <2>2. new \in Jobs /\ new.step = "recheck" /\ new.cycle = c /\ new.attempt = n
    BY <1>1, <1>2 DEF Jobs, Steps
  <2>3. n \notin Open(c) /\ Open(c) = {}
    BY DEF JobCreates
  <2>4. ~Taken(pay[c][n])
    BY <1>1, <1>2, <2>3 DEF PayInv
  <2>5. /\ x \in Payments /\ x.status = "pending"
        /\ x.id = pay[c][n].id /\ x.bank = pay[c][n].bank
    BY <1>2 DEF Payments, Statuses
  <2>6. x.bank = "none" /\ ~x.id
    BY <1>1, <1>2, <1>3, <2>5 DEF PayInv
  <2>7. UNCHANGED <<subscription, card, auto, attempted, teacher>>
    BY DEF JobCreates
  <2>8. c = Cycle
    OBVIOUS
  <2> HIDE DEF x, new, c, n
  <2> QED
    BY <1>1, <2>1, <2>2, <2>3, <2>5, <2>6, <2>7, <2>8, JobWrites DEF Taken
<1>4. CASE pay[c][n].status # "none"
  <2>1. /\ job' = Idle /\ job'.step = "idle"
        /\ UNCHANGED <<pay, subscription, auto, card, attempted, teacher>>
    BY <1>4 DEF JobCreates, Idle
  <2> QED
    BY <2>1, JobFacts, JobMoves
<1> QED
  BY <1>3, <1>4

LEMMA JobResumesInv == ASSUME RenewalInv, JobResumes PROVE RenewalInv'
<1> DEFINE c == Cycle
<1>1. c \in Cycles /\ job \in Jobs /\ Idle \in Jobs /\ job.step = "prepare"
  BY JobFacts DEF JobResumes, Proceeds
<1>2. PICK n \in Open(c) :
         \/ pay[c][n].bank = "charged" /\ SettlePaid(c, n) /\ job' = Idle
         \/ pay[c][n].bank = "rejected" /\ SettleFailed(c, n) /\ Go("giveup")
         \/ job' = Idle /\ UNCHANGED <<subscription, auto, card, attempted, pay>>
  BY DEF JobResumes
<1>3. n \in Attempts /\ UNCHANGED teacher
  BY DEF Open, JobResumes
<1>4. CASE pay[c][n].bank = "charged" /\ SettlePaid(c, n) /\ job' = Idle
  <2>1. FlagsOK' /\ DataOK' /\ PayInv' /\ PlanInv' /\ (auto' => auto)
    BY <1>1, <1>3, <1>4, PaidStep
  <2>2. HeldInv' /\ job'.step = "idle"
    BY <1>4 DEF HeldInv, Idle
  <2> QED
    BY <1>3, <2>1, <2>2, WishKept, Assemble
<1>5. CASE pay[c][n].bank = "rejected" /\ SettleFailed(c, n) /\ Go("giveup")
  <2>1. job' \in Jobs /\ job'.step = "giveup"
    BY <1>1, <1>5 DEF Go, Jobs, Steps
  <2>2. FlagsOK' /\ DataOK' /\ PayInv' /\ PlanInv' /\ (auto' => auto)
    BY <1>1, <1>3, <1>5, <2>1, FailedStep
  <2>3. HeldInv'
    BY <1>1, <2>1 DEF HeldInv
  <2> QED
    BY <1>3, <2>1, <2>2, <2>3, WishKept, Assemble
<1>6. CASE job' = Idle /\ UNCHANGED <<subscription, auto, card, attempted, pay>>
  BY <1>3, <1>6, JobFacts, JobMoves DEF Idle
<1> QED
  BY <1>2, <1>4, <1>5, <1>6

LEMMA JobRechecksInv == ASSUME RenewalInv, JobRechecks PROVE RenewalInv'
<1> DEFINE c == job.cycle
           n == job.attempt
           x == [pay[c][n] EXCEPT !.status = "cancelled"]
<1>1. /\ c \in Cycles /\ n \in Attempts /\ job \in Jobs /\ job.step = "recheck"
      /\ pay[c][n] \in Payments /\ pay[c][n].bank = "none"
      /\ UNCHANGED <<subscription, auto, card, attempted, teacher>>
  BY JobFacts DEF JobRechecks, RenewalInv, HeldInv, TypeOK
<1>2. FlagsOK /\ DataOK /\ TypeOK /\ PayInv /\ HeldInv /\ WishInv
  BY TypeHalves DEF RenewalInv
<1>3. CASE auto
  <2> DEFINE b == wish = "off" /\ request = "none"
  <2>1. ~b
    BY <1>2, <1>3 DEF WishInv
  <2>2. job' = [job EXCEPT !.step = "init", !.refused = b] /\ UNCHANGED pay
    BY <1>3 DEF JobRechecks
  <2>3. b = FALSE
    BY <2>1, Zenon
  <2> HIDE DEF b
  <2>4. job' = [job EXCEPT !.step = "init", !.refused = FALSE]
    BY <2>2, <2>3
  <2>5. job' \in Jobs /\ job'.step = "init" /\ job'.cycle = c /\ job'.attempt = n /\ ~job'.refused
    BY <1>1, <2>4 DEF Jobs, Steps
  <2>6. HeldInv'
    BY <1>1, <1>2, <2>2, <2>5 DEF HeldInv
  <2>7. PayInv'
    BY <1>2, <2>2 DEF PayInv, Open, Taken
  <2>11. PlanInv'
    <3>1. OpenCycles' = OpenCycles
      BY <2>2 DEF OpenCycles, Open
    <3> QED
      BY <1>1, <3>1, PlanKept DEF RenewalInv, subscription, teacher
  <2>8. WishInv'
    BY <1>1, <2>5, WishKept
  <2>9. FlagsOK'
    BY <1>1, <1>2 DEF FlagsOK, subscription
  <2>10. DataOK'
    BY <1>1, <1>2, <2>2, <2>5 DEF DataOK, subscription, teacher, Jobs
  <2> QED
    BY <2>6, <2>7, <2>8, <2>9, <2>10, <2>11, Assemble
<1>4. CASE ~auto
  <2>3. pay' = [pay EXCEPT ![c][n].status = "cancelled"] /\ job' = Idle
    BY <1>4, Zenon DEF JobRechecks
  <2>4. Idle \in Jobs /\ Idle.step = "idle"
    BY JobFacts DEF Idle
  <2>5. pay' = [pay EXCEPT ![c][n] = x]
    BY <2>3
  <2>1. pay' = [pay EXCEPT ![c][n] = x] /\ job' = Idle /\ job'.step = "idle" /\ job' \in Jobs
    BY <2>3, <2>4, <2>5
  <2>2. x \in Payments /\ x.status = "cancelled" /\ x.bank = "none"
    BY <1>1 DEF Payments, Statuses
  <2> HIDE DEF x, c, n
  <2> QED
    BY <1>1, <2>1, <2>2, JobWrites DEF Taken
<1> QED
  BY <1>3, <1>4

LEMMA JobInitInv == ASSUME RenewalInv, JobInit PROVE RenewalInv'
<1> DEFINE c == job.cycle
           n == job.attempt
           x == [pay[c][n] EXCEPT !.id = TRUE]
<1>1. /\ c \in Cycles /\ n \in Attempts /\ job \in Jobs /\ job.step = "init" /\ ~job.refused
      /\ pay[c][n] \in Payments /\ pay[c][n].status = "pending" /\ pay[c][n].bank = "none"
      /\ UNCHANGED <<subscription, auto, card, attempted, teacher>>
  BY JobFacts DEF JobInit, RenewalInv, HeldInv, TypeOK, WishInv
<1>2. CASE pay' = [pay EXCEPT ![c][n].id = TRUE] /\ Go("charge")
  <2>1. pay' = [pay EXCEPT ![c][n] = x]
    BY <1>2
  <2>2. x \in Payments /\ x.status = "pending" /\ x.bank = "none" /\ x.id
    BY <1>1 DEF Payments
  <2>3. /\ job' \in Jobs /\ job'.step = "charge" /\ job'.cycle = c /\ job'.attempt = n
        /\ ~job'.refused
    BY <1>1, <1>2 DEF Go, Jobs, Steps
  <2>4. n \in Open(c)
    BY <1>1 DEF Open
  <2> HIDE DEF x, c, n
  <2> QED
    BY <1>1, <2>1, <2>2, <2>3, <2>4, JobWrites DEF Taken
<1>3. CASE job' = Idle /\ UNCHANGED pay
  BY <1>1, <1>3, JobFacts, JobMoves DEF Idle
<1> QED
  BY <1>2, <1>3 DEF JobInit

LEMMA JobChargeInv == ASSUME RenewalInv, JobCharge PROVE RenewalInv'
<1> DEFINE c == job.cycle
           n == job.attempt
<1>1. /\ c \in Cycles /\ n \in Attempts /\ job \in Jobs /\ job.step = "charge"
      /\ pay[c][n] \in Payments /\ pay[c][n].status = "pending" /\ pay[c][n].id
      /\ UNCHANGED <<subscription, auto, card, attempted, teacher>>
  BY JobFacts DEF JobCharge, RenewalInv, HeldInv, TypeOK
<1>2. PICK bank \in Answers, answered \in BOOLEAN :
         LET known == IF answered /\ bank = "rejected" THEN "failed" ELSE "pending"
         IN  /\ pay' = [pay EXCEPT ![c][n].bank = bank, ![c][n].status = known]
             /\ job' = IF answered /\ bank = "charged"
                       THEN [job EXCEPT !.step = "settle"]
                       ELSE IF known = "failed" /\ FailedIn(c) + 1 >= MaxAttempts
                       THEN [job EXCEPT !.step = "giveup"] ELSE Idle
  BY DEF JobCharge
<1> DEFINE known == IF answered /\ bank = "rejected" THEN "failed" ELSE "pending"
           x == [pay[c][n] EXCEPT !.bank = bank, !.status = known]
<1>3. pay' = [pay EXCEPT ![c][n] = x]
  <2>1. pay' = [pay EXCEPT ![c][n].bank = bank, ![c][n].status = known]
    BY <1>2
  <2>2. pay \in [Cycles -> [Attempts -> Payments]]
    BY DEF RenewalInv, TypeOK
  <2> HIDE DEF known
  <2> QED
    BY <1>1, <2>1, <2>2
<1>4. /\ x \in Payments /\ x.status = known /\ x.bank = bank /\ x.id
      /\ Taken(x) => x.status = "pending"
  BY <1>1 DEF Payments, Statuses, Answers, Taken
<1>5. n \in Open(c)
  BY <1>1 DEF Open
<1>6. /\ job' \in Jobs /\ job'.step \in {"settle", "giveup", "idle"}
      /\ job'.step # "idle" => job'.cycle = c /\ job'.attempt = n
      /\ job'.step = "settle" => x.bank = "charged"
  <2>1. CASE job' = [job EXCEPT !.step = "settle"] /\ bank = "charged"
    BY <1>1, <1>4, <2>1 DEF Jobs, Steps
  <2>2. CASE job' = [job EXCEPT !.step = "giveup"]
    BY <1>1, <2>2 DEF Jobs, Steps
  <2>3. CASE job' = Idle
    BY <2>3, JobFacts DEF Idle
  <2> QED
    BY <1>2, <2>1, <2>2, <2>3
<1>7. x.status # "none" /\ x.status \in {"failed", "pending"}
  BY <1>4
<1> HIDE DEF x, c, n, known
<1> QED
  BY <1>1, <1>3, <1>4, <1>5, <1>6, <1>7, JobWrites

LEMMA JobSettlesInv == ASSUME RenewalInv, JobSettles PROVE RenewalInv'
<1> DEFINE c == job.cycle
           n == job.attempt
<1>1. /\ c \in Cycles /\ n \in Attempts /\ job' = Idle /\ Idle \in Jobs /\ job'.step = "idle"
      /\ pay[c][n].bank = "charged" /\ UNCHANGED teacher
  BY JobFacts DEF JobSettles, RenewalInv, HeldInv, Idle
<1>2. CASE SettlePaid(c, n)
  <2>1. FlagsOK' /\ DataOK' /\ PayInv' /\ PlanInv' /\ (auto' => auto)
    BY <1>1, <1>2, PaidStep
  <2>2. HeldInv'
    BY <1>1 DEF HeldInv
  <2> QED
    BY <1>1, <2>1, <2>2, WishKept, Assemble
<1>3. CASE card' = TRUE /\ UNCHANGED <<subscription, attempted, auto, pay>>
  BY <1>1, <1>3, JobFacts, JobMoves
<1> QED
  BY <1>2, <1>3 DEF JobSettles

LEMMA NextInv == RenewalInv /\ [Next]_vars => RenewalInv'
<1> SUFFICES ASSUME RenewalInv, [Next]_vars PROVE RenewalInv'
  OBVIOUS
<1>1. CASE OpenCheckout \/ PayCheckout \/ SyncCheckout \/ NoticeCheckout
  BY <1>1, CheckoutInv
<1>2. CASE TurnOn \/ TurnOff \/ Unbind \/ AnswerOn \/ AnswerOff \/ SchedulePlan \/ KeepPlan
  BY <1>2, CabinetInv
<1>3. CASE Bank
  BY <1>3, BankInv DEF Bank
<1>4. CASE Job
  BY <1>4, JobLockInv, JobStopsInv, JobCreatesInv, JobResumesInv, JobRechecksInv,
     JobInitInv, JobChargeInv, JobSettlesInv DEF Job
<1>5. CASE Tick \/ Arrive \/ Expire
  BY <1>5, TimeInv
<1>6. CASE UNCHANGED vars
  BY <1>6 DEF vars, RenewalInv, TypeOK, HeldInv, PayInv, WishInv, PlanInv, OpenCycles, Open, Taken
<1> QED
  BY <1>1, <1>2, <1>3, <1>4, <1>5, <1>6 DEF Next

LEMMA InvHolds == Spec => []RenewalInv
BY InitInv, NextInv, PTL DEF Spec

--------------------------------------------------------------------------------
(* Theorems.                                                               *)

\* The types, for every number of periods and attempts.
THEOREM TypesHold == Spec => []TypeOK
<1>1. RenewalInv => TypeOK
  BY DEF RenewalInv
<1> QED
  BY InvHolds, <1>1, PTL

\* One period is charged once, whatever the next plan is called, unless the teacher
\* changed it too late; for every number of periods, plans and attempts.
THEOREM ChargedOnce == Spec => []OneChargePerPeriod
<1>1. RenewalInv => OneChargePerPeriod
  <2> SUFFICES ASSUME RenewalInv, NEW c \in Cycles, NEW d \in Cycles,
                      NEW m \in Attempts, NEW n \in Attempts,
                      c[1] = d[1], Taken(pay[c][m]), Taken(pay[d][n])
               PROVE  (c = d /\ m = n) \/ (c # d /\ c[1] \in replanned)
    BY DEF OneChargePerPeriod, Taken
  <2>1. m \in Open(c) /\ n \in Open(d)
    BY DEF RenewalInv, PayInv
  <2>2. c = d => m = n
    BY <2>1 DEF RenewalInv, PayInv
  <2>3. c \in OpenCycles /\ d \in OpenCycles
    BY <2>1 DEF OpenCycles
  <2> QED
    BY <2>2, <2>3 DEF RenewalInv, PlanInv
<1> QED
  BY InvHolds, <1>1, PTL

\* No charge is sent after a refusal that was answered before the last look.
THEOREM RefusedIsNotCharged == Spec => ChargeNeedsConsent
<1>1. RenewalInv /\ [Next]_vars => [job.step = "charge" /\ pay' # pay => ~job.refused]_vars
  BY DEF RenewalInv, WishInv
<1> QED
  BY InvHolds, <1>1, PTL DEF Spec, ChargeNeedsConsent

\* Only the teacher, or a consent that was not refused, turns renewal on.
THEOREM RefusalHolds == Spec => RefusalStands
<1>1. RenewalInv /\ [Next]_vars => [auto' /\ ~auto => wish' # "off" \/ request # "none"]_vars
  <2> SUFFICES ASSUME RenewalInv, [Next]_vars, auto', ~auto
               PROVE  wish' # "off" \/ request # "none"
    BY DEF vars
  <2>1. WishInv'
    BY NextInv DEF RenewalInv
  <2>2. CASE request' = "none"
    BY <2>1, <2>2 DEF WishInv
  <2>3. CASE TurnOn
    BY <2>3 DEF TurnOn
  <2>4. CASE request' = request
    BY <2>2, <2>4
  <2>5. CASE TurnOff \/ Unbind
    BY <2>5 DEF TurnOff, Unbind
  <2>6. CASE AnswerOn \/ AnswerOff
    BY <2>2, <2>6 DEF AnswerOn, AnswerOff
  <2>7. CASE OpenCheckout \/ PayCheckout \/ SyncCheckout \/ NoticeCheckout
    BY <2>4, <2>7 DEF OpenCheckout, PayCheckout, SyncCheckout, NoticeCheckout
  <2>8. CASE SchedulePlan \/ KeepPlan
    BY <2>4, <2>8 DEF SchedulePlan, KeepPlan, Replan
  <2>9. CASE Bank
    BY <2>4, <2>9 DEF Bank, Notify, BankDecides, ReconcileFails, teacher
  <2>10. CASE Job
    BY <2>4, <2>10 DEF Job, JobLock, JobSkips, JobCreates, JobHasFailed, JobResumes,
       JobRechecks, JobInit, JobCharge, JobSettles, JobGivesUp, teacher
  <2>11. CASE Arrive \/ Expire \/ Tick
    BY <2>4, <2>11 DEF Arrive, Expire, Tick, teacher
  <2>12. CASE UNCHANGED vars
    BY <2>4, <2>12 DEF vars
  <2> QED
    BY <2>3, <2>5, <2>6, <2>7, <2>8, <2>9, <2>10, <2>11, <2>12 DEF Next
<1> QED
  BY InvHolds, <1>1, PTL DEF Spec, RefusalStands
================================================================================
