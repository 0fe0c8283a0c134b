------------------------- MODULE CallFailover_proofs -------------------------
(***************************************************************************)
(* CallFailover for any users, modes and settings whose report window is   *)
(* shorter than the pause: type correctness, the inductive invariant       *)
(* CallInv, and the properties that follow from it.                        *)
(***************************************************************************)
EXTENDS CallFailover, TLAPS

(* What the two ways of moving the lesson write.                           *)

LEMMA AgedReports == TypeOK => ReportsAfterMove \in [Users -> Reports]
<1> SUFFICES ASSUME TypeOK PROVE ReportsAfterMove \in [Users -> Reports]
  OBVIOUS
<1>1. ASSUME NEW u \in Users
      PROVE (IF Recent(u) THEN [report[u] EXCEPT !.old = TRUE] ELSE NoReport) \in Reports
  <2>1. NoReport \in Reports
    BY SettingsAssumption DEF NoReport, Reports
  <2>2. [report[u] EXCEPT !.old = TRUE] \in Reports
    BY DEF Reports, TypeOK
  <2> QED
    BY <2>1, <2>2
<1> QED
  BY <1>1 DEF ReportsAfterMove

LEMMA MoveTypes ==
    ASSUME TypeOK, NEW p \in Providers, NEW why \in Reasons, NEW automatic \in BOOLEAN,
           MoveTo(p, why, automatic)
    PROVE  /\ route' \in Routes
           /\ report' \in [Users -> Reports]
           /\ route'.provider = p
           /\ route'.generation = route.generation + 1
           /\ route'.reason = why
           /\ route'.cooldown = Cooldown
           /\ route'.revoked = route.revoked
           /\ route'.autoSwitches = IF automatic THEN route.autoSwitches + 1
                                    ELSE route.autoSwitches
           /\ report' = ReportsAfterMove
<1>1. report' = ReportsAfterMove /\ route.generation < MaxGeneration
  BY DEF MoveTo
<1>2. report' \in [Users -> Reports]
  BY <1>1, AgedReports
<1>3. route \in Routes
  BY DEF TypeOK
<1>4. route.generation + 1 \in 0..MaxGeneration /\ Cooldown \in 0..Cooldown
  BY <1>1, <1>3, SettingsAssumption DEF Routes
<1>5. (IF automatic THEN route.autoSwitches + 1 ELSE route.autoSwitches) \in Nat
  BY <1>3 DEF Routes
<1> QED
  BY <1>1, <1>2, <1>3, <1>4, <1>5 DEF MoveTo, Routes

LEMMA ReleaseTypes ==
    ASSUME TypeOK, NEW u \in Users, ReleaseForced(u), ForcedLivekit(route)
    PROVE  /\ route' \in Routes
           /\ report' \in [Users -> Reports]
           /\ route'.provider = "primary"
           /\ route'.generation = route.generation + 1
           /\ route'.reason = "primary_restored"
           /\ route'.cooldown = route.cooldown
           /\ route'.revoked = route.revoked
           /\ route'.autoSwitches = route.autoSwitches
           /\ cause' = "restored"
           /\ report' = ReportsAfterMove
<1>1. /\ route.generation < MaxGeneration
      /\ route' = [route EXCEPT !.provider = "primary", !.generation = @ + 1,
                                !.reason = "primary_restored"]
      /\ report' = ReportsAfterMove
      /\ cause' = "restored"
  BY Zenon DEF ReleaseForced
<1>2. report' \in [Users -> Reports]
  BY <1>1, AgedReports
<1>3. route \in Routes
  BY DEF TypeOK
<1>4. route.generation + 1 \in 0..MaxGeneration
  BY <1>1, <1>3, SettingsAssumption DEF Routes
<1> QED
  BY <1>1, <1>2, <1>3, <1>4 DEF Routes, Providers, Reasons

\* After a move every report that still counts is as old as the move.
LEMMA ReportsAge ==
    ASSUME TypeOK, report' = ReportsAfterMove, NEW u \in Users, report'[u].old
    PROVE  report'[u].age <= Window /\ report'[u].age >= 0
<1>1. report[u] \in Reports
  BY DEF TypeOK
<1> QED
  BY <1>1, SettingsAssumption DEF ReportsAfterMove, NoReport, Recent, Reports

--------------------------------------------------------------------------------
(* Types                                                                   *)

LEMMA Nothing == NoReport \in Reports /\ NoJoin \in Joins /\ NoCommand \in Commands
  BY SettingsAssumption
  DEF NoReport, NoJoin, NoCommand, Reports, Joins, Commands, Providers

LEMMA InitTypes == Init => TypeOK
<1> SUFFICES ASSUME Init PROVE TypeOK
  OBVIOUS
<1>0. 0 \in 0..MaxGeneration /\ 0 \in 0..Cooldown
  BY SettingsAssumption
<1>1. route \in Routes /\ cause \in Causes
  BY <1>0 DEF Init, Routes, Providers, Reasons, Causes
<1>2. report \in [Users -> Reports]
  BY Nothing DEF Init
<1>3. [phase |-> "out", generation |-> 0, room |-> "primary"] \in Pages
  BY <1>0 DEF Pages, Providers
<1>4. caller \in [Users -> Pages] /\ join \in [Users -> Joins]
  BY <1>3, Nothing DEF Init
<1>5. command \in [Moderators -> Commands]
  BY Nothing DEF Init
<1> QED
  BY <1>1, <1>2, <1>4, <1>5 DEF Init, TypeOK

LEMMA AdmitType == mode \in Modes => \A u \in Users : Admit(u) \in Joins
  BY DEF Admit, Joins, Providers

LEMMA JoinAgainTypes ==
    ASSUME TypeOK, NEW u \in Users, NEW g \in 0..MaxGeneration, JoinAgain(u, g)
    PROVE  /\ caller' \in [Users -> Pages]
           /\ join' \in [Users -> Joins]
           /\ caller'[u].generation = g
           /\ \A v \in Users \ {u} : caller'[v] = caller[v] /\ join'[v] = join[v]
           /\ join'[u].at # "none" => caller'[u].phase = "joining"
<1>1. Admit(u) \in Joins /\ NoJoin \in Joins
  BY AdmitType, Nothing DEF TypeOK
<1>2. join' \in [Users -> Joins]
  BY <1>1 DEF JoinAgain, TypeOK
<1>3. caller' \in [Users -> Pages] /\ caller'[u].generation = g
  BY DEF JoinAgain, TypeOK, Pages
<1>4. \A v \in Users \ {u} : caller'[v] = caller[v] /\ join'[v] = join[v]
  BY DEF JoinAgain, TypeOK
<1>5. join'[u].at # "none" => caller'[u].phase = "joining"
  BY DEF JoinAgain, TypeOK, Pages, NoJoin
<1> QED
  BY <1>2, <1>3, <1>4, <1>5

LEMMA StepTypes == TypeOK /\ [Next]_vars => TypeOK'
<1> SUFFICES ASSUME TypeOK, [Next]_vars PROVE TypeOK'
  OBVIOUS
<1>1. ASSUME NEW u \in Users, AskJoin(u) PROVE TypeOK'
  <2>1. join' \in [Users -> Joins]
    BY <1>1, AdmitType DEF AskJoin, TypeOK
  <2>2. caller' \in [Users -> Pages]
    BY <1>1 DEF AskJoin, TypeOK, Pages
  <2> QED
    BY <1>1, <2>1, <2>2 DEF AskJoin, TypeOK
<1>2. ASSUME NEW u \in Users, ReadRoute(u) PROVE TypeOK'
  <2>1. EnsuredRoute(join[u].mode) \in Routes
    <3>1. route \in Routes /\ 1 \in 0..MaxGeneration
      BY SettingsAssumption DEF TypeOK
    <3>2. [route EXCEPT !.provider = IF join[u].mode = "livekit_only" THEN "livekit" ELSE "primary",
                        !.generation = 1] \in Routes
      BY <3>1 DEF Routes, Providers
    <3> QED
      BY <3>1, <3>2 DEF EnsuredRoute
  <2>2. EnsuredCause(join[u].mode) \in Causes
    BY DEF EnsuredCause, TypeOK, Causes
  <2>3. EnsuredRoute(join[u].mode).provider \in Providers
    BY <2>1 DEF Routes
  <2>4. join' \in [Users -> Joins]
    <3>1. PICK at \in {"releasing", "forcing", "issued"} :
            join' = [join EXCEPT ![u].at = at,
                                 ![u].provider = EnsuredRoute(join[u].mode).provider]
      BY <1>2 DEF ReadRoute
    <3> QED
      BY <2>3, <3>1 DEF TypeOK, Joins
  <2>5. route' \in Routes /\ cause' \in Causes
    BY <1>2, <2>1, <2>2 DEF ReadRoute
  <2> QED
    BY <1>2, <2>4, <2>5 DEF ReadRoute, TypeOK
<1>3. ASSUME NEW u \in Users, ReleaseForced(u) PROVE TypeOK'
  <2>1. route' \in Routes /\ report' \in [Users -> Reports] /\ cause' \in Causes
    <3>1. CASE ForcedLivekit(route)
      BY <1>3, <3>1, ReleaseTypes DEF Causes
    <3>2. CASE ~ForcedLivekit(route)
      BY <1>3, <3>2 DEF ReleaseForced, TypeOK
    <3> QED
      BY <3>1, <3>2
  <2>2. route'.provider \in Providers
    BY <2>1 DEF Routes
  <2>3. join' \in [Users -> Joins]
    BY <1>3, <2>2 DEF ReleaseForced, TypeOK, Joins
  <2> QED
    BY <1>3, <2>1, <2>3 DEF ReleaseForced, TypeOK
<1>4. ASSUME NEW u \in Users, ForceLivekit(u) PROVE TypeOK'
  <2>1. join' \in [Users -> Joins]
    <3>1. join' = [join EXCEPT ![u].at = "issued", ![u].provider = "livekit"]
      BY <1>4 DEF ForceLivekit
    <3> QED
      BY <3>1 DEF TypeOK, Joins, Providers
  <2>2. route' \in Routes /\ report' \in [Users -> Reports] /\ cause' \in Causes
    <3>1. CASE route.provider = "livekit"
      BY <1>4, <3>1 DEF ForceLivekit, TypeOK
    <3>2. CASE route.provider # "livekit"
      BY <1>4, <3>2, MoveTypes DEF ForceLivekit, Providers, Reasons, Causes
    <3> QED
      BY <3>1, <3>2
  <2> QED
    BY <1>4, <2>1, <2>2 DEF ForceLivekit, TypeOK
<1>5. ASSUME NEW u \in Users, Annotate(u) PROVE TypeOK'
  <2>1. join' \in [Users -> Joins]
    BY <1>5, Nothing DEF Annotate, TypeOK
  <2>2. route.generation \in 0..MaxGeneration /\ join[u].provider \in Providers
    BY DEF TypeOK, Routes, Joins
  <2>3. caller' \in [Users -> Pages]
    BY <1>5, <2>2 DEF Annotate, TypeOK, Pages
  <2> QED
    BY <1>5, <2>1, <2>3 DEF Annotate, TypeOK
<1>6. ASSUME NEW u \in Users, NEW g \in 1..MaxGeneration, Hear(u, g) PROVE TypeOK'
  <2>1. g \in 0..MaxGeneration
    BY SettingsAssumption
  <2>2. JoinAgain(u, g)
    BY <1>6 DEF Hear
  <2>3. caller' \in [Users -> Pages] /\ join' \in [Users -> Joins]
    BY <2>1, <2>2, JoinAgainTypes
  <2> QED
    BY <1>6, <2>3 DEF Hear, TypeOK
<1>7. ASSUME NEW u \in Users, Leave(u) PROVE TypeOK'
  <2>1. caller' \in [Users -> Pages]
    <3>1. 0 \in 0..MaxGeneration
      BY SettingsAssumption
    <3> QED
      BY <1>7, <3>1 DEF Leave, TypeOK, Pages
  <2>2. join' \in [Users -> Joins]
    BY <1>7, Nothing DEF Leave, TypeOK
  <2> QED
    BY <1>7, <2>1, <2>2 DEF Leave, TypeOK
<1>8. ASSUME NEW u \in Users, ReportFault(u) PROVE TypeOK'
  <2>1. report' \in [Users -> Reports]
    BY <1>8, SettingsAssumption DEF ReportFault, TypeOK, Reports
  <2> QED
    BY <1>8, <2>1 DEF ReportFault, TypeOK
<1>9. ASSUME NEW u \in Users, CheckFault(u) PROVE TypeOK'
  BY <1>9 DEF CheckFault, TypeOK
<1>10. ASSUME NEW u \in Users, OpenCircuit(u) PROVE TypeOK'
  <2>1. route' \in Routes
    BY <1>10, SettingsAssumption DEF OpenCircuit, TypeOK, Routes
  <2> QED
    BY <1>10, <2>1 DEF OpenCircuit, TypeOK
<1>11. ASSUME NEW u \in Users, SwitchAfterFault(u) PROVE TypeOK'
  <2>1. route' \in Routes /\ report' \in [Users -> Reports] /\ cause' \in Causes
    <3>1. CASE AutoSwitchAllowed(u, "auto")
      BY <1>11, <3>1, MoveTypes DEF SwitchAfterFault, Providers, Reasons, Causes
    <3>2. CASE ~AutoSwitchAllowed(u, "auto")
      BY <1>11, <3>2 DEF SwitchAfterFault, TypeOK
    <3> QED
      BY <3>1, <3>2
  <2> QED
    BY <1>11, <2>1 DEF SwitchAfterFault, TypeOK
<1>12. ASSUME NEW u \in Users, CrowdOut(u) PROVE TypeOK'
  BY <1>12, Nothing DEF CrowdOut, TypeOK
<1>13. ASSUME NEW u \in Moderators, NEW target \in Providers, AskSwitch(u, target) PROVE TypeOK'
  <2>1. caller[u].generation \in 0..MaxGeneration
    BY CallersAssumption DEF TypeOK, Pages
  <2>2. command' \in [Moderators -> Commands]
    BY <1>13, <2>1 DEF AskSwitch, TypeOK, Commands
  <2> QED
    BY <1>13, <2>2 DEF AskSwitch, TypeOK
<1>14. ASSUME NEW u \in Moderators, CommandSteps(u) PROVE TypeOK'
  <2>1. CASE SwitchAlreadyDone(u)
    <3>1. command' \in [Moderators -> Commands]
      BY <2>1 DEF SwitchAlreadyDone, TypeOK, Commands, Routes
    <3> QED
      BY <2>1, <3>1 DEF SwitchAlreadyDone, TypeOK
  <2>2. CASE SwitchByCommand(u)
    <3>1. command[u].target \in Providers
      BY DEF TypeOK, Commands
    <3>2. MoveTo(command[u].target, "admin_switch", FALSE) /\ cause' = "admin"
      BY <2>2 DEF SwitchByCommand
    <3>3. route' \in Routes /\ report' \in [Users -> Reports]
      BY <3>1, <3>2, MoveTypes DEF Reasons
    <3>4. route'.generation \in 0..MaxGeneration
      BY <3>3 DEF Routes
    <3>5. command' \in [Moderators -> Commands]
      BY <2>2, <3>4 DEF SwitchByCommand, TypeOK, Commands
    <3> QED
      BY <2>2, <3>2, <3>3, <3>5 DEF SwitchByCommand, TypeOK, Causes
  <2>3. CASE SwitchConflicts(u)
    BY <2>3, Nothing DEF SwitchConflicts, TypeOK
  <2>4. CASE TakeAnswer(u)
    <3>1. command[u].generation \in 0..MaxGeneration /\ u \in Users
      BY CallersAssumption DEF TypeOK, Commands
    <3>2. caller' \in [Users -> Pages] /\ join' \in [Users -> Joins]
      <4>1. CASE command[u].switched
        BY <2>4, <3>1, <4>1, JoinAgainTypes DEF TakeAnswer
      <4>2. CASE ~command[u].switched
        BY <2>4, <3>1, <4>2 DEF TakeAnswer, TypeOK, Pages
      <4> QED
        BY <4>1, <4>2
    <3> QED
      BY <2>4, <3>2, Nothing DEF TakeAnswer, TypeOK
  <2>5. CASE LoseAnswer(u)
    BY <2>5, Nothing DEF LoseAnswer, TypeOK
  <2> QED
    BY <1>14, <2>1, <2>2, <2>3, <2>4, <2>5 DEF CommandSteps
<1>15. ASSUME NEW u \in Removable, Disconnect(u) \/ RemoveFromSchedule(u) PROVE TypeOK'
  <2>1. u \in Users
    BY CallersAssumption
  <2>2. PICK why \in Reasons : Revoke(u, why)
    BY <1>15 DEF Disconnect, RemoveFromSchedule, TypeOK, Routes, Reasons
  <2>3. route' \in Routes
    BY <2>1, <2>2 DEF Revoke, TypeOK, Routes
  <2>4. caller' \in [Users -> Pages]
    BY <2>1, <2>2 DEF Revoke, TypeOK, Pages
  <2> QED
    BY <2>2, <2>3, <2>4 DEF Revoke, TypeOK
<1>16. ASSUME ChangeMode PROVE TypeOK'
  BY <1>16 DEF ChangeMode, TypeOK
<1>17. ASSUME Tick PROVE TypeOK'
  <2>1. route' \in Routes
    <3>1. route \in Routes
      BY DEF TypeOK
    <3>2. /\ (IF route.cooldown > 0 THEN route.cooldown - 1 ELSE 0) \in 0..Cooldown
          /\ (IF route.circuit > 0 THEN route.circuit - 1 ELSE 0) \in 0..Cooldown
      BY <3>1, SettingsAssumption DEF Routes
    <3> QED
      BY <1>17, <3>1, <3>2 DEF Tick, Routes
  <2>2. report' \in [Users -> Reports]
    BY <1>17, SettingsAssumption, Nothing DEF Tick, TypeOK, Reports
  <2> QED
    BY <1>17, <2>1, <2>2 DEF Tick, TypeOK
<1>18. ASSUME UNCHANGED vars PROVE TypeOK'
  BY <1>18 DEF vars, TypeOK
<1> QED
  BY <1>1, <1>2, <1>3, <1>4, <1>5, <1>6, <1>7, <1>8, <1>9, <1>10, <1>11, <1>12,
     <1>13, <1>14, <1>15, <1>16, <1>17, <1>18
  DEF Next, JoinSteps, FaultSteps

\* Every variable keeps its type, for any lesson, any modes and any bounds.
THEOREM TypeCorrect == Spec => []TypeOK
<1>1. Init => TypeOK
  BY InitTypes
<1>2. TypeOK /\ [Next]_vars => TypeOK'
  BY StepTypes
<1> QED
  BY <1>1, <1>2, PTL DEF Spec

--------------------------------------------------------------------------------
(* The row: every step keeps the place of the lesson, creates the row,     *)
(* moves the lesson to the other service or releases it.                   *)

Kept ==
    /\ route'.generation = route.generation
    /\ route'.provider = route.provider
    /\ route'.autoSwitches = route.autoSwitches
    /\ route'.reason \in {route.reason, "participant_removed"}
    /\ cause' = cause
    /\ \A u \in Users : report'[u].old =>
        /\ report[u].old
        /\ Recent(u) => report'[u].age <= Window
        /\ report'[u].age + route'.cooldown >= report[u].age + route.cooldown

Born ==
    /\ ~Created
    /\ route'.generation = 1
    /\ route'.autoSwitches = route.autoSwitches
    /\ route'.cooldown = route.cooldown
    /\ route'.provider = "livekit" => cause' = "mode"
    /\ cause' \in {"mode", "start"}
    /\ report' = report

Moved(p, why, automatic, by) ==
    /\ MoveTo(p, why, automatic)
    /\ p = Other(route.provider)
    /\ cause' = by

MovedByMode == Moved("livekit", "mode_livekit_only", FALSE, "mode")
MovedByOutage == Moved("livekit", "provider_outage", TRUE, "outage")
                     /\ route.autoSwitches < MaxAutoSwitches
MovedByAdmin == \E p \in Providers : Moved(p, "admin_switch", FALSE, "admin")

Released ==
    /\ ForcedLivekit(route)
    /\ \E u \in Users : ReleaseForced(u)

LEMMA RowSteps ==
    ASSUME TypeOK, [Next]_vars
    PROVE  Kept \/ Born \/ MovedByMode \/ MovedByOutage \/ MovedByAdmin \/ Released
<1> DEFINE Goal == Kept \/ Born \/ MovedByMode \/ MovedByOutage \/ MovedByAdmin \/ Released
<1>0. route.provider \in Providers
  BY DEF TypeOK, Routes
<1>1. ASSUME UNCHANGED <<route, report, cause>> PROVE Goal
  <2>1. \A u \in Users : report[u].age + route.cooldown >= report[u].age + route.cooldown
    BY SettingsAssumption DEF TypeOK, Reports, Routes
  <2> QED
    BY <1>1, <2>1 DEF Kept, Recent
<1>2. ASSUME NEW u \in Users, ReadRoute(u) PROVE Goal
  <2>1. CASE Created
    BY <1>1, <1>2, <2>1 DEF ReadRoute, EnsuredRoute, EnsuredCause
  <2>2. CASE ~Created
    <3>1. route' = [route EXCEPT
            !.provider = IF join[u].mode = "livekit_only" THEN "livekit" ELSE "primary",
            !.generation = 1]
      BY <1>2, <2>2 DEF ReadRoute, EnsuredRoute
    <3>2. cause' = (IF join[u].mode = "livekit_only" THEN "mode" ELSE "start")
      BY <1>2, <2>2 DEF ReadRoute, EnsuredCause
    <3>3. report' = report
      BY <1>2 DEF ReadRoute
    <3>4. Born
      BY <2>2, <3>1, <3>2, <3>3 DEF Born, TypeOK, Routes
    <3> QED
      BY <3>4
  <2> QED
    BY <2>1, <2>2
<1>3. ASSUME NEW u \in Users, ReleaseForced(u) PROVE Goal
  <2>1. CASE ForcedLivekit(route)
    BY <1>3, <2>1 DEF Released
  <2>2. CASE ~ForcedLivekit(route)
    BY <1>1, <1>3, <2>2 DEF ReleaseForced
  <2> QED
    BY <2>1, <2>2
<1>4. ASSUME NEW u \in Users, ForceLivekit(u) PROVE Goal
  <2>1. CASE route.provider = "livekit"
    BY <1>1, <1>4, <2>1 DEF ForceLivekit
  <2>2. CASE route.provider # "livekit"
    BY <1>0, <1>4, <2>2 DEF ForceLivekit, MovedByMode, Moved, Other, Providers
  <2> QED
    BY <2>1, <2>2
<1>5. ASSUME NEW u \in Users, ReportFault(u) PROVE Goal
  <2>1. \A v \in Users : report'[v].old => v # u /\ report'[v] = report[v]
    BY <1>5 DEF ReportFault, TypeOK
  <2>2. \A v \in Users : report[v].age + route.cooldown >= report[v].age + route.cooldown
    BY SettingsAssumption DEF TypeOK, Reports, Routes
  <2> QED
    BY <1>5, <2>1, <2>2 DEF ReportFault, Kept, Recent
<1>6. ASSUME NEW u \in Users, OpenCircuit(u) PROVE Goal
  <2>1. /\ route'.generation = route.generation /\ route'.provider = route.provider
        /\ route'.autoSwitches = route.autoSwitches /\ route'.reason = route.reason
        /\ route'.cooldown = route.cooldown
        /\ report' = report /\ cause' = cause
    BY <1>6 DEF OpenCircuit, TypeOK, Routes
  <2>2. \A v \in Users : report[v].age + route.cooldown >= report[v].age + route.cooldown
    BY SettingsAssumption DEF TypeOK, Reports, Routes
  <2> QED
    BY <2>1, <2>2 DEF Kept, Recent
<1>7. ASSUME NEW u \in Users, SwitchAfterFault(u) PROVE Goal
  <2>1. CASE AutoSwitchAllowed(u, "auto")
    <3>1. route.provider # "livekit" /\ route.autoSwitches < MaxAutoSwitches
      BY <2>1 DEF AutoSwitchAllowed
    <3> QED
      BY <1>0, <1>7, <2>1, <3>1
      DEF SwitchAfterFault, MovedByOutage, Moved, Other, Providers
  <2>2. CASE ~AutoSwitchAllowed(u, "auto")
    BY <1>1, <1>7, <2>2 DEF SwitchAfterFault
  <2> QED
    BY <2>1, <2>2
<1>8. ASSUME NEW u \in Users, CrowdOut(u) PROVE Goal
  <2>1. \A v \in Users : report'[v].old => v # u /\ report'[v] = report[v]
    BY <1>8 DEF CrowdOut, TypeOK, NoReport
  <2>2. \A v \in Users : report[v].age + route.cooldown >= report[v].age + route.cooldown
    BY SettingsAssumption DEF TypeOK, Reports, Routes
  <2> QED
    BY <1>8, <2>1, <2>2 DEF CrowdOut, Kept, Recent
<1>9. ASSUME NEW u \in Moderators, SwitchByCommand(u) PROVE Goal
  <2>1. command[u].target \in Providers
    BY DEF TypeOK, Commands
  <2>2. /\ route.provider # command[u].target
        /\ MoveTo(command[u].target, "admin_switch", FALSE)
        /\ cause' = "admin"
    BY <1>9 DEF SwitchByCommand
  <2>3. command[u].target = Other(route.provider)
    BY <1>0, <2>1, <2>2 DEF Other, Providers
  <2>4. MovedByAdmin
    BY <2>1, <2>2, <2>3 DEF MovedByAdmin, Moved
  <2> QED
    BY <2>4
<1>10. ASSUME NEW u \in Removable, Disconnect(u) \/ RemoveFromSchedule(u) PROVE Goal
  <2>1. PICK why \in {route.reason, "participant_removed"} : Revoke(u, why)
    BY <1>10 DEF Disconnect, RemoveFromSchedule
  <2>2. /\ route'.generation = route.generation /\ route'.provider = route.provider
        /\ route'.autoSwitches = route.autoSwitches /\ route'.reason = why
        /\ route'.cooldown = route.cooldown
        /\ report' = report /\ cause' = cause
    BY <2>1 DEF Revoke, TypeOK, Routes
  <2>3. \A v \in Users : report[v].age + route.cooldown >= report[v].age + route.cooldown
    BY SettingsAssumption DEF TypeOK, Reports, Routes
  <2> QED
    BY <2>1, <2>2, <2>3 DEF Kept, Recent
<1>11. ASSUME Tick PROVE Goal
  <2>1. /\ route'.generation = route.generation /\ route'.provider = route.provider
        /\ route'.autoSwitches = route.autoSwitches /\ route'.reason = route.reason
        /\ route'.cooldown = (IF route.cooldown > 0 THEN route.cooldown - 1 ELSE 0)
        /\ cause' = cause
    BY <1>11 DEF Tick, TypeOK, Routes
  <2>2. route.cooldown \in 0..Cooldown
    BY DEF TypeOK, Routes
  <2>3. ASSUME NEW v \in Users, report'[v].old
        PROVE  /\ report[v].old
               /\ report'[v].age <= Window
               /\ report'[v].age + route'.cooldown >= report[v].age + route.cooldown
    <3>1. report[v].age < Window /\ report'[v] = [report[v] EXCEPT !.age = @ + 1]
      BY <1>11, <2>3 DEF Tick, NoReport
    <3>2. report[v] \in Reports
      BY DEF TypeOK
    <3>3. report'[v].age = report[v].age + 1 /\ report'[v].old = report[v].old
      BY <3>1, <3>2 DEF Reports
    <3>4. report[v].age \in 0..Window + 1
      BY <3>2 DEF Reports
    <3> QED
      BY <2>1, <2>2, <2>3, <3>1, <3>3, <3>4, SettingsAssumption
  <2> QED
    BY <2>1, <2>3 DEF Kept
<1>12. ASSUME NEW u \in Users, AskJoin(u) \/ Annotate(u) \/ Leave(u) \/ CheckFault(u)
       PROVE Goal
  BY <1>1, <1>12 DEF AskJoin, Annotate, Leave, CheckFault
<1>13. ASSUME NEW u \in Users, NEW g \in 1..MaxGeneration, Hear(u, g) PROVE Goal
  BY <1>1, <1>13 DEF Hear
<1>14. ASSUME NEW u \in Moderators, NEW target \in Providers, AskSwitch(u, target) PROVE Goal
  BY <1>1, <1>14 DEF AskSwitch
<1>15. ASSUME NEW u \in Moderators,
              SwitchAlreadyDone(u) \/ SwitchConflicts(u) \/ TakeAnswer(u) \/ LoseAnswer(u)
       PROVE Goal
  BY <1>1, <1>15 DEF SwitchAlreadyDone, SwitchConflicts, TakeAnswer, LoseAnswer
<1>16. ASSUME ChangeMode \/ UNCHANGED vars PROVE Goal
  BY <1>1, <1>16 DEF ChangeMode, vars
<1> QED
  BY <1>2, <1>3, <1>4, <1>5, <1>6, <1>7, <1>8, <1>9, <1>10, <1>11, <1>12, <1>13,
     <1>14, <1>15, <1>16
  DEF Next, JoinSteps, FaultSteps, CommandSteps

LEMMA MovedWrites ==
    ASSUME TypeOK, MovedByMode \/ MovedByOutage \/ MovedByAdmin
    PROVE  /\ route'.generation = route.generation + 1
           /\ route'.provider = Other(route.provider)
<1>1. CASE MovedByMode
  BY <1>1, MoveTypes DEF MovedByMode, Moved, Providers, Reasons
<1>2. CASE MovedByOutage
  BY <1>2, MoveTypes DEF MovedByOutage, Moved, Providers, Reasons
<1>3. CASE MovedByAdmin
  BY <1>3, MoveTypes DEF MovedByAdmin, Moved, Reasons
<1> QED
  BY <1>1, <1>2, <1>3

LEMMA GenerationGrows ==
    ASSUME TypeOK, TypeOK', [Next]_vars
    PROVE  route'.generation >= route.generation
<1>1. route.generation \in Nat
  BY SettingsAssumption DEF TypeOK, Routes
<1>2. CASE Kept
  BY <1>1, <1>2 DEF Kept
<1>3. CASE Born
  BY <1>1, <1>3 DEF Born, Created
<1>4. CASE MovedByMode \/ MovedByOutage \/ MovedByAdmin
  BY <1>1, <1>4, MovedWrites
<1>5. CASE Released
  BY <1>1, <1>5, ReleaseTypes DEF Released
<1> QED
  BY <1>2, <1>3, <1>4, <1>5, RowSteps

\* The parts of CallInv that speak of the row alone.
RowInv == AutoSwitchBudget /\ ForcedByMode /\ HistoryNeedsRow /\ OldReportsAge

LEMMA StepRow ==
    ASSUME TypeOK, TypeOK', RowInv, [Next]_vars
    PROVE  RowInv'
<1>0. /\ route.generation \in Nat /\ route.autoSwitches \in Nat
      /\ route.provider \in Providers /\ route.cooldown \in 0..Cooldown
  BY SettingsAssumption DEF TypeOK, Routes
<1>1. CASE Kept
  <2>1. AutoSwitchBudget'
    BY <1>1 DEF Kept, RowInv, AutoSwitchBudget
  <2>2. ForcedByMode'
    BY <1>1 DEF Kept, RowInv, ForcedByMode, ForcedLivekit
  <2>3. HistoryNeedsRow'
    BY <1>1 DEF Kept, RowInv, HistoryNeedsRow, Created
  <2>4. ASSUME NEW u \in Users, report'[u].old
        PROVE  /\ report'[u].age <= Window
               /\ cause' # "restored" => report'[u].age + route'.cooldown >= Cooldown
    <3>1. report[u].old /\ Recent(u)
      BY <1>1, <2>4 DEF Kept, RowInv, OldReportsAge
    <3>2. /\ report'[u].age <= Window
          /\ report'[u].age + route'.cooldown >= report[u].age + route.cooldown
      BY <1>1, <2>4, <3>1 DEF Kept
    <3>3. cause' # "restored" => report[u].age + route.cooldown >= Cooldown
      BY <1>1, <3>1 DEF Kept, RowInv, OldReportsAge
    <3>4. /\ report[u].age \in Nat /\ report'[u].age \in Nat
          /\ route'.cooldown \in Nat
      BY SettingsAssumption DEF TypeOK, Reports, Routes
    <3> QED
      BY <1>0, <3>2, <3>3, <3>4, SettingsAssumption
  <2>5. OldReportsAge'
    BY <2>4 DEF OldReportsAge, Recent
  <2> QED
    BY <2>1, <2>2, <2>3, <2>5 DEF RowInv
<1>2. CASE Born
  <2>1. cause = "start"
    BY <1>2 DEF Born, RowInv, HistoryNeedsRow
  <2>2. AutoSwitchBudget' /\ ForcedByMode'
    BY <1>2 DEF Born, RowInv, AutoSwitchBudget, ForcedByMode, ForcedLivekit
  <2>3. HistoryNeedsRow'
    BY <1>2 DEF Born, HistoryNeedsRow, Created
  <2>4. OldReportsAge'
    BY <1>2, <2>1 DEF Born, RowInv, OldReportsAge, Recent
  <2> QED
    BY <2>2, <2>3, <2>4 DEF RowInv
<1>3. ASSUME report' = ReportsAfterMove, route'.cooldown = Cooldown \/ cause' = "restored"
      PROVE OldReportsAge'
  <2>1. ASSUME NEW u \in Users, report'[u].old
        PROVE  /\ report'[u].age <= Window
               /\ cause' # "restored" => report'[u].age + route'.cooldown >= Cooldown
    <3>1. report'[u].age <= Window /\ report'[u].age >= 0
      BY <1>3, <2>1, ReportsAge
    <3>2. report'[u].age \in Nat
      BY SettingsAssumption DEF TypeOK, Reports
    <3> QED
      BY <1>3, <3>1, <3>2, SettingsAssumption
  <2> QED
    BY <2>1 DEF OldReportsAge, Recent
<1>4. ASSUME NEW q \in Providers, NEW why \in Reasons, NEW automatic \in BOOLEAN, NEW by,
             Moved(q, why, automatic, by),
             why = "mode_livekit_only" => by = "mode",
             why # "",
             automatic => route.autoSwitches < MaxAutoSwitches
      PROVE RowInv'
  <2>1. MoveTo(q, why, automatic) /\ cause' = by
    BY <1>4 DEF Moved
  <2>2. /\ route'.generation = route.generation + 1
        /\ route'.reason = why
        /\ route'.cooldown = Cooldown
        /\ route'.autoSwitches = IF automatic THEN route.autoSwitches + 1
                                 ELSE route.autoSwitches
        /\ report' = ReportsAfterMove
    BY <2>1, MoveTypes
  <2>3. AutoSwitchBudget'
    <3>1. CASE automatic
      <4>1. route'.autoSwitches = route.autoSwitches + 1
        BY <2>2, <3>1
      <4>2. route.autoSwitches < MaxAutoSwitches
        BY <1>4, <3>1
      <4> QED
        BY <1>0, <4>1, <4>2, SettingsAssumption DEF AutoSwitchBudget
    <3>2. CASE ~automatic
      BY <2>2, <3>2 DEF RowInv, AutoSwitchBudget
    <3> QED
      BY <3>1, <3>2
  <2>4. ForcedByMode'
    BY <1>4, <2>1, <2>2 DEF ForcedByMode, ForcedLivekit
  <2>5. HistoryNeedsRow'
    BY <1>0, <2>2 DEF HistoryNeedsRow, Created
  <2> QED
    BY <1>3, <2>2, <2>3, <2>4, <2>5 DEF RowInv
<1>5. CASE MovedByMode
  BY <1>4, <1>5 DEF MovedByMode, Providers, Reasons
<1>6. CASE MovedByOutage
  BY <1>4, <1>6 DEF MovedByOutage, Providers, Reasons
<1>7. CASE MovedByAdmin
  BY <1>4, <1>7 DEF MovedByAdmin, Reasons
<1>8. CASE Released
  <2>1. /\ route'.provider = "primary" /\ route'.generation = route.generation + 1
        /\ route'.autoSwitches = route.autoSwitches
        /\ cause' = "restored" /\ report' = ReportsAfterMove
    BY <1>8, ReleaseTypes DEF Released
  <2>2. AutoSwitchBudget' /\ ForcedByMode'
    BY <2>1 DEF RowInv, AutoSwitchBudget, ForcedByMode, ForcedLivekit
  <2>3. HistoryNeedsRow'
    BY <1>0, <2>1 DEF HistoryNeedsRow, Created
  <2> QED
    BY <1>3, <2>1, <2>2, <2>3 DEF RowInv
<1> QED
  BY <1>1, <1>2, <1>5, <1>6, <1>7, <1>8, RowSteps

--------------------------------------------------------------------------------
(* The pages.                                                              *)

PageInv == CallersNeverAhead /\ PagesWait /\ CommandsInOrder

NoRollBack ==
    \A u \in Users : \/ caller'[u].generation >= caller[u].generation
                     \/ caller'[u].phase = "out" /\ caller'[u].generation = 0

LEMMA StepPages ==
    ASSUME TypeOK, TypeOK', PageInv, [Next]_vars
    PROVE  PageInv' /\ NoRollBack
<1> DEFINE Goal == PageInv' /\ NoRollBack
<1>0. /\ route.generation \in Nat /\ route'.generation \in Nat
      /\ route'.generation >= route.generation
      /\ \A u \in Users : caller[u].generation \in Nat
      /\ \A u \in Moderators : command[u].generation \in Nat
  BY GenerationGrows, SettingsAssumption DEF TypeOK, Routes, Pages, Commands
<1>1. ASSUME UNCHANGED <<caller, join, command>> PROVE Goal
  BY <1>0, <1>1 DEF PageInv, CallersNeverAhead, PagesWait, CommandsInOrder, NoRollBack
<1>2. ASSUME NEW u \in Users, AskJoin(u) PROVE Goal
  <2>1. /\ caller[u].phase = "out"
        /\ caller'[u].phase = "joining" /\ caller'[u].generation = caller[u].generation
        /\ \A v \in Users \ {u} : caller'[v] = caller[v] /\ join'[v] = join[v]
        /\ command' = command
    BY <1>2 DEF AskJoin, TypeOK, Pages
  <2> QED
    BY <1>0, <2>1, CallersAssumption
    DEF PageInv, CallersNeverAhead, PagesWait, CommandsInOrder, NoRollBack
<1>3. ASSUME NEW u \in Users, ReadRoute(u) \/ ReleaseForced(u) \/ ForceLivekit(u) PROVE Goal
  <2>1. /\ join[u].at # "none" /\ caller' = caller /\ command' = command
        /\ \A v \in Users \ {u} : join'[v] = join[v]
    BY <1>3 DEF ReadRoute, ReleaseForced, ForceLivekit, TypeOK
  <2> QED
    BY <1>0, <2>1 DEF PageInv, CallersNeverAhead, PagesWait, CommandsInOrder, NoRollBack
<1>4. ASSUME NEW u \in Users, Annotate(u) PROVE Goal
  <2>1. /\ caller[u].phase = "joining" /\ caller[u].generation <= route.generation
        /\ ~Commanding(u)
    BY <1>4, CallersAssumption
    DEF Annotate, PageInv, PagesWait, CallersNeverAhead, Commanding
  <2>2. /\ caller'[u].generation = route.generation
        /\ join'[u].at = "none"
        /\ \A v \in Users \ {u} : caller'[v] = caller[v] /\ join'[v] = join[v]
        /\ command' = command /\ route' = route
    BY <1>0, <1>4, <2>1 DEF Annotate, TypeOK, Pages, NoJoin
  <2> QED
    BY <1>0, <2>1, <2>2, CallersAssumption
    DEF PageInv, CallersNeverAhead, PagesWait, CommandsInOrder, NoRollBack, Commanding
<1>5. ASSUME NEW u \in Users, NEW g \in 1..MaxGeneration, Hear(u, g) PROVE Goal
  <2>1. /\ JoinAgain(u, g) /\ g \in 0..MaxGeneration
        /\ ~Commanding(u) /\ g > caller[u].generation /\ g <= route.generation
        /\ command' = command /\ route' = route
    BY <1>5, SettingsAssumption DEF Hear, AcceptGeneration
  <2>2. /\ caller'[u].generation = g
        /\ \A v \in Users \ {u} : caller'[v] = caller[v] /\ join'[v] = join[v]
        /\ join'[u].at # "none" => caller'[u].phase = "joining"
    BY <2>1, JoinAgainTypes
  <2> QED
    BY <1>0, <2>1, <2>2, CallersAssumption
    DEF PageInv, CallersNeverAhead, PagesWait, CommandsInOrder, NoRollBack, Commanding
<1>6. ASSUME NEW u \in Users, Leave(u) PROVE Goal
  <2>1. /\ ~Commanding(u)
        /\ caller'[u].phase = "out" /\ caller'[u].generation = 0
        /\ join'[u].at = "none"
        /\ \A v \in Users \ {u} : caller'[v] = caller[v] /\ join'[v] = join[v]
        /\ command' = command /\ route' = route
    BY <1>6 DEF Leave, TypeOK, Pages, NoJoin
  <2> QED
    BY <1>0, <2>1, CallersAssumption
    DEF PageInv, CallersNeverAhead, PagesWait, CommandsInOrder, NoRollBack, Commanding
<1>7. ASSUME NEW u \in Users,
             ReportFault(u) \/ CheckFault(u) \/ OpenCircuit(u) \/ SwitchAfterFault(u) \/ CrowdOut(u)
      PROVE Goal
  BY <1>1, <1>7 DEF ReportFault, CheckFault, OpenCircuit, SwitchAfterFault, CrowdOut
<1>8. ASSUME NEW u \in Moderators, NEW target \in Providers, AskSwitch(u, target) PROVE Goal
  <2>1. /\ caller[u].phase = "in"
        /\ command'[u].generation = caller[u].generation
        /\ \A v \in Moderators \ {u} : command'[v] = command[v]
        /\ caller' = caller /\ join' = join /\ route' = route
    BY <1>8 DEF AskSwitch, TypeOK
  <2> QED
    BY <1>0, <2>1, CallersAssumption
    DEF PageInv, CallersNeverAhead, PagesWait, CommandsInOrder, NoRollBack
<1>9. ASSUME NEW u \in Moderators, SwitchAlreadyDone(u) \/ SwitchByCommand(u) PROVE Goal
  <2>1. /\ command[u].at # "none"
        /\ caller[u].phase = "in"
        /\ caller[u].generation <= route.generation
    BY <1>9, CallersAssumption
    DEF SwitchAlreadyDone, SwitchByCommand, PageInv, PagesWait, CallersNeverAhead
  <2>2. /\ command'[u].generation = route'.generation
        /\ \A v \in Moderators \ {u} : command'[v] = command[v]
        /\ caller' = caller /\ join' = join
    <3>1. CASE SwitchAlreadyDone(u)
      BY <3>1 DEF SwitchAlreadyDone, TypeOK, Commands
    <3>2. CASE SwitchByCommand(u)
      BY <3>2 DEF SwitchByCommand, TypeOK, Commands
    <3> QED
      BY <1>9, <3>1, <3>2
  <2>3. CallersNeverAhead' /\ NoRollBack
    BY <1>0, <2>2 DEF PageInv, CallersNeverAhead, NoRollBack
  <2>4. PagesWait'
    BY <2>1, <2>2 DEF PageInv, PagesWait
  <2>5. CommandsInOrder'
    BY <1>0, <2>1, <2>2, CallersAssumption DEF PageInv, CommandsInOrder
  <2> QED
    BY <2>3, <2>4, <2>5 DEF PageInv
<1>10. ASSUME NEW u \in Moderators, SwitchConflicts(u) \/ LoseAnswer(u) PROVE Goal
  <2>1. /\ command'[u].at = "none" /\ command'[u].generation = 0
        /\ \A v \in Moderators \ {u} : command'[v] = command[v]
        /\ caller' = caller /\ join' = join /\ route' = route
    BY <1>10 DEF SwitchConflicts, LoseAnswer, TypeOK, NoCommand
  <2> QED
    BY <1>0, <2>1 DEF PageInv, CallersNeverAhead, PagesWait, CommandsInOrder, NoRollBack
<1>11. ASSUME NEW u \in Moderators, TakeAnswer(u) PROVE Goal
  <2>1. /\ u \in Users
        /\ command[u].generation \in 0..MaxGeneration
        /\ command[u].generation <= route.generation
        /\ caller[u].generation <= command[u].generation
        /\ caller[u].phase = "in" /\ join[u].at = "none"
    BY <1>11, CallersAssumption
    DEF TakeAnswer, TypeOK, Commands, PageInv, CommandsInOrder, PagesWait
  <2>2. /\ command'[u].at = "none" /\ command'[u].generation = 0
        /\ \A v \in Moderators \ {u} : command'[v] = command[v]
        /\ route' = route
    BY <1>11 DEF TakeAnswer, TypeOK, NoCommand
  <2>3. /\ caller'[u].generation = command[u].generation
        /\ \A v \in Users \ {u} : caller'[v] = caller[v] /\ join'[v] = join[v]
        /\ join'[u].at # "none" => caller'[u].phase = "joining"
    <3>1. CASE command[u].switched
      BY <1>11, <2>1, <3>1, JoinAgainTypes DEF TakeAnswer
    <3>2. CASE ~command[u].switched
      BY <1>11, <2>1, <3>2 DEF TakeAnswer, TypeOK, Pages
    <3> QED
      BY <3>1, <3>2
  <2> QED
    BY <1>0, <2>1, <2>2, <2>3, CallersAssumption
    DEF PageInv, CallersNeverAhead, PagesWait, CommandsInOrder, NoRollBack
<1>12. ASSUME NEW u \in Removable, Disconnect(u) \/ RemoveFromSchedule(u) PROVE Goal
  <2>1. PICK why : Revoke(u, why)
    BY <1>12 DEF Disconnect, RemoveFromSchedule
  <2>2. /\ join' = join /\ command' = command
        /\ u \in Users \ Moderators
        /\ \A v \in Users : caller'[v].generation = caller[v].generation
        /\ \A v \in Users \ {u} : caller'[v] = caller[v]
        /\ caller'[u] # caller[u] => caller[u].phase = "in"
    BY <2>1, CallersAssumption DEF Revoke, TypeOK, Pages
  <2> QED
    BY <1>0, <2>2, CallersAssumption
    DEF PageInv, CallersNeverAhead, PagesWait, CommandsInOrder, NoRollBack
<1>13. ASSUME ChangeMode \/ Tick \/ UNCHANGED vars PROVE Goal
  BY <1>1, <1>13 DEF ChangeMode, Tick, vars
<1> QED
  BY <1>2, <1>3, <1>4, <1>5, <1>6, <1>7, <1>8, <1>9, <1>10, <1>11, <1>12, <1>13
  DEF Next, JoinSteps, FaultSteps, CommandSteps

--------------------------------------------------------------------------------
(* The theorems.                                                           *)

LEMMA InitInv == Init => RowInv /\ PageInv
<1> SUFFICES ASSUME Init PROVE RowInv /\ PageInv
  OBVIOUS
<1>0. /\ route.autoSwitches = 0 /\ route.generation = 0
      /\ \A u \in Users : caller[u].generation = 0
      /\ \A u \in Moderators : command[u].generation = 0 /\ command[u].at = "none"
  BY DEF Init, NoCommand
<1>1. AutoSwitchBudget
  BY <1>0, SettingsAssumption DEF AutoSwitchBudget
<1>2. ForcedByMode /\ HistoryNeedsRow
  BY DEF Init, ForcedByMode, ForcedLivekit, HistoryNeedsRow
<1>3. OldReportsAge
  BY DEF Init, OldReportsAge, NoReport
<1>4. CallersNeverAhead
  BY <1>0 DEF CallersNeverAhead
<1>5. PagesWait
  BY DEF Init, PagesWait, NoJoin, NoCommand
<1>6. CommandsInOrder
  BY <1>0 DEF CommandsInOrder
<1> QED
  BY <1>1, <1>2, <1>3, <1>4, <1>5, <1>6 DEF RowInv, PageInv

LEMMA InvariantHolds == Spec => [](TypeOK /\ RowInv /\ PageInv)
<1>1. Init => TypeOK /\ RowInv /\ PageInv
  BY InitTypes, InitInv
<1>2. TypeOK /\ RowInv /\ PageInv /\ [Next]_vars => (TypeOK /\ RowInv /\ PageInv)'
  BY StepTypes, StepRow, StepPages
<1> QED
  BY <1>1, <1>2, PTL DEF Spec

\* CallInv, the invariant the module states, is inductive.
THEOREM CallInvHolds == Spec => []CallInv
<1>1. TypeOK /\ RowInv /\ PageInv => CallInv
  BY DEF CallInv, RowInv, PageInv
<1> QED
  BY <1>1, InvariantHolds, PTL

\* Reports that race for the automatic switch never exceed its budget.
THEOREM AutoSwitchBudgetHolds == Spec => []AutoSwitchBudget
<1>1. CallInv => AutoSwitchBudget
  BY DEF CallInv
<1> QED
  BY <1>1, CallInvHolds, PTL

\* Old reports no longer count when the pause is over: they have aged past the
\* window, which is shorter than the pause.
THEOREM EvidenceIsFreshHolds == Spec => []EvidenceIsFresh
<1>1. CallInv => EvidenceIsFresh
  <2> SUFFICES ASSUME CallInv, route.cooldown = 0, cause # "restored",
                      NEW u \in Users, report[u].old
               PROVE FALSE
    BY DEF EvidenceIsFresh
  <2>1. report[u].age <= Window /\ report[u].age + 0 >= Cooldown
    BY DEF CallInv, OldReportsAge, Recent
  <2>2. report[u].age \in Nat
    BY SettingsAssumption DEF CallInv, TypeOK, Reports
  <2> QED
    BY <2>1, <2>2, SettingsAssumption
<1> QED
  BY <1>1, CallInvHolds, PTL

\* No page is ahead of the lesson.
THEOREM CallersNeverAheadHolds == Spec => []CallersNeverAhead
<1>1. CallInv => CallersNeverAhead
  BY DEF CallInv
<1> QED
  BY <1>1, CallInvHolds, PTL

\* Overlapping requests move the lesson once per generation.
THEOREM OneMovePerGenerationHolds == Spec => OneMovePerGeneration
<1>1. TypeOK /\ [Next]_vars =>
        [Created =>
            \/ /\ route'.generation = route.generation
               /\ route'.provider = route.provider
            \/ /\ route'.generation = route.generation + 1
               /\ route'.provider = Other(route.provider)]_vars
  <2> SUFFICES ASSUME TypeOK, [Next]_vars, Created
               PROVE  \/ /\ route'.generation = route.generation
                         /\ route'.provider = route.provider
                      \/ /\ route'.generation = route.generation + 1
                         /\ route'.provider = Other(route.provider)
    OBVIOUS
  <2>1. CASE Kept
    BY <2>1 DEF Kept
  <2>2. CASE Born
    BY <2>2 DEF Born
  <2>3. CASE MovedByMode \/ MovedByOutage \/ MovedByAdmin
    BY <2>3, MovedWrites
  <2>4. CASE Released
    BY <2>4, ReleaseTypes DEF Released, ForcedLivekit, Other
  <2> QED
    BY <2>1, <2>2, <2>3, <2>4, RowSteps
<1> QED
  BY <1>1, TypeCorrect, PTL DEF Spec, OneMovePerGeneration

\* Only a moderator, or the end of the mode that forced it, brings a lesson back.
THEOREM NoAutomaticReturnHolds == Spec => NoAutomaticReturn
<1>1. TypeOK /\ RowInv /\ PageInv /\ [Next]_vars =>
        [route.provider = "livekit" /\ route'.provider = "primary" =>
            \/ cause' = "admin"
            \/ cause = "mode" /\ cause' = "restored"]_vars
  <2> SUFFICES ASSUME TypeOK, RowInv, [Next]_vars,
                      route.provider = "livekit", route'.provider = "primary"
               PROVE  cause' = "admin" \/ (cause = "mode" /\ cause' = "restored")
    OBVIOUS
  <2>1. CASE Kept
    BY <2>1 DEF Kept
  <2>2. CASE Born
    BY <2>2 DEF Born, RowInv, HistoryNeedsRow
  <2>3. CASE MovedByMode \/ MovedByOutage
    BY <2>3 DEF MovedByMode, MovedByOutage, Moved, Other
  <2>4. CASE MovedByAdmin
    BY <2>4 DEF MovedByAdmin, Moved
  <2>5. CASE Released
    BY <2>5, ReleaseTypes DEF Released, RowInv, ForcedByMode
  <2> QED
    BY <2>1, <2>2, <2>3, <2>4, <2>5, RowSteps
<1> QED
  BY <1>1, InvariantHolds, PTL DEF Spec, NoAutomaticReturn

\* Late news and late answers do not roll a page back.
THEOREM CallersNeverRollBackHolds == Spec => CallersNeverRollBack
<1>1. TypeOK /\ RowInv /\ PageInv /\ (TypeOK /\ RowInv /\ PageInv)' /\ [Next]_vars =>
        [\A u \in Users : \/ caller'[u].generation >= caller[u].generation
                          \/ caller'[u].phase = "out" /\ caller'[u].generation = 0]_vars
  BY StepPages DEF NoRollBack
<1> QED
  BY <1>1, InvariantHolds, PTL DEF Spec, CallersNeverRollBack

(* Participants who were taken off the lesson.                             *)

ListKept == route.revoked \subseteq route'.revoked

LEMMA MoveKeepsList ==
    ASSUME TypeOK, NEW p \in Providers, NEW why, NEW automatic, MoveTo(p, why, automatic)
    PROVE  ListKept
  BY DEF MoveTo, ListKept, TypeOK, Routes

LEMMA StepKeepsList == TypeOK /\ [Next]_vars => ListKept
<1> SUFFICES ASSUME TypeOK, [Next]_vars PROVE ListKept
  OBVIOUS
<1>0. "livekit" \in Providers /\ "primary" \in Providers
  BY DEF Providers
<1>1. ASSUME UNCHANGED route PROVE ListKept
  BY <1>1 DEF ListKept
<1>2. ASSUME NEW u \in Users, JoinSteps(u) PROVE ListKept
  <2>1. CASE ReadRoute(u)
    BY <2>1 DEF ReadRoute, EnsuredRoute, ListKept, TypeOK, Routes
  <2>2. CASE ReleaseForced(u)
    BY <2>2 DEF ReleaseForced, ListKept, TypeOK, Routes
  <2>3. CASE ForceLivekit(u)
    BY <1>0, <1>1, <2>3, MoveKeepsList DEF ForceLivekit
  <2>4. CASE Annotate(u)
    BY <1>1, <2>4 DEF Annotate
  <2> QED BY <1>2, <2>1, <2>2, <2>3, <2>4 DEF JoinSteps
<1>3. ASSUME NEW u \in Users,
             \/ AskJoin(u) \/ Leave(u) \/ ReportFault(u) \/ CrowdOut(u)
             \/ \E g \in 1..MaxGeneration : Hear(u, g)
      PROVE  ListKept
  BY <1>1, <1>3 DEF AskJoin, Leave, ReportFault, CrowdOut, Hear
<1>4. ASSUME NEW u \in Users, FaultSteps(u) PROVE ListKept
  <2>1. CASE CheckFault(u)
    BY <1>1, <2>1 DEF CheckFault
  <2>2. CASE OpenCircuit(u)
    BY <2>2 DEF OpenCircuit, ListKept, TypeOK, Routes
  <2>3. CASE SwitchAfterFault(u)
    BY <1>0, <1>1, <2>3, MoveKeepsList DEF SwitchAfterFault
  <2> QED BY <1>4, <2>1, <2>2, <2>3 DEF FaultSteps
<1>5. ASSUME NEW u \in Moderators, CommandSteps(u) PROVE ListKept
  <2>1. CASE SwitchByCommand(u)
    <3>1. command[u].target \in Providers
      BY DEF TypeOK, Commands
    <3> QED BY <2>1, <3>1, MoveKeepsList DEF SwitchByCommand
  <2>2. CASE SwitchAlreadyDone(u) \/ SwitchConflicts(u) \/ TakeAnswer(u) \/ LoseAnswer(u)
    BY <1>1, <2>2 DEF SwitchAlreadyDone, SwitchConflicts, TakeAnswer, LoseAnswer
  <2> QED BY <1>5, <2>1, <2>2 DEF CommandSteps
<1>6. ASSUME NEW u \in Moderators, NEW t \in Providers, AskSwitch(u, t) PROVE ListKept
  BY <1>1, <1>6 DEF AskSwitch
<1>7. ASSUME NEW u \in Removable, Disconnect(u) \/ RemoveFromSchedule(u) PROVE ListKept
  BY <1>7 DEF Disconnect, RemoveFromSchedule, Revoke, ListKept, TypeOK, Routes
<1>8. CASE ChangeMode
  BY <1>1, <1>8 DEF ChangeMode
<1>9. CASE Tick
  BY <1>9 DEF Tick, ListKept, TypeOK, Routes
<1>10. CASE UNCHANGED vars
  BY <1>1, <1>10 DEF vars
<1> QED BY <1>2, <1>3, <1>4, <1>5, <1>6, <1>7, <1>8, <1>9, <1>10 DEF Next

NoReturn == \A u \in route.revoked : caller[u].phase = "out" => caller'[u].phase = "out"

\* Every way into the call begins with a page that is not closed, or with a
\* request that looks at the list first.
LEMMA StepKeepsOut == TypeOK /\ PageInv /\ [Next]_vars => NoReturn
<1> SUFFICES ASSUME TypeOK, PageInv, [Next]_vars PROVE NoReturn
  OBVIOUS
<1> USE DEF NoReturn
<1>0. route.revoked \subseteq Users
  BY DEF TypeOK, Routes
<1>1. ASSUME UNCHANGED caller PROVE NoReturn
  BY <1>1
<1>2. ASSUME NEW u \in Users, NEW g, JoinAgain(u, g) PROVE NoReturn
  BY <1>0, <1>2 DEF JoinAgain, TypeOK
<1>3. ASSUME NEW u \in Users, JoinSteps(u) PROVE NoReturn
  <2>1. CASE Annotate(u)
    <3>1. caller[u].phase = "joining"
      BY <2>1 DEF Annotate, PageInv, PagesWait
    <3> QED BY <1>0, <2>1, <3>1 DEF Annotate, TypeOK
  <2>2. CASE ReadRoute(u) \/ ReleaseForced(u) \/ ForceLivekit(u)
    BY <1>1, <2>2 DEF ReadRoute, ReleaseForced, ForceLivekit
  <2> QED BY <1>3, <2>1, <2>2 DEF JoinSteps
<1>4. ASSUME NEW u \in Users, AskJoin(u) \/ Leave(u) PROVE NoReturn
  BY <1>0, <1>4 DEF AskJoin, Leave, TypeOK
<1>5. ASSUME NEW u \in Users,
             \/ ReportFault(u) \/ FaultSteps(u) \/ CrowdOut(u)
             \/ \E g \in 1..MaxGeneration : Hear(u, g)
      PROVE  NoReturn
  BY <1>1, <1>2, <1>5
  DEF ReportFault, FaultSteps, CheckFault, OpenCircuit, SwitchAfterFault, CrowdOut, Hear
<1>6. ASSUME NEW u \in Moderators, CommandSteps(u) PROVE NoReturn
  <2>1. u \in Users
    BY CallersAssumption
  <2>2. CASE TakeAnswer(u)
    <3>1. caller[u].phase = "in"
      BY <2>2 DEF TakeAnswer, PageInv, PagesWait
    <3> QED BY <1>0, <1>2, <2>1, <2>2, <3>1 DEF TakeAnswer, TypeOK
  <2>3. CASE SwitchAlreadyDone(u) \/ SwitchByCommand(u) \/ SwitchConflicts(u) \/ LoseAnswer(u)
    BY <1>1, <2>3 DEF SwitchAlreadyDone, SwitchByCommand, SwitchConflicts, LoseAnswer
  <2> QED BY <1>6, <2>2, <2>3 DEF CommandSteps
<1>7. ASSUME NEW u \in Moderators, NEW t \in Providers, AskSwitch(u, t) PROVE NoReturn
  BY <1>1, <1>7 DEF AskSwitch
<1>8. ASSUME NEW u \in Removable, Disconnect(u) \/ RemoveFromSchedule(u) PROVE NoReturn
  BY <1>0, <1>8 DEF Disconnect, RemoveFromSchedule, Revoke, TypeOK
<1>9. CASE ChangeMode \/ Tick
  BY <1>1, <1>9 DEF ChangeMode, Tick
<1>10. CASE UNCHANGED vars
  BY <1>1, <1>10 DEF vars
<1> QED BY <1>3, <1>4, <1>5, <1>6, <1>7, <1>8, <1>9, <1>10 DEF Next

\* Whoever was taken off the lesson and has left the call stays out: no move,
\* report, command or later removal rewrites the list.
THEOREM RevokedStayOutHolds == Spec => RevokedStayOut
<1>1. TypeOK /\ RowInv /\ PageInv /\ [Next]_vars =>
        [\A u \in route.revoked :
            /\ u \in route'.revoked
            /\ caller[u].phase = "out" => caller'[u].phase = "out"]_vars
  BY StepKeepsList, StepKeepsOut DEF ListKept, NoReturn
<1> QED
  BY <1>1, InvariantHolds, PTL DEF Spec, RevokedStayOut

================================================================================
