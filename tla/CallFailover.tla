---------------------------- MODULE CallFailover ----------------------------
(***************************************************************************)
(* Which video service a live lesson is on (Cabinet/video_failover.py).    *)
(*                                                                         *)
(* A lesson has one MeetingCallRoute row: the active provider (the primary *)
(* one or the reserve, LiveKit), a generation that grows with every move,  *)
(* the reason of the last move, the automatic-switch counter, the pauses   *)
(* and the reports of outages.  The row is moved by join-config requests   *)
(* (a lesson forced to LiveKit by the deployment's mode, or released when  *)
(* the mode is gone), by outage reports and by a teacher's command.        *)
(*                                                                         *)
(* Requests of different users overlap: a step of the model is one read or *)
(* one select_for_update transaction.  The page of each caller             *)
(* (VideoMeetingPage.jsx) hears of moves late or out of order, joins again *)
(* and remembers the last generation it accepted.                          *)
(***************************************************************************)
EXTENDS Integers, FiniteSets

CONSTANTS
    Users,          \* the people who may be in the lesson
    Moderators,     \* those of them who manage it (teacher, co-teacher)
    Removable,      \* those whom a teacher may take off the lesson
    Modes,          \* the VIDEO_FAILOVER_MODE values the deployments use
    MaxAutoSwitches,\* VIDEO_FAILOVER_MAX_AUTO_SWITCHES
    MinReporters,   \* VIDEO_FAILOVER_MIN_REPORTERS
    Window,         \* VIDEO_FAILOVER_FAILURE_WINDOW_SECONDS, in ticks
    Cooldown,       \* VIDEO_FAILOVER_SWITCH_COOLDOWN_SECONDS, in ticks
    MaxGeneration   \* bound of the model: moves stop at this generation

ASSUME CallersAssumption ==
    /\ Moderators \subseteq Users
    /\ Removable \subseteq Users \ Moderators
    /\ Modes \subseteq {"auto", "livekit_only", "jaas_only"}

\* The defaults are 1 switch, 2 reporters, 90 and 120 seconds.
ASSUME SettingsAssumption ==
    /\ MaxAutoSwitches \in Nat
    /\ MinReporters \in Nat \ {0}
    /\ Window \in Nat
    /\ Cooldown \in Nat
    /\ Window < Cooldown
    /\ MaxGeneration \in Nat \ {0}

VARIABLES
    mode,       \* the mode of the processes that serve new requests
    route,      \* the MeetingCallRoute row (generation 0: not created yet)
    report,     \* per user, the latest outage report of the row
    cause,      \* history: what really put the lesson where it is
    caller,     \* per user, what the page holds: phase, generation, room
    join,       \* per user, the join-config request the server works on
    fault,      \* per user, the outage report the server works on
    command     \* per moderator, the switch the page has asked for

vars == <<mode, route, report, cause, caller, join, fault, command>>

-----------------------------------------------------------------------------
Providers == {"primary", "livekit"}

Reasons == {"", "mode_livekit_only", "primary_restored", "admin_switch",
            "provider_outage", "participant_removed"}

Causes == {"start", "mode", "restored", "admin", "outage"}

Other(p) == IF p = "primary" THEN "livekit" ELSE "primary"

NoReport == [age |-> Window + 1, old |-> FALSE]
NoJoin == [at |-> "none", mode |-> "auto", provider |-> "primary"]
NoCommand == [at |-> "none", target |-> "primary", generation |-> 0, switched |-> FALSE]

Routes == [provider : Providers, generation : 0..MaxGeneration, reason : Reasons,
           autoSwitches : Nat, cooldown : 0..Cooldown, circuit : 0..Cooldown,
           revoked : SUBSET Users]
Reports == [age : 0..Window + 1, old : BOOLEAN]
Pages == [phase : {"out", "joining", "in"}, generation : 0..MaxGeneration, room : Providers]
Joins == [at : {"none", "admitted", "releasing", "forcing", "issued"},
          mode : Modes \cup {"auto"}, provider : Providers]
Commands == [at : {"none", "sent", "answered"}, target : Providers,
             generation : 0..MaxGeneration, switched : BOOLEAN]

TypeOK ==
    /\ mode \in Modes
    /\ route \in Routes
    /\ report \in [Users -> Reports]
    /\ cause \in Causes
    /\ caller \in [Users -> Pages]
    /\ join \in [Users -> Joins]
    /\ fault \in [Users -> {"none", "recorded", "checked"}]
    /\ command \in [Moderators -> Commands]

Init ==
    /\ mode \in Modes
    /\ route = [provider |-> "primary", generation |-> 0, reason |-> "",
                autoSwitches |-> 0, cooldown |-> 0, circuit |-> 0, revoked |-> {}]
    /\ report = [u \in Users |-> NoReport]
    /\ cause = "start"
    /\ caller = [u \in Users |-> [phase |-> "out", generation |-> 0, room |-> "primary"]]
    /\ join = [u \in Users |-> NoJoin]
    /\ fault = [u \in Users |-> "none"]
    /\ command = [u \in Moderators |-> NoCommand]

-----------------------------------------------------------------------------
(* The row.                                                                *)

Created == route.generation > 0

\* A request under mode m finds the row, or creates it (get_or_create).
EnsuredRoute(m) ==
    IF Created THEN route
    ELSE [route EXCEPT !.provider = IF m = "livekit_only" THEN "livekit" ELSE "primary",
                       !.generation = 1]

EnsuredCause(m) ==
    IF Created THEN cause ELSE IF m = "livekit_only" THEN "mode" ELSE "start"

Recent(u) == report[u].age <= Window

\* The history of reports: what was reported before a move is old after it.
ReportsAfterMove ==
    [u \in Users |-> IF Recent(u) THEN [report[u] EXCEPT !.old = TRUE] ELSE NoReport]

\* Mutants: a move starts no pause; the way back counts from 1 again; a move
\* starts with a clean row.
MoveToNoPause(p, why, automatic) ==
    /\ route.generation < MaxGeneration
    /\ route' = [route EXCEPT
            !.provider = p, !.generation = @ + 1, !.reason = why,
            !.autoSwitches = IF automatic THEN @ + 1 ELSE @]
    /\ report' = ReportsAfterMove

MoveToFirstGeneration(p, why, automatic) ==
    /\ route.generation < MaxGeneration
    /\ route' = [route EXCEPT
            !.provider = p, !.generation = IF p = "primary" THEN 1 ELSE @ + 1,
            !.reason = why, !.cooldown = Cooldown,
            !.autoSwitches = IF automatic THEN @ + 1 ELSE @]
    /\ report' = ReportsAfterMove

MoveToCleanRow(p, why, automatic) ==
    /\ route.generation < MaxGeneration
    /\ route' = [route EXCEPT
            !.provider = p, !.generation = @ + 1, !.reason = why,
            !.cooldown = Cooldown, !.revoked = {},
            !.autoSwitches = IF automatic THEN @ + 1 ELSE @]
    /\ report' = ReportsAfterMove

\* switch_provider's writes: the next generation, the pause, the reason.
MoveTo(p, why, automatic) ==
    /\ route.generation < MaxGeneration
    /\ route' = [route EXCEPT
            !.provider = p,
            !.generation = @ + 1,
            !.reason = why,
            !.cooldown = Cooldown,
            !.autoSwitches = IF automatic THEN @ + 1 ELSE @]
    /\ report' = ReportsAfterMove

\* Mutant: LiveKit is taken as forced whatever moved the lesson there.
ForcedLivekitAnyReason(r) == r.provider = "livekit"

\* "" is the reason of a row that was created while the mode was livekit_only.
ForcedLivekit(r) ==
    /\ r.provider = "livekit"
    /\ r.reason \in {"", "mode_livekit_only"}

\* Who has to complain for an automatic switch: the moderator who reports, or
\* enough different users; and nothing may forbid it.
AutoSwitchAllowed(u, m) ==
    /\ m = "auto"
    /\ route.provider # "livekit"
    /\ route.autoSwitches < MaxAutoSwitches
    /\ route.cooldown = 0
    /\ route.circuit = 0
    /\ \/ u \in Moderators /\ Recent(u)
       \/ Cardinality({v \in Users : Recent(v)}) >= MinReporters

-----------------------------------------------------------------------------
(* join-config: build_join_config on the server, initializeJitsi on the    *)
(* page.  The request keeps the mode of the process that serves it.        *)

Admit(u) == [at |-> "admitted", mode |-> mode, provider |-> "primary"]

\* The page asks for credentials; a revoked user is refused.
AskJoin(u) ==
    /\ caller[u].phase = "out"
    /\ u \notin route.revoked
    /\ caller' = [caller EXCEPT ![u].phase = "joining"]
    /\ join' = [join EXCEPT ![u] = Admit(u)]
    /\ UNCHANGED <<mode, route, report, cause, fault, command>>

\* maybe_livekit_credentials reads the row, without a lock, and decides.
ReadRoute(u) ==
    LET m == join[u].mode
        r == EnsuredRoute(m)
    IN /\ join[u].at = "admitted"
       /\ route' = r
       /\ cause' = EnsuredCause(m)
       /\ join' = [join EXCEPT
            ![u].at = IF m # "livekit_only" /\ ForcedLivekit(r) THEN "releasing"
                      ELSE IF m = "livekit_only" /\ r.provider # "livekit" THEN "forcing"
                      ELSE "issued",
            ![u].provider = r.provider]
       /\ UNCHANGED <<mode, report, caller, fault, command>>

\* Mutant: the row is not looked at again under the lock.
ReleaseForcedBlindly(u) ==
    /\ join[u].at = "releasing"
    /\ route.generation < MaxGeneration
    /\ route' = [route EXCEPT !.provider = "primary", !.generation = @ + 1,
                              !.reason = "primary_restored"]
    /\ report' = ReportsAfterMove
    /\ cause' = "restored"
    /\ join' = [join EXCEPT ![u].at = "issued", ![u].provider = "primary"]
    /\ UNCHANGED <<mode, caller, fault, command>>

\* release_forced_livekit: under the lock the row is looked at again.
ReleaseForced(u) ==
    /\ join[u].at = "releasing"
    /\ IF ForcedLivekit(route)
       THEN /\ route.generation < MaxGeneration
            /\ route' = [route EXCEPT !.provider = "primary",
                                      !.generation = @ + 1,
                                      !.reason = "primary_restored"]
            /\ report' = ReportsAfterMove
            /\ cause' = "restored"
       ELSE UNCHANGED <<route, report, cause>>
    /\ join' = [join EXCEPT ![u].at = "issued", ![u].provider = route'.provider]
    /\ UNCHANGED <<mode, caller, fault, command>>

\* The mode is livekit_only and the lesson is elsewhere: switch_provider.
ForceLivekit(u) ==
    /\ join[u].at = "forcing"
    /\ IF route.provider = "livekit"
       THEN UNCHANGED <<route, report, cause>>
       ELSE /\ MoveTo("livekit", "mode_livekit_only", FALSE)
            /\ cause' = "mode"
    /\ join' = [join EXCEPT ![u].at = "issued", ![u].provider = "livekit"]
    /\ UNCHANGED <<mode, caller, fault, command>>

\* annotate_join_config reads the row once more, after the credentials were
\* issued, and adds its generation; the page enters the room of the credentials
\* unless it has accepted a later generation.
Annotate(u) ==
    /\ join[u].at = "issued"
    /\ join' = [join EXCEPT ![u] = NoJoin]
    /\ caller' = [caller EXCEPT ![u] =
            IF route.generation < @.generation
            THEN [@ EXCEPT !.phase = "out"]
            ELSE [phase |-> "in", generation |-> route.generation,
                  room |-> join[u].provider]]
    /\ UNCHANGED <<mode, route, report, cause, fault, command>>

\* The page drops its call and asks again, remembering generation g.
JoinAgain(u, g) ==
    /\ caller' = [caller EXCEPT ![u].generation = g,
                               ![u].phase = IF u \in route.revoked THEN "out" ELSE "joining"]
    /\ join' = [join EXCEPT ![u] = IF u \in route.revoked THEN NoJoin ELSE Admit(u)]

Commanding(u) == u \in Moderators /\ command[u].at # "none"

\* Mutants: any other generation is news; the next one is not news.
AcceptAnyGeneration(current, incoming) == incoming # current
AcceptGenerationAfterNext(current, incoming) == incoming > current + 1

AcceptGeneration(current, incoming) == incoming > current

\* applyMediaRoute: the page hears of generation g, from a broadcast that may
\* be late or from the poll, and follows only what is newer than its own.  A
\* join that is under way is dropped.
Hear(u, g) ==
    /\ ~Commanding(u)
    /\ caller[u].generation > 0
    /\ AcceptGeneration(caller[u].generation, g)
    /\ g <= route.generation
    /\ JoinAgain(u, g)
    /\ UNCHANGED <<mode, route, report, cause, fault, command>>

\* The user closes or reloads the page.
Leave(u) ==
    /\ caller[u].phase # "out"
    /\ ~Commanding(u)
    /\ caller' = [caller EXCEPT ![u].phase = "out", ![u].generation = 0]
    /\ join' = [join EXCEPT ![u] = NoJoin]
    /\ UNCHANGED <<mode, route, report, cause, fault, command>>

-----------------------------------------------------------------------------
(* report_fault: two transactions, and a health probe between two looks at *)
(* the row.  Reports of any other kind move nothing.                       *)

\* A page reports when the mode it joined under is auto, even if it is no more.
ReportFault(u) ==
    /\ "auto" \in Modes
    /\ fault[u] = "none"
    /\ caller[u].generation > 0
    /\ caller[u].generation <= route.generation    \* otherwise 409
    /\ report' = [report EXCEPT ![u] = [age |-> 0, old |-> FALSE]]
    /\ fault' = [fault EXCEPT ![u] = IF mode = "auto" THEN "recorded" ELSE "none"]
    /\ UNCHANGED <<mode, route, cause, caller, join, command>>

\* switch_provider(automatic): first without the lock.
CheckFault(u) ==
    /\ fault[u] = "recorded"
    /\ fault' = [fault EXCEPT ![u] =
            IF AutoSwitchAllowed(u, "auto") THEN "checked" ELSE "none"]
    /\ UNCHANGED <<mode, route, report, cause, caller, join, command>>

\* LiveKit does not answer the probe: _open_circuit.
OpenCircuit(u) ==
    /\ fault[u] = "checked"
    /\ route' = [route EXCEPT !.circuit = Cooldown]
    /\ fault' = [fault EXCEPT ![u] = "none"]
    /\ UNCHANGED <<mode, report, cause, caller, join, command>>

\* Mutant: what was allowed before the probe is not asked again.
SwitchAfterFaultUnchecked(u) ==
    /\ fault[u] = "checked"
    /\ IF route.provider # "livekit"
       THEN /\ MoveTo("livekit", "provider_outage", TRUE)
            /\ cause' = "outage"
       ELSE UNCHANGED <<route, report, cause>>
    /\ fault' = [fault EXCEPT ![u] = "none"]
    /\ UNCHANGED <<mode, caller, join, command>>

\* It answers: once more under the lock, and the lesson moves.
SwitchAfterFault(u) ==
    /\ fault[u] = "checked"
    /\ IF AutoSwitchAllowed(u, "auto")
       THEN /\ MoveTo("livekit", "provider_outage", TRUE)
            /\ cause' = "outage"
       ELSE UNCHANGED <<route, report, cause>>
    /\ fault' = [fault EXCEPT ![u] = "none"]
    /\ UNCHANGED <<mode, caller, join, command>>

\* The row keeps its last 30 reports: others push a report out.
CrowdOut(u) ==
    /\ Recent(u)
    /\ report' = [report EXCEPT ![u] = NoReport]
    /\ UNCHANGED <<mode, route, cause, caller, join, fault, command>>

-----------------------------------------------------------------------------
(* admin_switch: the teacher chooses the service on the page.              *)

AskSwitch(u, target) ==
    /\ command[u].at = "none"
    /\ caller[u].phase = "in"
    /\ caller[u].room # target
    /\ command' = [command EXCEPT ![u] =
            [at |-> "sent", target |-> target,
             generation |-> caller[u].generation, switched |-> FALSE]]
    /\ UNCHANGED <<mode, route, report, cause, caller, join, fault>>

\* Already there: nothing moves and the answer is the row as it is.
SwitchAlreadyDone(u) ==
    /\ command[u].at = "sent"
    /\ route.provider = command[u].target
    /\ command' = [command EXCEPT ![u].at = "answered",
                                 ![u].generation = route.generation]
    /\ UNCHANGED <<mode, route, report, cause, caller, join, fault>>

SwitchByCommand(u) ==
    /\ command[u].at = "sent"
    /\ route.provider # command[u].target
    /\ route.generation = command[u].generation
    /\ MoveTo(command[u].target, "admin_switch", FALSE)
    /\ cause' = "admin"
    /\ command' = [command EXCEPT ![u].at = "answered", ![u].switched = TRUE,
                                 ![u].generation = route'.generation]
    /\ UNCHANGED <<mode, caller, join, fault>>

\* generation_conflict: the page shows the error and goes on polling.
SwitchConflicts(u) ==
    /\ command[u].at = "sent"
    /\ route.provider # command[u].target
    /\ route.generation # command[u].generation
    /\ command' = [command EXCEPT ![u] = NoCommand]
    /\ UNCHANGED <<mode, route, report, cause, caller, join, fault>>

\* The page takes the generation of the answer, and joins again if it moved.
TakeAnswer(u) ==
    /\ command[u].at = "answered"
    /\ IF command[u].switched
       THEN JoinAgain(u, command[u].generation)
       ELSE /\ caller' = [caller EXCEPT ![u].generation = command[u].generation]
            /\ UNCHANGED join
    /\ command' = [command EXCEPT ![u] = NoCommand]
    /\ UNCHANGED <<mode, route, report, cause, fault>>

\* The answer is lost or the page gave up after 20 seconds.
LoseAnswer(u) ==
    /\ command[u].at = "answered"
    /\ command' = [command EXCEPT ![u] = NoCommand]
    /\ UNCHANGED <<mode, route, report, cause, caller, join, fault>>

-----------------------------------------------------------------------------
(* Participants who are taken off the lesson, possibly not for the first   *)
(* time; RemoveParticipant closes the LiveKit connection of u, or fails.   *)

Revoke(u, why) ==
    /\ route' = [route EXCEPT !.revoked = @ \cup {u}, !.reason = why]
    /\ \/ UNCHANGED caller
       \/ /\ route.provider = "livekit"
          /\ caller[u].phase = "in" /\ caller[u].room = "livekit"
          /\ caller' = [caller EXCEPT ![u].phase = "out"]
    /\ UNCHANGED <<mode, report, cause, join, fault, command>>

\* disconnect_participant with block_rejoin.
Disconnect(u) == Created /\ Revoke(u, route.reason)

\* revoke_removed_schedule_participant.
RemoveFromSchedule(u) == Created /\ Revoke(u, "participant_removed")

-----------------------------------------------------------------------------
(* The environment.                                                        *)

ChangeMode ==
    /\ mode' \in Modes \ {mode}
    /\ UNCHANGED <<route, report, cause, caller, join, fault, command>>

\* Time passes.
Tick ==
    /\ \/ route.cooldown > 0
       \/ route.circuit > 0
       \/ \E u \in Users : Recent(u)
    /\ route' = [route EXCEPT !.cooldown = IF @ > 0 THEN @ - 1 ELSE 0,
                             !.circuit = IF @ > 0 THEN @ - 1 ELSE 0]
    /\ report' = [u \in Users |-> IF report[u].age < Window
                                  THEN [report[u] EXCEPT !.age = @ + 1] ELSE NoReport]
    /\ UNCHANGED <<mode, cause, caller, join, fault, command>>

JoinSteps(u) == ReadRoute(u) \/ ReleaseForced(u) \/ ForceLivekit(u) \/ Annotate(u)

CommandSteps(u) ==
    \/ SwitchAlreadyDone(u) \/ SwitchByCommand(u) \/ SwitchConflicts(u)
    \/ TakeAnswer(u) \/ LoseAnswer(u)

FaultSteps(u) == CheckFault(u) \/ OpenCircuit(u) \/ SwitchAfterFault(u)

Next ==
    \/ \E u \in Users :
        \/ AskJoin(u) \/ JoinSteps(u) \/ Leave(u)
        \/ ReportFault(u) \/ FaultSteps(u) \/ CrowdOut(u)
        \/ \E g \in 1..MaxGeneration : Hear(u, g)
    \/ \E u \in Moderators :
        \/ CommandSteps(u)
        \/ \E target \in Providers : AskSwitch(u, target)
    \/ \E u \in Removable : Disconnect(u) \/ RemoveFromSchedule(u)
    \/ ChangeMode
    \/ Tick

Spec == Init /\ [][Next]_vars

\* The poll of media-route every 8 seconds, and requests that are answered.
FairSpec ==
    /\ Spec
    /\ \A u \in Users :
        /\ WF_vars(Hear(u, route.generation))
        /\ WF_vars(JoinSteps(u))
    /\ \A u \in Moderators : WF_vars(CommandSteps(u))

-----------------------------------------------------------------------------
(* Properties.                                                             *)

\* However requests overlap, the lesson moves to the other service exactly when
\* the generation grows by one: a repeated or a late request that finds the
\* lesson already where it wants it does not move it again (the recheck of
\* release_forced_livekit and switch_provider under select_for_update), so a
\* generation names one service for all time.
OneMovePerGeneration ==
    [][Created =>
        \/ /\ route'.generation = route.generation
           /\ route'.provider = route.provider
        \/ /\ route'.generation = route.generation + 1
           /\ route'.provider = Other(route.provider)]_vars

\* The lesson comes back from LiveKit only by a moderator's command, or when it
\* was put there by the mode alone: a lesson that an outage or a teacher moved
\* is never brought back by a join-config request, even one that decided to
\* release it before the move (release_forced_livekit; no automatic return).
NoAutomaticReturn ==
    [][route.provider = "livekit" /\ route'.provider = "primary" =>
        \/ cause' = "admin"
        \/ cause = "mode" /\ cause' = "restored"]_vars

\* Two reports that pass the unlocked check together still make one automatic
\* switch: the counter is compared again under the lock.
AutoSwitchBudget == route.autoSwitches <= MaxAutoSwitches

\* Once the pause after a move is over, no report that counts was recorded
\* before the move, so an outage of the service the lesson has left cannot move
\* it again (the window is shorter than the pause).  A release that the mode
\* makes starts no pause and is excepted.
EvidenceIsFresh ==
    route.cooldown = 0 /\ cause # "restored" => \A u \in Users : ~report[u].old

\* A page never remembers a generation the lesson has not reached, and never
\* goes back to an older one while it is open: late news and late answers do not
\* roll a caller back.
CallersNeverAhead == \A u \in Users : caller[u].generation <= route.generation

CallersNeverRollBack ==
    [][\A u \in Users : \/ caller'[u].generation >= caller[u].generation
                        \/ caller'[u].phase = "out" /\ caller'[u].generation = 0]_vars

\* A user taken off the lesson who has left the call stays out of it, whatever
\* later rewrites the row: moves, reports and other removals keep the list.
RevokedStayOut ==
    [][\A u \in route.revoked :
        /\ u \in route'.revoked
        /\ caller[u].phase = "out" => caller'[u].phase = "out"]_vars

\* A caller who lags behind catches up: the page joins the call at the present
\* generation unless it is closed, refused or busy with a command of its own.
LaggingCallersCatchUp ==
    \A u \in Users :
        caller[u].phase # "out" /\ caller[u].generation < route.generation
            /\ caller[u].generation > 0
        ~> \/ caller[u].phase = "in" /\ caller[u].generation = route.generation
           \/ caller[u].phase = "out"
           \/ Commanding(u)

(* Why the safety properties hold: an inductive invariant.                 *)

\* Only the mode leaves a reason that a later request takes as forced.
ForcedByMode == ForcedLivekit(route) => cause = "mode"

\* A lesson without a row has no history.
HistoryNeedsRow == ~Created => cause = "start" /\ route.provider = "primary"

\* An old report ages while the pause after the move runs down.
OldReportsAge ==
    \A u \in Users : report[u].old =>
        /\ Recent(u)
        /\ cause # "restored" => report[u].age + route.cooldown >= Cooldown

\* A join is under way only on a page that waits for it; a page that waits for
\* the answer to a command stays in its call.
PagesWait ==
    /\ \A u \in Users : join[u].at # "none" => caller[u].phase = "joining"
    /\ \A u \in Moderators : command[u].at # "none" => caller[u].phase = "in"

\* The generation a command carries lies between the page's and the lesson's.
CommandsInOrder ==
    \A u \in Moderators :
        /\ command[u].generation <= route.generation
        /\ command[u].at # "none" => caller[u].generation <= command[u].generation

CallInv ==
    /\ TypeOK
    /\ AutoSwitchBudget
    /\ CallersNeverAhead
    /\ ForcedByMode
    /\ HistoryNeedsRow
    /\ OldReportsAge
    /\ PagesWait
    /\ CommandsInOrder

=============================================================================
