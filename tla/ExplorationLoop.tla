--------------------------- MODULE ExplorationLoop --------------------------
(***************************************************************************)
(* The outer loop of the planners of one team: exploration hops and their  *)
(* blacklist, the step budget, the coverage streak, the hand-over to the   *)
(* vantage sub-loop and back, the rendezvous barrier, DONE and shutdown    *)
(* (explo_planner_node.cpp with failed_goal_blacklist.cpp and              *)
(* planner_util.cpp).                                                      *)
(*                                                                         *)
(* The ring protocol inside the sub-loop is VantageRing's: here the        *)
(* NAVIGATE state of the EXPLOIT phase covers the drive and its dwell, and *)
(* only a robot's own views count.  A PROXIMITY_HOLD resumes the drive it  *)
(* interrupts and is ProximityGuard's.  Which candidate scores best, what  *)
(* the map shows and when a clock crosses a limit are left open.           *)
(***************************************************************************)
EXTENDS TargetQueue

CONSTANTS
  Robot,          \* robots
  Goal, NoGoal,   \* exploration viewpoints, and none (the anchor, or no drive)
  MinVantages     \* min_vantages_required_

ASSUME LoopAssumption ==
  /\ IsFiniteSet(Robot)
  /\ Goal \cap Spot = {} /\ NoGoal \notin Goal \cup Spot
  /\ MinVantages \in Nat \ {0}

\* The launch parameters, and how many world events one behaviour may see.
\* exploiters are the robots with exploitation_enabled; maxWait is whether
\* rendezvous_max_wait_sec bounds the wait at the anchor (0, the default, does not).
Setup == [team : SUBSET Robot, exploiters : SUBSET Robot, goals : SUBSET Goal,
          maxSteps : Nat, streak : Nat \ {0}, idle : BOOLEAN, maxWait : BOOLEAN,
          events : Nat]

VARIABLES
  setup,     \* parameters, fixed from the start
  pstate,    \* state_; OFF before the node is constructed, STOPPING once
             \* shutdown_requested_ is set, EXIT after rclcpp::shutdown
  phase,     \* phase_
  step,      \* step_
  streak,    \* coverage_done_streak_, capped at the value it is compared with
  goal,      \* current_goal_ while driving
  failed,    \* failed_goals_: the goals some entry blacklists
  resting,   \* of those, the ones whose entry is younger than failed_goal_ttl_sec
  queue,     \* target_queue_
  giveup,    \* exploit_target_timing_ and the time since it was armed
  armed,     \* refinement regions registered with the mapper
  have,      \* have_active_intent_
  heard,     \* heard[r][p]: p's entry in r's claim table
  anchor,    \* have_anchor_
  linked,    \* the robots are within radio range
  lately,    \* history: the last coverage measurements PLAN made, newest last,
             \* "low" for below the threshold
  spent      \* world events so far

driveVars == << phase, step, streak, goal, failed, resting, lately >>
exploitVars == << queue, giveup, armed >>
radioVars == << have, heard, anchor >>
worldVars == << setup, linked, spent >>
loopVars == << pstate, driveVars, exploitVars, radioVars, worldVars >>

PState == {"OFF", "WAIT_FOR_MAP", "PLAN", "NAVIGATE", "INTEGRATE", "LOG_STEP",
           "EXPLOIT_PLAN", "RETURN_NAV", "RETURN_SYNC", "DONE", "STOPPING",
           "EXIT"}
Returning == {"RETURN_NAV", "RETURN_SYNC"}
Place == Goal \cup Spot

DriveTypeOK ==
  /\ phase \in [Robot -> {"EXPLORE", "EXPLOIT"}]
  /\ step \in [Robot -> Nat] /\ streak \in [Robot -> Nat]
  /\ goal \in [Robot -> Place \cup {NoGoal}]
  /\ failed \in [Robot -> SUBSET Place]
  /\ resting \in [Robot -> SUBSET Place]

RadioTypeOK ==
  /\ have \in [Robot -> BOOLEAN] /\ anchor \in [Robot -> BOOLEAN]
  /\ heard \in [Robot -> [Robot -> {"none", "live", "expired"}]]

\* Every variable of the loop keeps its type.
LoopTypeOK ==
  /\ setup \in Setup /\ linked \in BOOLEAN /\ spent \in Nat
  /\ pstate \in [Robot -> PState]
  /\ DriveTypeOK /\ RadioTypeOK
  /\ queue \in [Robot -> Queue]
  /\ giveup \in [Robot -> {"off", "running", "expired"}]
  /\ armed \in [Robot -> SUBSET Target]
  /\ lately \in [Robot -> Seq({"low", "other"})]

LoopInit ==
  /\ setup \in Setup
  /\ pstate = [r \in Robot |-> "OFF"]
  /\ phase = [r \in Robot |-> "EXPLORE"]
  /\ step = [r \in Robot |-> 0] /\ streak = [r \in Robot |-> 0]
  /\ goal = [r \in Robot |-> NoGoal]
  /\ failed = [r \in Robot |-> {}] /\ resting = [r \in Robot |-> {}]
  /\ queue = [r \in Robot |-> EmptyQueue]
  /\ giveup = [r \in Robot |-> "off"]
  /\ armed = [r \in Robot |-> {}]
  /\ have = [r \in Robot |-> FALSE]
  /\ heard = [r \in Robot |-> [p \in Robot |-> "none"]]
  /\ anchor = [r \in Robot |-> FALSE]
  /\ linked \in BOOLEAN
  /\ lately = [r \in Robot |-> << >>]
  /\ spent = 0

----------------------------------------------------------------------------
\* A world event happens, within the bound of the setup.
Happens == spent < setup.events /\ spent' = spent + 1 /\ UNCHANGED << setup, linked >>

GoTo(r, s) == pstate' = [pstate EXCEPT ![r] = s]
SetGoal(r, g) == goal' = [goal EXCEPT ![r] = g]
SetPhase(r, p) == phase' = [phase EXCEPT ![r] = p]
SetGiveUp(r, c) == giveup' = [giveup EXCEPT ![r] = c]

\* The node is up: its callbacks run.
Up(p) == pstate[p] \notin {"OFF", "EXIT"}

\* Slip: entries never age out of the list.
NeverPruned(r) == failed[r]

\* Slip: the age test of prune the wrong way round.
PrunedFresh(r) == failed[r] \ resting[r]

\* FailedGoalBlacklist::prune: entries past their time to live go; until it
\* runs they still blacklist.
Pruned(r) == failed[r] \cap resting[r]

\* Coordination::prune.
Forget(table) == [p \in Robot |-> IF table[p] = "expired" THEN "none" ELSE table[p]]

PruneLists(r) == failed' = [failed EXCEPT ![r] = Pruned(r)]

\* The table after r's broadcast reached every planner in range.
Broadcast(table, r) ==
  [p \in Robot |-> IF p \in setup.team \ {r} /\ linked /\ Up(p)
                     THEN [table[p] EXCEPT ![r] = "live"]
                     ELSE table[p]]

\* Publish r's claim.  Each listener records where it heard it, from its first
\* pose on: which of those still waiting for their map have one is left open.
Publish(r, table) ==
  /\ heard' = Broadcast(table, r)
  /\ \E posed \in SUBSET Robot :
       anchor' = [p \in Robot |->
                    \/ anchor[p]
                    \/ /\ p \in setup.team \ {r} /\ linked /\ Up(p)
                       /\ pstate[p] = "WAIT_FOR_MAP" => p \in posed]

Announce(r, table) == have' = [have EXCEPT ![r] = TRUE] /\ Publish(r, table)

\* The claim is dropped, and the table becomes the given one.
Release(r, table) ==
  have' = [have EXCEPT ![r] = FALSE] /\ heard' = table /\ UNCHANGED anchor

\* PLAN and EXPLOIT_PLAN read a pruned claim table.
PrunedTable(r) == [heard EXCEPT ![r] = Forget(@)]

\* Slip: whoever is in the table counts as present.
StoredPeers(r) == {p \in Robot : heard[r][p] # "none"}

\* Coordination::livePeerCount counts peers heard within one TTL.
LivePeers(r) == {p \in Robot : heard[r][p] = "live"}

ExpectedPeers == Cardinality(setup.team) - 1
TeamComplete(r) == ExpectedPeers > 0 /\ Cardinality(LivePeers(r)) >= ExpectedPeers
ShouldRendezvous(r) == ExpectedPeers > 0 /\ anchor[r] /\ ~ TeamComplete(r)

\* Slip: the give-up clock runs on through the barrier.
StandDownOnly(r) ==
  /\ queue' = [queue EXCEPT ![r] = Deactivate(@)]
  /\ phase' = IF HasPending(queue[r]) THEN [phase EXCEPT ![r] = "EXPLORE"] ELSE phase
  /\ UNCHANGED << giveup, armed >>

\* startReturnToAnchor puts an interrupted target back in the queue, its
\* region still armed, and stops its give-up clock.
StandDown(r) ==
  /\ queue' = [queue EXCEPT ![r] = Deactivate(@)]
  /\ IF HasPending(queue[r])
       THEN SetPhase(r, "EXPLORE") /\ SetGiveUp(r, "off")
       ELSE UNCHANGED << phase, giveup >>
  /\ UNCHANGED armed

\* finishOrRendezvous: home to the anchor while a teammate is out of contact,
\* claiming the anchor as an ordinary goal; DONE otherwise, a held claim kept
\* and silent.
FinishOrRendezvous(r, table) ==
  IF ShouldRendezvous(r)
    THEN /\ StandDown(r)
         /\ SetGoal(r, NoGoal)
         /\ Announce(r, table)
         /\ GoTo(r, "RETURN_NAV")
    ELSE /\ GoTo(r, "DONE")
         /\ heard' = table
         /\ UNCHANGED << phase, goal, exploitVars, have, anchor >>

\* An open target takes over.
Engage(r) ==
  /\ \E t \in Target : /\ Promotes(queue[r], t)
                       /\ queue' = [queue EXCEPT ![r] = Activate(@, t)]
  /\ SetPhase(r, "EXPLOIT")
  /\ GoTo(r, "EXPLOIT_PLAN")
  /\ SetGoal(r, NoGoal)
  /\ UNCHANGED << giveup, armed >>

----------------------------------------------------------------------------
\* The planner process starts; it starts exploring once it has its maps and a
\* pose.
Join(r) ==
  /\ pstate[r] = "OFF" /\ r \in setup.team
  /\ GoTo(r, "WAIT_FOR_MAP")
  /\ UNCHANGED << driveVars, exploitVars, radioVars, worldVars >>

MapReady(r) ==
  /\ pstate[r] = "WAIT_FOR_MAP"
  /\ GoTo(r, "PLAN")
  /\ UNCHANGED << driveVars, exploitVars, radioVars, worldVars >>

\* Slip: every delivery of a target arms its region.
ArmAlways(r, t) == armed' = [armed EXCEPT ![r] = @ \cup {t}]

Arm(r, t) == IF Duplicate(queue[r], t) THEN UNCHANGED armed ELSE ArmAlways(r, t)

\* onTreeTarget: a target that enters the queue arms its refinement region.
OnTreeTarget(r, t) ==
  /\ Up(r) /\ r \in setup.exploiters
  /\ queue' = [queue EXCEPT ![r] = Ingest(@, t)]
  /\ Arm(r, t)
  /\ UNCHANGED << pstate, driveVars, giveup, radioVars, worldVars >>

----------------------------------------------------------------------------
\* Slip: PLAN does not look at the budget LOG_STEP tests.
InPlan(r) == pstate[r] = "PLAN"

\* PLAN has budget left.
MayPlan(r) == pstate[r] = "PLAN" /\ step[r] < setup.maxSteps

PlanSpent(r) ==
  /\ pstate[r] = "PLAN" /\ step[r] >= setup.maxSteps
  /\ FinishOrRendezvous(r, heard)
  /\ UNCHANGED << step, streak, failed, resting, lately, worldVars >>

PlanEngage(r) ==
  /\ MayPlan(r) /\ HasPending(queue[r])
  /\ PruneLists(r)
  /\ Engage(r)
  /\ heard' = PrunedTable(r)
  /\ UNCHANGED << step, streak, resting, lately, have, anchor, worldVars >>

\* Slip: a measurement that fails leaves the streak as it was.
StreakUnlessAbove(r, verdict) ==
  CASE verdict = "below" -> IF streak[r] < setup.streak THEN streak[r] + 1 ELSE streak[r]
    [] verdict = "above" -> 0
    [] OTHER             -> streak[r]

\* The streak after a measurement: below the threshold, above it, or not to
\* be had.
StreakAfter(r, verdict) ==
  IF verdict # "below" THEN 0
  ELSE IF streak[r] < setup.streak THEN streak[r] + 1 ELSE streak[r]

\* The last measurements, as many as a streak needs.
LatelyAfter(r, verdict) ==
  LET s == Append(lately[r], IF verdict = "below" THEN "low" ELSE "other")
  IN  IF Len(s) > setup.streak THEN Tail(s) ELSE s

Measure(r, verdict) ==
  /\ MayPlan(r) /\ ~ HasPending(queue[r])
  /\ PruneLists(r)
  /\ streak' = [streak EXCEPT ![r] = StreakAfter(r, verdict)]
  /\ lately' = [lately EXCEPT ![r] = LatelyAfter(r, verdict)]

Saturates(r, verdict) == verdict = "below" /\ StreakAfter(r, verdict) >= setup.streak

\* PLAN sets the phase to EXPLORE here; with nothing queued it is already.
PlanCovered(r) ==
  /\ Saturates(r, "below")
  /\ Measure(r, "below")
  /\ FinishOrRendezvous(r, PrunedTable(r))
  /\ UNCHANGED << step, resting, worldVars >>

\* PLAN settles on a candidate no entry of the blacklist covers and claims it.
PlanHop(r) ==
  \E verdict \in {"below", "above", "unmeasured"} :
    /\ ~ Saturates(r, verdict)
    /\ Measure(r, verdict)
    /\ \E g \in setup.goals \ Pruned(r) : SetGoal(r, g)
    /\ SetPhase(r, "EXPLORE")
    /\ Announce(r, PrunedTable(r))
    /\ GoTo(r, "NAVIGATE")
    /\ UNCHANGED << step, resting, exploitVars, worldVars >>

\* No candidate passes the filters this tick, or there is no map to measure.
PlanRetry(r) ==
  /\ \/ \E verdict \in {"below", "above", "unmeasured"} :
          ~ Saturates(r, verdict) /\ Measure(r, verdict)
     \/ /\ MayPlan(r) /\ ~ HasPending(queue[r])
        /\ PruneLists(r)
        /\ UNCHANGED << streak, lately >>
  /\ SetPhase(r, "EXPLORE")
  /\ heard' = PrunedTable(r)
  /\ UNCHANGED << pstate, step, goal, resting, exploitVars, have, anchor, worldVars >>

----------------------------------------------------------------------------
Exploring(r) == pstate[r] = "NAVIGATE" /\ phase[r] = "EXPLORE"
Exploiting(r) == pstate[r] = "NAVIGATE" /\ phase[r] = "EXPLOIT"

\* A target appears mid-hop: the hop is released and stopped.
HopEngage(r) ==
  /\ Exploring(r) /\ HasPending(queue[r])
  /\ Engage(r)
  /\ Release(r, heard)
  /\ UNCHANGED << step, streak, failed, resting, lately, worldVars >>

\* The goal cell became an obstacle: back to PLAN, no step spent.
GoalBlocked(r) ==
  /\ pstate[r] = "NAVIGATE"
  /\ Exploring(r) => ~ HasPending(queue[r])
  /\ Happens
  /\ GoTo(r, "PLAN")
  /\ SetGoal(r, NoGoal)
  /\ Release(r, heard)
  /\ UNCHANGED << phase, step, streak, failed, resting, lately, exploitVars >>

ArriveHop(r) ==
  /\ Exploring(r) /\ ~ HasPending(queue[r])
  /\ GoTo(r, "INTEGRATE")
  /\ SetGoal(r, NoGoal)
  /\ Release(r, heard)
  /\ UNCHANGED << phase, step, streak, failed, resting, lately, exploitVars, worldVars >>

\* The dwell at the vantage is over: record it, re-arm the give-up clock and
\* keep the claim.
DwellOver(r) ==
  /\ Exploiting(r)
  /\ \E clear \in BOOLEAN :
       queue' = [queue EXCEPT ![r] = RecordVantageDwell(@, goal[r][2], clear)]
  /\ SetGiveUp(r, "running")
  /\ GoTo(r, "LOG_STEP")
  /\ SetGoal(r, NoGoal)
  /\ UNCHANGED << phase, step, streak, failed, resting, lately, armed, radioVars,
                  worldVars >>

\* failGoal: a watchdog gives up.  A hop to a vantage may fail as often as the
\* setup has events, an exploration hop always.
FailGoal(r) ==
  /\ pstate[r] = "NAVIGATE"
  /\ IF Exploring(r) THEN ~ HasPending(queue[r]) /\ UNCHANGED worldVars ELSE Happens
  /\ failed' = [failed EXCEPT ![r] = @ \cup {goal[r]}]
  /\ resting' = [resting EXCEPT ![r] = @ \cup {goal[r]}]
  /\ GoTo(r, "INTEGRATE")
  /\ SetGoal(r, NoGoal)
  /\ Release(r, heard)
  /\ UNCHANGED << phase, step, streak, lately, exploitVars >>

Integrate(r) ==
  /\ pstate[r] = "INTEGRATE"
  /\ GoTo(r, "LOG_STEP")
  /\ UNCHANGED << driveVars, exploitVars, radioVars, worldVars >>

LogStep(r) ==
  /\ pstate[r] = "LOG_STEP"
  /\ step' = [step EXCEPT ![r] = @ + 1]
  /\ IF step'[r] >= setup.maxSteps
       THEN FinishOrRendezvous(r, heard)
       ELSE /\ GoTo(r, IF phase[r] = "EXPLOIT" THEN "EXPLOIT_PLAN" ELSE "PLAN")
            /\ UNCHANGED << phase, goal, exploitVars, radioVars >>
  /\ UNCHANGED << streak, failed, resting, lately, worldVars >>

----------------------------------------------------------------------------
\* What a tick of EXPLOIT_PLAN works on: t, ACTIVE or promoted just now.
Working(r, t) == pstate[r] = "EXPLOIT_PLAN" /\ Promotes(queue[r], t)

QuotaMet(r, t) == queue[r].rec[t].dwells >= MinVantages

\* finishActiveTarget: its quota is met, or its give-up clock ran out.
CloseTarget(r) ==
  \E t \in Target :
    /\ Working(r, t)
    /\ QuotaMet(r, t) \/ giveup[r] = "expired"
    /\ queue' = [queue EXCEPT ![r] = MarkActiveDone(Activate(@, t))]
    /\ armed' = [armed EXCEPT ![r] = @ \ {t}]
    /\ SetGiveUp(r, "off")
    /\ IF HasPending(queue'[r])
         THEN UNCHANGED << phase, pstate >>
         ELSE SetPhase(r, "EXPLORE") /\ GoTo(r, "PLAN")
    /\ Release(r, PrunedTable(r))
    /\ UNCHANGED << step, streak, goal, failed, resting, lately, worldVars >>

\* The tick looks for a vantage, the give-up clock armed.
Selecting(r, t) ==
  /\ Working(r, t) /\ ~ QuotaMet(r, t) /\ giveup[r] # "expired"
  /\ queue' = [queue EXCEPT ![r] = Activate(@, t)]
  /\ SetGiveUp(r, "running")

StartVantage(r) ==
  \E t \in Target :
    /\ Selecting(r, t)
    /\ \E k \in Angle : /\ ~ IsVantageVisited(queue'[r], k)
                        /\ << t, k >> \notin Pruned(r)
                        /\ SetGoal(r, << t, k >>)
    /\ PruneLists(r)
    /\ Announce(r, PrunedTable(r))
    /\ GoTo(r, "NAVIGATE")
    /\ UNCHANGED << phase, step, streak, resting, lately, armed, worldVars >>

\* Nothing to drive to this tick; the blacklist is pruned only when the map
\* was there to look.
RetryVantage(r) ==
  /\ \E t \in Target : Selecting(r, t)
  /\ UNCHANGED failed \/ PruneLists(r)
  /\ heard' = PrunedTable(r)
  /\ UNCHANGED << pstate, phase, step, streak, goal, resting, lately, armed, have,
                  anchor, worldVars >>

----------------------------------------------------------------------------
\* The whole team is heard again, on the way to the anchor or at it.
TeamBack(r) ==
  /\ pstate[r] \in Returning
  /\ TeamComplete(r)
  /\ GoTo(r, "PLAN")
  /\ Release(r, heard)
  /\ UNCHANGED << driveVars, exploitVars, worldVars >>

\* At the anchor, or as near to it as the watchdogs allow.
ReachAnchor(r) ==
  /\ pstate[r] = "RETURN_NAV" /\ ~ TeamComplete(r)
  /\ GoTo(r, "RETURN_SYNC")
  /\ UNCHANGED << driveVars, exploitVars, radioVars, worldVars >>

WaitExpires(r) ==
  /\ setup.maxWait
  /\ pstate[r] = "RETURN_SYNC" /\ ~ TeamComplete(r)
  /\ GoTo(r, "DONE")
  /\ Release(r, heard)
  /\ UNCHANGED << driveVars, exploitVars, worldVars >>

\* DONE with done_action = idle keeps serving targets, past the budget too.
Wake(r) ==
  /\ pstate[r] = "DONE" /\ setup.idle /\ HasPending(queue[r])
  /\ Engage(r)
  /\ UNCHANGED << step, streak, failed, resting, lately, radioVars, worldVars >>

\* With done_action = shutdown the regions still armed are removed one tick
\* before the process ends.
StopRequested(r) ==
  /\ pstate[r] = "DONE" /\ ~ setup.idle
  /\ GoTo(r, "STOPPING")
  /\ armed' = [armed EXCEPT ![r] = @ \ Open(queue[r])]
  /\ UNCHANGED << driveVars, queue, giveup, radioVars, worldVars >>

Stop(r) ==
  /\ pstate[r] = "STOPPING"
  /\ GoTo(r, "EXIT")
  /\ UNCHANGED << driveVars, exploitVars, radioVars, worldVars >>

----------------------------------------------------------------------------
\* heartbeatTick: the states a claim beats from.
Beating(p) ==
  /\ have[p]
  /\ pstate[p] \in Returning \cup {"NAVIGATE", "INTEGRATE", "EXPLOIT_PLAN"}

Heartbeat(r) ==
  /\ Beating(r)
  /\ Publish(r, heard)
  /\ UNCHANGED << pstate, driveVars, exploitVars, have, worldVars >>

\* p has been out of range, or silent, for a time to live.
ClaimExpires(r, p) ==
  /\ heard[r][p] = "live"
  /\ ~ (linked /\ Beating(p))
  /\ heard' = [heard EXCEPT ![r][p] = "expired"]
  /\ UNCHANGED << pstate, driveVars, exploitVars, have, anchor, worldVars >>

\* The robots drive into or out of range.
LinkChanges ==
  /\ Cardinality(setup.team) > 1
  /\ spent < setup.events /\ spent' = spent + 1
  /\ linked' = ~ linked
  /\ UNCHANGED << setup, pstate, driveVars, exploitVars, radioVars >>

\* A blacklist entry outlives failed_goal_ttl_sec.
EntryDecays(r, g) ==
  /\ g \in resting[r]
  /\ resting' = [resting EXCEPT ![r] = @ \ {g}]
  /\ UNCHANGED << pstate, phase, step, streak, goal, failed, lately, exploitVars,
                  radioVars, worldVars >>

\* exploit_target_timeout_sec has passed since the clock was armed.
GiveUpExpires(r) ==
  /\ giveup[r] = "running"
  /\ SetGiveUp(r, "expired")
  /\ UNCHANGED << pstate, driveVars, queue, armed, radioVars, worldVars >>

----------------------------------------------------------------------------
Plan(r) == PlanSpent(r) \/ PlanEngage(r) \/ PlanHop(r)
Navigate(r) == HopEngage(r) \/ ArriveHop(r) \/ DwellOver(r) \/ FailGoal(r)
Exploit(r) == CloseTarget(r) \/ StartVantage(r) \/ RetryVantage(r)
Return(r) == TeamBack(r) \/ ReachAnchor(r) \/ WaitExpires(r)
Finish(r) == Integrate(r) \/ LogStep(r) \/ Wake(r) \/ StopRequested(r) \/ Stop(r)

Tick(r) ==
  MapReady(r) \/ Plan(r) \/ Navigate(r) \/ Exploit(r) \/ Return(r) \/ Finish(r)

\* Ticks the world need never grant.
Unsure(r) == PlanCovered(r) \/ PlanRetry(r) \/ GoalBlocked(r)

Clock(r) ==
  \/ \E p \in Robot : ClaimExpires(r, p)
  \/ \E g \in Place : EntryDecays(r, g)
  \/ GiveUpExpires(r)

\* Everything but the start of a planner and the arrival of targets.
LoopStep ==
  \/ \E r \in Robot : Tick(r) \/ Unsure(r) \/ Heartbeat(r) \/ Clock(r)
  \/ LinkChanges

LoopNext ==
  \/ LoopStep
  \/ \E r \in Robot : Join(r) \/ \E t \in Target : OnTreeTarget(r, t)

LoopSpec == LoopInit /\ [][LoopNext]_loopVars

----------------------------------------------------------------------------
\* A goal a robot failed at is not driven to again before its blacklist entry
\* is older than failed_goal_ttl_sec, whatever the loop does in between.
FailedGoalRests ==
  \A r \in Robot :
    /\ resting[r] \subseteq failed[r]
    /\ pstate[r] = "NAVIGATE" => goal[r] \in Place \ resting[r]

\* While a planner runs, the mapper refines exactly its open targets: closing,
\* standing down, waking and duplicates leave no region behind and drop none.
RegionsFollowQueue ==
  \A r \in Robot : pstate[r] \notin {"STOPPING", "EXIT"} => armed[r] = Open(queue[r])

\* Nothing is exploited behind the barrier: a robot on its way to the anchor,
\* or waiting there, has no ACTIVE target, and the clock of the target it put
\* back does not run.
BarrierSuspendsExploit ==
  \A r \in Robot :
    pstate[r] \in Returning =>
      ActiveTarget(queue[r]) = NoTarget /\ giveup[r] = "off" /\ phase[r] = "EXPLORE"

\* Once it has met its team, a planner ends its exploration out of contact with
\* any of them only by waiting for them at the barrier.
NobodyFinishesAlone ==
  [][\A r, p \in setup.team :
       /\ r # p /\ anchor[r]
       /\ pstate[r] \in {"PLAN", "LOG_STEP"} /\ pstate'[r] = "DONE"
       => heard[r][p] = "live"]_loopVars

StartsHop(r) == Exploring(r)' /\ ~ Exploring(r)

\* No exploration hop starts once the step budget is spent, not even after
\* targets kept an idling planner at work past it.
NoHopPastBudget ==
  [][\A r \in Robot : StartsHop(r) => step[r] < setup.maxSteps]_loopVars

\* The last N measurements of r were below the threshold.
Covered(r) ==
  Len(lately[r]) = setup.streak /\ \A i \in DOMAIN lately[r] : lately[r][i] = "low"

\* A robot stops exploring before its budget is spent only on N measurements
\* in a row below the threshold, and having them it starts no hop.
CoverageDecides ==
  [][\A r \in Robot :
       /\ pstate[r] = "PLAN" /\ pstate'[r] \in {"DONE", "RETURN_NAV"}
            => step[r] >= setup.maxSteps \/ Covered(r)'
       /\ StartsHop(r) => ~ Covered(r)']_loopVars
=============================================================================
