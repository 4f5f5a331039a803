----------------------------- MODULE VantageRing ----------------------------
(***************************************************************************)
(* Several planners capture the vantage ring of each trunk together, with  *)
(* nothing but broadcast claims between them: the exploitation half of     *)
(* explo_planner_node.cpp over its target queue and its claim table.       *)
(*                                                                         *)
(* One action is one tick or one callback of one node (the executor is     *)
(* single-threaded), or one step of the world: nav2 moving a platform, the *)
(* middleware delivering or losing a claim, a clock crossing a threshold.  *)
(* The planner states keep their names; EXPLORE stands for PLAN, NAVIGATE, *)
(* INTEGRATE and LOG_STEP of the exploration phase (a hop is in flight     *)
(* exactly when a claim is held), LOG_STEP for INTEGRATE and LOG_STEP of   *)
(* the exploitation phase, and RETURN for both rendezvous states.  A       *)
(* proximity hold only delays a drive and appears as a platform that does  *)
(* not move.                                                               *)
(***************************************************************************)
EXTENDS Coordination, TargetQueue

CONSTANTS
  MinVantages,     \* min_vantages_required_: clear dwells that complete a trunk
  Step,            \* Step[p][g]: where a platform at p goes next towards g
  ApproachPoints,  \* ApproachPoints[p][t]: what computeApproachGoal may return
  Possible,        \* spots that pass the validation walk at some time
  Sure,            \* spots that pass it every time and show the trunk
  WideId,          \* target ids of 2^31 and more, negative once cast to int
  DwellSync,       \* exploit_dwell_sync_enabled
  DwellMaxWait,    \* exploit_dwell_sync_max_wait_sec > 0
  ReturnMaxWait,   \* rendezvous_max_wait_sec > 0
  GiveUp,          \* exploit_target_timeout_sec > 0
  Depth,           \* history depth of the claim topic
  Events, Budget   \* world events that occur, and how many in one behaviour

EventKind == {"explore", "blocked", "fail", "loss", "gap", "budget", "restart"}

ASSUME QuotaAssumption == MinVantages \in Nat \ {0}
ASSUME WorldAssumption ==
  /\ Step \in [Place -> [Place -> Place]]
  /\ ApproachPoints \in [Place -> [Target -> SUBSET Waypoint]]
  /\ Sure \subseteq Possible /\ Possible \subseteq Spot
ASSUME ParameterAssumption ==
  /\ WideId \subseteq Target
  /\ DwellSync \in BOOLEAN /\ DwellMaxWait \in BOOLEAN
  /\ ReturnMaxWait \in BOOLEAN /\ GiveUp \in BOOLEAN
  /\ Depth \in Nat \ {0} /\ Budget \in Nat /\ Events \subseteq EventKind

VARIABLES
  pstate,    \* state_
  queue,     \* target_queue_
  goal,      \* current_goal_: a spot on a vantage hop, a waypoint otherwise
  loc,       \* where the platform stands
  nav,       \* the goal nav2 pursues; loc when it pursues none
  mine,      \* current_intent_msg_
  have,      \* have_active_intent_
  held,      \* held_vantage_pose_, NoTarget while held_vantage_valid_ is false
  barrier,   \* dwell_sync_started_ and dwell_sync_timed_out_
  claims,    \* claims[r][p]: what r knows of p
  chan,      \* chan[p][r]: claims of p on their way to r
  captured,  \* history: the angles of each trunk a robot saw clearly
  outcome,   \* history: how each robot last logged each target closed
  spent      \* world events so far

planVars  == << pstate, queue, goal, held, barrier, outcome >>
bodyVars  == << loc, nav >>
claimVars == << mine, have, claims, chan >>
vars == << planVars, bodyVars, claimVars, captured, spent >>

PState == {"EXPLORE", "EXPLOIT_PLAN", "NAVIGATE", "EXPLOIT_DWELL",
           "LOG_STEP", "RETURN", "DONE"}

PlannerTypeOK ==
  /\ pstate \in [Robot -> PState]
  /\ queue \in [Robot -> Queue]
  /\ goal \in [Robot -> Place]
  /\ held \in [Robot -> Spot \cup {NoTarget}]
  /\ barrier \in [Robot -> {"waiting", "started", "timedout"}]
  /\ outcome \in [Robot -> [Target -> {"open", "complete", "partial"}]]

BodyTypeOK == loc \in [Robot -> Place] /\ nav \in [Robot -> Place]

ClaimTypeOK ==
  /\ mine \in [Robot -> Intent]
  /\ have \in [Robot -> BOOLEAN]
  /\ claims \in [Robot -> [Robot -> Claim]]

ChannelTypeOK ==
  /\ chan \in [Robot -> [Robot -> Seq(Intent)]]
  /\ \A r, p \in Robot : Len(chan[r][p]) =< Depth

\* Every variable keeps its type, and no history outgrows the depth of its topic.
TypeOK ==
  /\ PlannerTypeOK /\ BodyTypeOK /\ ClaimTypeOK /\ ChannelTypeOK
  /\ captured \in [Target -> SUBSET Angle]
  /\ spent \in Nat

Init ==
  /\ pstate = [r \in Robot |-> "EXPLORE"]
  /\ queue = [r \in Robot |-> EmptyQueue]
  /\ goal = [r \in Robot |-> Home]
  /\ loc = [r \in Robot |-> Home]
  /\ nav = [r \in Robot |-> Home]
  /\ mine = [r \in Robot |-> PlainIntent(Home, Home)]
  /\ have = [r \in Robot |-> FALSE]
  /\ held = [r \in Robot |-> NoTarget]
  /\ barrier = [r \in Robot |-> "waiting"]
  /\ claims = [r \in Robot |-> NoClaims]
  /\ chan = [p \in Robot |-> [r \in Robot |-> << >>]]
  /\ captured = [t \in Target |-> {}]
  /\ outcome = [r \in Robot |-> [t \in Target |-> "open"]]
  /\ spent = 0

----------------------------------------------------------------------------
\* A world event of the given kind happens, within the bound of the model.
Happens(kind) == kind \in Events /\ spent < Budget /\ spent' = spent + 1

GoTo(r, s) == pstate' = [pstate EXCEPT ![r] = s]

\* Slip: an unbounded history.
KeepAll(s) == s

\* Reliable, keep-last: a full history drops its oldest message.
KeepLast(s) == IF Len(s) > Depth THEN Tail(s) ELSE s

Publish(r, m) ==
  chan' = [chan EXCEPT ![r] =
             [d \in Robot |-> IF d = r THEN << >> ELSE KeepLast(Append(@[d], m))]]

\* The claim becomes m and goes out at once.
Announce(r, m) ==
  /\ mine' = [mine EXCEPT ![r] = m]
  /\ have' = [have EXCEPT ![r] = TRUE]
  /\ Publish(r, m)

\* The claim is dropped; peers learn of it by silence.  The message is never
\* read again without the flag, so its last content is not kept.
Release(r) ==
  /\ have' = [have EXCEPT ![r] = FALSE]
  /\ mine' = [mine EXCEPT ![r] = PlainIntent(Home, Home)]
  /\ UNCHANGED chan

\* abandonNavGoal: cancel, and a brake goal at the robot's own pose.
Brake(r) == nav' = [nav EXCEPT ![r] = loc[r]] /\ UNCHANGED loc

\* Slip: the veto skips what is past retention, the table keeps it.
SkipExpired(r) == UNCHANGED claims

PruneClaims(r) == claims' = [claims EXCEPT ![r] = Prune(@)]

\* finishOrRendezvous with the team incomplete: stand the queue down, claim
\* the anchor as an ordinary goal and drive there.  The anchor is where this
\* robot last heard a teammate; which place that is, is left open.
StartReturnToAnchor(r) ==
  /\ LivePeerCount(claims[r]) < Cardinality(Robot) - 1
  /\ queue' = [queue EXCEPT ![r] = Deactivate(@)]
  /\ \E anchor \in Place :
       /\ goal' = [goal EXCEPT ![r] = anchor]
       /\ nav' = [nav EXCEPT ![r] = anchor]
       /\ Announce(r, PlainIntent(anchor, loc[r]))
  /\ GoTo(r, "RETURN")
  /\ UNCHANGED << loc, held, barrier, outcome, captured >>

\* finishOrRendezvous with every peer live, or before any was ever heard (no
\* anchor).  A held claim stays in memory and falls silent.
FinishDone(r) ==
  /\ GoTo(r, "DONE")
  /\ UNCHANGED << queue, goal, held, barrier, outcome, bodyVars, mine, have,
                  chan, captured >>

----------------------------------------------------------------------------
\* onTreeTarget: the target topic is latched, so any id comes at any time.
IngestTarget(r, t) ==
  /\ t \notin Known(queue[r])
  /\ queue' = [queue EXCEPT ![r] = Ingest(@, t)]
  /\ UNCHANGED << pstate, goal, held, barrier, outcome, bodyVars, claimVars,
                  captured, spent >>

\* PLAN selects an exploration goal and claims it.
StartExploreHop(r) ==
  /\ Happens("explore")
  /\ pstate[r] = "EXPLORE" /\ ~ have[r] /\ ~ HasPending(queue[r])
  /\ \E w \in Waypoint \ {loc[r]} :
       /\ goal' = [goal EXCEPT ![r] = w]
       /\ nav' = [nav EXCEPT ![r] = w]
       /\ Announce(r, PlainIntent(w, loc[r]))
  /\ PruneClaims(r)
  /\ UNCHANGED << pstate, queue, held, barrier, outcome, loc, captured >>

\* The hop arrives or is failed; both leave the platform without a goal.
EndExploreHop(r) ==
  /\ pstate[r] = "EXPLORE" /\ have[r] /\ ~ HasPending(queue[r])
  /\ Release(r)
  /\ Brake(r)
  /\ UNCHANGED << planVars, claims, captured, spent >>

\* An open target takes over: in PLAN, in the middle of an exploration hop
\* (whose goal is abandoned), or in DONE with done_action = idle.
Engage(r) ==
  /\ pstate[r] \in {"EXPLORE", "DONE"}
  /\ \E t \in Target : /\ Promotes(queue[r], t)
                       /\ queue' = [queue EXCEPT ![r] = Activate(@, t)]
  /\ GoTo(r, "EXPLOIT_PLAN")
  /\ IF pstate[r] = "EXPLORE" /\ have[r]
       THEN Release(r) /\ Brake(r)
       ELSE UNCHANGED << bodyVars, mine, have, chan >>
  /\ IF pstate[r] = "EXPLORE" /\ ~ have[r]
       THEN PruneClaims(r)
       ELSE UNCHANGED claims
  /\ UNCHANGED << goal, held, barrier, outcome, captured, spent >>

\* PLAN finds the step budget spent, whatever is queued, or later on in the
\* same tick, with nothing queued, the region covered.
FinishExploring(r) ==
  /\ Happens("budget")
  /\ pstate[r] = "EXPLORE" /\ ~ have[r]
  /\ StartReturnToAnchor(r) \/ FinishDone(r)
  /\ UNCHANGED claims \/ (~ HasPending(queue[r]) /\ PruneClaims(r))

----------------------------------------------------------------------------
\* What a tick of EXPLOIT_PLAN works on: t promoted, and the claims pruned and
\* mined for credit.
Planned(r, t) ==
  MergePeerDwells(Activate(queue[r], t), t, PeerDwellUnion(Prune(claims[r]), t))

\* Slip: visits counted instead of clear views.
QuotaVisited(r, t) == Cardinality(Planned(r, t).rec[t].visited) >= MinVantages

QuotaMet(r, t) == Planned(r, t).rec[t].dwells >= MinVantages

Vetoed(r, t, k) ==
  VantageVetoedByPeers(Prune(claims[r]), t, << t, k >>, r, loc[r])

\* The robot has dwelled on this ring and every angle left is a peer's.
RingCovered(r, t) ==
  /\ held[r] \in {t} \X Angle
  /\ \A k \in Angle : IsVantageVisited(Planned(r, t), k) \/ Vetoed(r, t, k)

\* The angles the walk may settle on; which of them is nearest, and which of
\* the unsure ones are valid at this moment, is left open.
Selectable(r, t) ==
  {k \in Angle : /\ << t, k >> \in Possible
                 /\ ~ IsVantageVisited(Planned(r, t), k)
                 /\ ~ Vetoed(r, t, k)}

PlanTick(r, t) ==
  /\ pstate[r] = "EXPLOIT_PLAN"
  /\ Promotes(queue[r], t)
  /\ PruneClaims(r)

\* finishActiveTarget.
CloseTarget(r, t, verdict) ==
  /\ queue' = [queue EXCEPT ![r] = MarkActiveDone(Planned(r, t))]
  /\ outcome' = [outcome EXCEPT ![r][t] = verdict]
  /\ Release(r)
  /\ GoTo(r, IF HasPending(queue'[r]) THEN "EXPLOIT_PLAN" ELSE "EXPLORE")
  /\ UNCHANGED << goal, held, barrier, bodyVars, captured, spent >>

CloseComplete(r) ==
  \E t \in Target : /\ PlanTick(r, t)
                    /\ QuotaMet(r, t)
                    /\ CloseTarget(r, t, "complete")

\* The give-up timer has run out; it runs on its own clock.
ClosePartial(r) ==
  \E t \in Target : /\ GiveUp
                    /\ PlanTick(r, t)
                    /\ ~ QuotaMet(r, t)
                    /\ CloseTarget(r, t, "partial")

\* holdDwelledVantage: stay on, or return to, the dwelled vantage and keep the
\* staged claim beating with the newest credit.
Hold(r) ==
  \E t \in Target :
    /\ PlanTick(r, t)
    /\ ~ QuotaMet(r, t)
    /\ RingCovered(r, t)
    /\ queue' = [queue EXCEPT ![r] = Planned(r, t)]
    /\ nav' = IF loc[r] = held[r] THEN nav ELSE [nav EXCEPT ![r] = held[r]]
    /\ LET mask == Planned(r, t).rec[t].mask
       IN  IF ~ have[r] \/ ~ mine[r].staged \/ mine[r].target # t
             THEN Announce(r, BuildIntent(held[r], loc[r], TRUE, t, mask, TRUE))
             ELSE /\ mine' = [mine EXCEPT ![r].mask = mask]
                  /\ UNCHANGED << have, chan >>
    /\ UNCHANGED << pstate, goal, held, barrier, outcome, loc, captured, spent >>

\* startExploitNavigate.
StartExploitNavigate(r, t, g) ==
  /\ queue' = [queue EXCEPT ![r] = Planned(r, t)]
  /\ goal' = [goal EXCEPT ![r] = g]
  /\ nav' = [nav EXCEPT ![r] = g]
  /\ Announce(r, BuildIntent(g, loc[r], TRUE, t, Planned(r, t).rec[t].mask, FALSE))
  /\ GoTo(r, "NAVIGATE")
  /\ UNCHANGED << held, barrier, outcome, loc, captured, spent >>

SelectVantage(r) ==
  \E t \in Target :
    /\ PlanTick(r, t)
    /\ ~ QuotaMet(r, t)
    /\ \E k \in Selectable(r, t) : StartExploitNavigate(r, t, << t, k >>)

\* Neither the hold nor the walk has settled this tick.
NothingSelectable(r, t) ==
  /\ ~ QuotaMet(r, t)
  /\ ~ RingCovered(r, t)
  /\ \A k \in Selectable(r, t) : << t, k >> \notin Sure

SelectApproach(r) ==
  \E t \in Target :
    /\ PlanTick(r, t)
    /\ NothingSelectable(r, t)
    /\ \E w \in ApproachPoints[loc[r]][t] : StartExploitNavigate(r, t, w)

\* No angle, and no nearer approach: keep the merged credit and retry.
RetryPlan(r) ==
  \E t \in Target :
    /\ PlanTick(r, t)
    /\ NothingSelectable(r, t)
    /\ queue' = [queue EXCEPT ![r] = Planned(r, t)]
    /\ UNCHANGED << pstate, goal, held, barrier, outcome, bodyVars, mine, have,
                    chan, captured, spent >>

----------------------------------------------------------------------------
\* The goal cell became occupied: back to PLAN, the target still ACTIVE.
GoalBlocked(r) ==
  /\ Happens("blocked")
  /\ pstate[r] = "NAVIGATE"
  /\ Release(r)
  /\ Brake(r)
  /\ GoTo(r, "EXPLORE")
  /\ UNCHANGED << queue, goal, held, barrier, outcome, claims, captured >>

\* A peer claims the very angle this robot drives to, and wins it.  The claim
\* table is read as it is: nothing prunes it during a drive.  A wide id fails
\* the sign test that guards the comparison.
LosesAngle(r) ==
  /\ goal[r] \in Spot
  /\ goal[r][1] \notin WideId
  /\ \E p \in Robot :
       LET m == claims[r][p].msg
       IN  /\ ClaimMatching(claims[r], goal[r], p)
           /\ m.exploit /\ m.target = goal[r][1]
           /\ ~ SelfWinsAgainst(r, loc[r], goal[r], p, m)

YieldVantage(r) ==
  /\ pstate[r] = "NAVIGATE"
  /\ LosesAngle(r)
  /\ Release(r)
  /\ Brake(r)
  /\ GoTo(r, "EXPLOIT_PLAN")
  /\ UNCHANGED << queue, goal, held, barrier, outcome, claims, captured, spent >>

\* At the approach waypoint: plan again, the claim still held.
ArriveApproach(r) ==
  /\ pstate[r] = "NAVIGATE"
  /\ goal[r] \in Waypoint /\ loc[r] = goal[r]
  /\ GoTo(r, "EXPLOIT_PLAN")
  /\ UNCHANGED << queue, goal, held, barrier, outcome, bodyVars, claimVars,
                  captured, spent >>

\* At the vantage: the claim goes out again, staged, as it was last built.
ArriveVantage(r) ==
  /\ pstate[r] = "NAVIGATE"
  /\ goal[r] \in Spot /\ loc[r] = goal[r]
  /\ ~ LosesAngle(r)
  /\ barrier' = [barrier EXCEPT ![r] = "waiting"]
  /\ IF have[r]
       THEN Announce(r, [mine[r] EXCEPT !.staged = TRUE])
       ELSE UNCHANGED << mine, have, chan >>
  /\ GoTo(r, "EXPLOIT_DWELL")
  /\ UNCHANGED << queue, goal, held, outcome, bodyVars, claims, captured, spent >>

\* failGoal: a watchdog gave up on the drive or on the final rotation.  The
\* blacklist entry it leaves is one of the reasons a spot is not valid now.
FailGoal(r) ==
  /\ Happens("fail")
  /\ pstate[r] = "NAVIGATE"
  /\ ~ LosesAngle(r)
  /\ Release(r)
  /\ Brake(r)
  /\ GoTo(r, "LOG_STEP")
  /\ UNCHANGED << queue, goal, held, barrier, outcome, claims, captured >>

----------------------------------------------------------------------------
\* The dwell barrier: no live peer on this trunk is still on its way to a
\* vantage.  It is tested until it holds once, then never again.
BarrierOpens(r) ==
  /\ pstate[r] = "EXPLOIT_DWELL"
  /\ DwellSync
  /\ barrier[r] = "waiting"
  /\ UnstagedExploitPeers(claims[r], goal[r][1]) = {}
  /\ barrier' = [barrier EXCEPT ![r] = "started"]
  /\ UNCHANGED << pstate, queue, goal, held, outcome, bodyVars, claimVars,
                  captured, spent >>

BarrierTimesOut(r) ==
  /\ DwellMaxWait
  /\ pstate[r] = "EXPLOIT_DWELL"
  /\ DwellSync
  /\ barrier[r] = "waiting"
  /\ UnstagedExploitPeers(claims[r], goal[r][1]) # {}
  /\ barrier' = [barrier EXCEPT ![r] = "timedout"]
  /\ UNCHANGED << pstate, queue, goal, held, outcome, bodyVars, claimVars,
                  captured, spent >>

\* exploit_dwell_sec later: record what was seen and broadcast the credit.  A
\* dwell outlasts several heartbeats, so the claim has gone out with the pose
\* of the standing robot by then.
CompleteDwell(r) ==
  \E clear \in BOOLEAN :
    LET t == goal[r][1]
        k == goal[r][2]
        q == RecordVantageDwell(queue[r], k, clear)
    IN  /\ pstate[r] = "EXPLOIT_DWELL"
        /\ DwellSync => barrier[r] # "waiting"
        /\ have[r] => mine[r].pos = loc[r]
        /\ goal[r] \in Sure => clear
        /\ queue' = [queue EXCEPT ![r] = q]
        /\ captured' = [captured EXCEPT ![t] = IF clear THEN @ \cup {k} ELSE @]
        /\ held' = [held EXCEPT ![r] = goal[r]]
        /\ IF have[r]
             THEN Announce(r, [mine[r] EXCEPT !.mask = q.rec[t].mask])
             ELSE UNCHANGED << mine, have, chan >>
        /\ GoTo(r, "LOG_STEP")
        /\ UNCHANGED << goal, barrier, outcome, bodyVars, claims, spent >>

LogStep(r) ==
  /\ pstate[r] = "LOG_STEP"
  /\ GoTo(r, "EXPLOIT_PLAN")
  /\ UNCHANGED << queue, goal, held, barrier, outcome, bodyVars, claimVars,
                  captured, spent >>

\* LOG_STEP finds the step budget spent, in the middle of a ring.
SpendBudget(r) ==
  /\ Happens("budget")
  /\ pstate[r] = "LOG_STEP"
  /\ StartReturnToAnchor(r) \/ FinishDone(r)
  /\ UNCHANGED claims

\* The team is complete again: RETURN ends in PLAN, nav2 still on its way.
TeamReconnects(r) ==
  /\ pstate[r] = "RETURN"
  /\ LivePeerCount(claims[r]) >= Cardinality(Robot) - 1
  /\ Release(r)
  /\ GoTo(r, "EXPLORE")
  /\ UNCHANGED << queue, goal, held, barrier, outcome, bodyVars, claims,
                  captured, spent >>

RendezvousExpires(r) ==
  /\ ReturnMaxWait
  /\ pstate[r] = "RETURN"
  /\ LivePeerCount(claims[r]) < Cardinality(Robot) - 1
  /\ Release(r)
  /\ GoTo(r, "DONE")
  /\ UNCHANGED << queue, goal, held, barrier, outcome, bodyVars, claims,
                  captured, spent >>

----------------------------------------------------------------------------
\* heartbeatTick: a claim beats from NAVIGATE on, and is silent in DONE.  (PLAN
\* holds none; the one tick of LOG_STEP proper is shorter than a beat.)
Beating(r) == have[r] /\ pstate[r] # "DONE"

Heartbeat(r) ==
  /\ Beating(r)
  /\ Announce(r, [mine[r] EXCEPT !.pos = loc[r]])
  /\ UNCHANGED << planVars, bodyVars, claims, captured, spent >>

\* The intent callback: the claim table first, then the credit in the message.
Deliver(p, r) ==
  /\ chan[p][r] # << >>
  /\ LET m == Head(chan[p][r])
     IN  /\ claims' = [claims EXCEPT ![r] = OnIntent(@, p, m)]
         /\ queue' = IF m.exploit
                       THEN [queue EXCEPT ![r] = MergePeerDwells(@, m.target, m.mask)]
                       ELSE queue
  /\ chan' = [chan EXCEPT ![p][r] = Tail(@)]
  /\ UNCHANGED << pstate, goal, held, barrier, outcome, bodyVars, mine, have,
                  captured, spent >>

Lose(p, r) ==
  /\ Happens("loss")
  /\ chan[p][r] # << >>
  /\ chan' = [chan EXCEPT ![p][r] = Tail(@)]
  /\ UNCHANGED << planVars, bodyVars, mine, have, claims, captured >>

\* A claim passes its next threshold: because its peer has fallen silent, or,
\* as a world event, because this robot's executor was starved of a peer that
\* beats.
ClaimAges(r, p) ==
  /\ claims[r][p].age \in {"live", "graced"}
  /\ \/ /\ ~ Beating(p)
        /\ chan[p][r] = << >>
        /\ UNCHANGED spent
     \/ Happens("gap")
  /\ claims' = [claims EXCEPT ![r][p] = Older(@)]
  /\ UNCHANGED << planVars, bodyVars, mine, have, chan, captured >>

\* nav2 drives whatever goal it was last given, in every planner state.
Drive(r) ==
  /\ nav[r] # loc[r]
  /\ loc' = [loc EXCEPT ![r] = Step[loc[r]][nav[r]]]
  /\ UNCHANGED << planVars, nav, claimVars, captured, spent >>

\* The node dies and comes back with nothing; nothing is persisted, its claims
\* are volatile, and nav2 keeps the goal it had.
Restart(r) ==
  /\ Happens("restart")
  /\ GoTo(r, "EXPLORE")
  /\ queue' = [queue EXCEPT ![r] = EmptyQueue]
  /\ goal' = [goal EXCEPT ![r] = Home]
  /\ mine' = [mine EXCEPT ![r] = PlainIntent(Home, Home)]
  /\ have' = [have EXCEPT ![r] = FALSE]
  /\ held' = [held EXCEPT ![r] = NoTarget]
  /\ barrier' = [barrier EXCEPT ![r] = "waiting"]
  /\ claims' = [claims EXCEPT ![r] = NoClaims]
  /\ chan' = [p \in Robot |-> [chan[p] EXCEPT ![r] = << >>]]
  /\ outcome' = [outcome EXCEPT ![r] = [t \in Target |-> "open"]]
  /\ UNCHANGED << bodyVars, captured >>

----------------------------------------------------------------------------
Explore(r) == StartExploreHop(r) \/ EndExploreHop(r) \/ Engage(r) \/ FinishExploring(r)
Plan(r) ==
  CloseComplete(r) \/ Hold(r) \/ SelectVantage(r) \/ SelectApproach(r) \/ RetryPlan(r)
Navigate(r) ==
  GoalBlocked(r) \/ YieldVantage(r) \/ ArriveApproach(r) \/ ArriveVantage(r) \/ FailGoal(r)
Dwell(r) == BarrierOpens(r) \/ BarrierTimesOut(r) \/ CompleteDwell(r)
Finish(r) == LogStep(r) \/ SpendBudget(r) \/ TeamReconnects(r) \/ RendezvousExpires(r)

Tick(r) == Explore(r) \/ Plan(r) \/ Navigate(r) \/ Dwell(r) \/ Finish(r)

Next ==
  \E r \in Robot :
    \/ \E t \in Target : IngestTarget(r, t)
    \/ Tick(r) \/ ClosePartial(r)
    \/ Heartbeat(r) \/ Drive(r) \/ Restart(r)
    \/ \E p \in Robot \ {r} : Deliver(p, r) \/ Lose(p, r) \/ ClaimAges(r, p)

Spec == Init /\ [][Next]_vars

(***************************************************************************)
(* The timer ticks, so an enabled tick is taken; nav2 moves, the transport *)
(* delivers, clocks advance.  The give-up timer keeps running across the   *)
(* states of a target and is re-armed only by arrivals and dwells, of      *)
(* which a ring has finitely many: it fires in some EXPLOIT_PLAN visit.    *)
(***************************************************************************)
Fairness ==
  \A r \in Robot :
    /\ WF_vars(\E t \in Target : IngestTarget(r, t))
    /\ WF_vars(Tick(r)) /\ SF_vars(ClosePartial(r))
    /\ WF_vars(Heartbeat(r)) /\ WF_vars(Drive(r))
    /\ \A p \in Robot \ {r} : WF_vars(Deliver(p, r)) /\ WF_vars(ClaimAges(r, p))

FairSpec == Spec /\ Fairness

----------------------------------------------------------------------------
\* m credits its target only with angles some robot saw it clearly from.
MaskSound(m) == m.target \in Target => m.mask \subseteq captured[m.target]

\* Every mask in a queue, in a claim, on the wire or in a claim table names
\* only angles some robot dwelled at with the trunk in clear sight: credit is
\* never made up, misattributed to another target or revived by a merge.
CreditSound ==
  \A r \in Robot :
    /\ \A t \in Target : queue[r].rec[t].mask \subseteq captured[t]
    /\ MaskSound(mine[r])
    /\ \A p \in Robot : /\ MaskSound(claims[r][p].msg)
                        /\ \A i \in DOMAIN chan[r][p] : MaskSound(chan[r][p][i])

\* A target logged COMPLETE was seen clearly from the required number of
\* different angles, whoever stood at them.
CompleteHonest ==
  \A r \in Robot, t \in Target :
    outcome[r][t] = "complete" => Cardinality(captured[t]) >= MinVantages

\* clear_los_dwells counts each credited ring index once, over own dwells and
\* merges of any number of stale and repeated masks, and every credited angle
\* counts as visited.
CreditCounted ==
  \A r \in Robot, t \in Target :
    LET e == queue[r].rec[t]
    IN  e.dwells = Cardinality(e.mask) /\ e.mask \subseteq e.visited

\* At most one entry is ACTIVE, the one in the slot; a robot in the vantage
\* sub-loop has one (the "queue drained" exit of EXPLOIT_PLAN is dead), and a
\* vantage hop and its dwell belong to it.
GoalIsActive ==
  \A r \in Robot :
    LET t == ActiveTarget(queue[r])
    IN  /\ OneActive(queue[r])
        /\ pstate[r] = "EXPLOIT_PLAN" => Open(queue[r]) # {}
        /\ pstate[r] \in {"NAVIGATE", "EXPLOIT_DWELL", "LOG_STEP"} => t # NoTarget
        /\ pstate[r] \in {"NAVIGATE", "EXPLOIT_DWELL"} /\ goal[r] \in Spot
             => goal[r][1] = t
        /\ pstate[r] = "EXPLOIT_DWELL" => goal[r] \in Spot

\* r's own claim says what r does.
TrueClaim(r) ==
  /\ have[r] /\ pstate[r] \in {"EXPLORE", "NAVIGATE", "RETURN"} => ~ mine[r].staged
  /\ pstate[r] \in {"NAVIGATE", "EXPLOIT_DWELL"} =>
       /\ have[r] /\ mine[r].exploit /\ mine[r].target = ActiveTarget(queue[r])
       /\ mine[r].goal = goal[r] /\ nav[r] = goal[r]
  /\ pstate[r] = "EXPLOIT_DWELL" => mine[r].staged /\ loc[r] = goal[r]

\* The claim on the air is true of its producer: a robot that drives or
\* explores does not claim to be staged, one that drives for a target claims
\* that target and the goal nav2 has, and one that dwells stands on the vantage
\* it claims and says so.
ClaimIsTrue == \A r \in Robot : TrueClaim(r)

----------------------------------------------------------------------------
\* r's entry for p is the claim p holds at this moment (credit aside).
Knows(r, p) ==
  /\ claims[r][p].age = "live"
  /\ have[p]
  /\ [claims[r][p].msg EXCEPT !.mask = {}] = [mine[p] EXCEPT !.mask = {}]

\* And that claim says where p stands.
KnowsPose(r, p) == Knows(r, p) /\ mine[p].pos = loc[p]

\* The robots driving to spot s.
Rivals(s) == {r \in Robot : pstate[r] = "NAVIGATE" /\ goal[r] = s}

\* They have heard each other, and only each other, about it.
KnowEachOther(s) ==
  \A r \in Rivals(s) : /\ Contesting(claims[r], s) = Rivals(s) \ {r}
                        /\ \A p \in Rivals(s) \ {r} : KnowsPose(r, p)

\* Those of them that stand closest to it, and those that drive on.
Front(s)   == {r \in Rivals(s) : \A p \in Rivals(s) : Dist[loc[r]][s] =< Dist[loc[p]][s]}
Keepers(s) == {r \in Rivals(s) : ~ LosesAngle(r)}

\* Of the robots driving to one angle that have heard each other, and only each
\* other, about it, at least one keeps it, nobody does who stands farther away
\* than another, and exactly one does unless three or more stand closest
\* together; for target ids below 2^31.  (Of three, the order in which their
\* claims arrived decides whom each consults, and two may drive on.)
NearestKeepsAngle ==
  \A s \in Spot :
    s[1] \notin WideId /\ Rivals(s) # {} /\ KnowEachOther(s) =>
      /\ Keepers(s) # {} /\ Keepers(s) \subseteq Front(s)
      /\ Cardinality(Front(s)) =< 2 => Cardinality(Keepers(s)) = 1

\* A robot never sets out to an angle that its own claim table already denies it,
\* whatever stale claims the table held when it planned: a claim left behind by a
\* peer that fell silent can turn a drive around once, not again and again.
NeverSetsOutToYield ==
  [][\A r \in Robot :
       pstate[r] = "EXPLOIT_PLAN" /\ pstate'[r] = "NAVIGATE" => ~ LosesAngle(r)']_vars

\* When a barrier has released robots parked on one ring, those that know where
\* the other stands pick different angles without exchanging a message.
ParkedPeersSplit ==
  \A r, p \in Robot, t \in Target :
    /\ r # p /\ KnowsPose(r, p) /\ KnowsPose(p, r)
    /\ \A x \in {r, p} : pstate[x] = "EXPLOIT_PLAN" /\ mine[x].staged
                        /\ mine[x].target = t /\ ActiveTarget(queue[x]) = t
    => Selectable(r, t) \cap Selectable(p, t) = {}

\* The team's credit, as the abstract specification sees it.
TeamCredit == [r \in Robot |-> [t \in Target |-> queue[r].rec[t].mask]]

\* The sets of angles that meet the quota.
Enough == {S \in SUBSET Angle : Cardinality(S) >= MinVantages}

Team == INSTANCE TeamCapture WITH credit <- TeamCredit

\* The claims, the merges and the closing of targets implement TeamCapture.
ImplementsTeamCapture == Team!Spec

\* A robot on its vantage always gets to dwell and leave: the barrier never
\* waits for a peer that waits for it, and never for one that went silent.
DwellEnds ==
  \A r \in Robot : pstate[r] = "EXPLOIT_DWELL" ~> pstate[r] # "EXPLOIT_DWELL"

\* Every target a planner queues is closed in the end, by it: the exploitation
\* sub-loop terminates whatever the peers claim.
TargetCloses ==
  \A r \in Robot, t \in Target : t \in Open(queue[r]) ~> t \notin Open(queue[r])

----------------------------------------------------------------------------
\* What the documentation says and the code does not keep.

\* "exactly one of the two abandons -- never both (the ring silently loses an
\* angle) and never neither (they re-converge on one point ...)": of two robots
\* driving to one angle that have heard each other about it, one yields and one
\* does not, whatever the id of the target.
ExactlyOneYields ==
  \A s \in Spot :
    Cardinality(Rivals(s)) = 2 /\ KnowEachOther(s) =>
      Cardinality({r \in Rivals(s) : LosesAngle(r)}) = 1

=============================================================================
