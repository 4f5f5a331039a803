---------------------------- MODULE ProximityGuard ---------------------------
(***************************************************************************)
(* The coordinated proximity stop: the arbiter of proximity_guard.cpp and  *)
(* the hold that explo_planner_node.cpp wraps around a drive.              *)
(*                                                                         *)
(* Time is a clock of one unit per step.  The planners tick ten times a    *)
(* second, far more often than a threshold passes or a platform changes    *)
(* its place, so Clock waits until no planner has anything left to do at   *)
(* this instant, and platforms move with it.  Ages are kept instead of     *)
(* time stamps, each up to the point where no test tells larger ones       *)
(* apart.  STILL stands for every state that is not a drive and not a      *)
(* hold.                                                                   *)
(***************************************************************************)
EXTENDS Naturals, FiniteSets

CONSTANTS
  Robot,        \* robots, numbered in the lexicographic order of their names
  Cell,         \* places on the ground
  Dist,         \* Dist[a][b]: distance between two places
  Step,         \* Step[a][b]: where a platform at a goes next towards b
  Start,        \* Start[r]: where r stands first
  Anchor,       \* Anchor[r]: the place RETURN_NAV drives to
  Goals,        \* Goals[r]: the other places r drives to
  HoldDist, RawResumeDist, KeepDist, MoveDist,
  PoseStale, HoldStale, PeerStatic,
  MaxHold,      \* proximity_max_hold_sec, 0 when there is no bound
  NavBudget,    \* nav_budget_sec_, the same for every goal
  MaxTrips      \* bound: how many drives each robot makes

ASSUME RobotAssumption == Robot \subseteq Nat /\ IsFiniteSet(Robot)
ASSUME GroundAssumption ==
  /\ Dist \in [Cell -> [Cell -> Nat]] /\ \A c \in Cell : Dist[c][c] = 0
  /\ Step \in [Cell -> [Cell -> Cell]]
  /\ Start \in [Robot -> Cell] /\ Anchor \in [Robot -> Cell]
  /\ Goals \in [Robot -> SUBSET Cell] /\ \A r \in Robot : Anchor[r] \notin Goals[r]
ASSUME ThresholdAssumption ==
  /\ HoldDist \in Nat /\ RawResumeDist \in Nat /\ KeepDist \in Nat /\ MoveDist \in Nat
  /\ PoseStale \in Nat /\ HoldStale \in Nat /\ PeerStatic \in Nat
  /\ MaxHold \in Nat /\ NavBudget \in Nat /\ MaxTrips \in [Robot -> Nat]

VARIABLES
  state,    \* state_
  resume,   \* prox_resume_state_
  elapsed,  \* time since state_enter_time_
  banked,   \* prox_nav_elapsed_sec_
  goal,     \* current_goal_
  loc,      \* where the platform stands
  nav,      \* the goal nav2 pursues; loc when it pursues none
  cancel,   \* a cancel-all request is on its way to nav2
  track,    \* track[r][p]: the peer track r keeps of p
  driven,   \* history: time r has driven for its goal
  trips     \* drives started so far

vars == << state, resume, elapsed, banked, goal, loc, nav, cancel, track, driven, trips >>

DriveState == {"NAVIGATE", "RETURN_NAV"}
State == DriveState \cup {"STILL", "PROXIMITY_HOLD"}

\* Beyond these an age passes every test it can pass.
Larger(m, n) == IF m > n THEN m ELSE n
SeenCap  == Larger(PoseStale, HoldStale) + 1
StillCap == PeerStatic + 1
TimeCap  == Larger(NavBudget, MaxHold) + 1

Track == [known : BOOLEAN, pos : Cell, anchor : Cell,
          seen : 0 .. SeenCap, still : 0 .. StillCap]

Driving(r) == state[r] \in DriveState
Holding(r) == state[r] = "PROXIMITY_HOLD"

TypeOK ==
  /\ state \in [Robot -> State]
  /\ resume \in [Robot -> DriveState]
  /\ elapsed \in [Robot -> 0 .. TimeCap]
  /\ banked \in [Robot -> 0 .. TimeCap]
  /\ goal \in [Robot -> Cell]
  /\ loc \in [Robot -> Cell]
  /\ nav \in [Robot -> Cell]
  /\ cancel \in [Robot -> BOOLEAN]
  /\ track \in [Robot -> [Robot -> Track]]
  /\ driven \in [Robot -> Nat]
  /\ trips \in [Robot -> Nat]

NoTrack(c) == [known |-> FALSE, pos |-> c, anchor |-> c, seen |-> 0, still |-> 0]

Init ==
  /\ state = [r \in Robot |-> "STILL"]
  /\ resume = [r \in Robot |-> "NAVIGATE"]
  /\ elapsed = [r \in Robot |-> 0]
  /\ banked = [r \in Robot |-> 0]
  /\ goal = Start
  /\ loc = Start
  /\ nav = Start
  /\ cancel = [r \in Robot |-> FALSE]
  /\ track = [r \in Robot |-> [p \in Robot |-> NoTrack(Start[p])]]
  /\ driven = [r \in Robot |-> 0]
  /\ trips = [r \in Robot |-> 0]

----------------------------------------------------------------------------
\* A resume distance below the hold distance is raised to it.
ResumeDist == IF RawResumeDist < HoldDist THEN HoldDist ELSE RawResumeDist

\* A peer that has not moved for long and is not too close is an obstacle for
\* the costmap.
Parked(r, p) ==
  /\ track[r][p].still > PeerStatic
  /\ Dist[loc[r]][track[r][p].pos] >= KeepDist

\* Slip: the two windows exchanged.
FreshSwapped(r, p, holding) ==
  track[r][p].seen =< IF holding THEN PoseStale ELSE HoldStale

Fresh(r, p, holding) ==
  track[r][p].seen =< IF holding THEN HoldStale ELSE PoseStale

Near(r, p, holding) ==
  Dist[loc[r]][track[r][p].pos] < IF holding THEN ResumeDist ELSE HoldDist

\* evaluate(): somebody with right of way moves nearby.
MustHold(r, holding) ==
  \E p \in Robot : /\ track[r][p].known
                   /\ p < r
                   /\ Fresh(r, p, holding) /\ ~ Parked(r, p) /\ Near(r, p, holding)

\* Slip: every sample counts as motion.
SightedMoving(t, c) ==
  [known |-> TRUE, pos |-> c, anchor |-> c, seen |-> 0, still |-> 0]

\* onPeerPose, kept for the peers with right of way, the only ones evaluate()
\* looks at: the pose of p reaches r, on the heartbeat or on p's localiser
\* topic.  p moves when it leaves the anchor it was last seen moving at.
Sighted(t, c) ==
  IF ~ t.known
    THEN [known |-> TRUE, pos |-> c, anchor |-> c, seen |-> 0, still |-> 0]
  ELSE IF Dist[c][t.anchor] > MoveDist
    THEN [t EXCEPT !.pos = c, !.seen = 0, !.anchor = c, !.still = 0]
    ELSE [t EXCEPT !.pos = c, !.seen = 0]

OnPeerPose(r, p) ==
  /\ p < r
  /\ track' = [track EXCEPT ![r][p] = Sighted(@, loc[p])]
  /\ UNCHANGED << state, resume, elapsed, banked, goal, loc, nav, cancel, driven, trips >>

----------------------------------------------------------------------------
\* transitionTo restarts the time spent in the state.
TransitionTo(r, s) ==
  /\ state' = [state EXCEPT ![r] = s]
  /\ elapsed' = [elapsed EXCEPT ![r] = 0]

\* Slip: the cancel alone.
StopByCancel(r) == cancel' = [cancel EXCEPT ![r] = TRUE] /\ UNCHANGED nav

\* Cancel, and a brake goal at the robot's own pose.
Stop(r) ==
  /\ nav' = [nav EXCEPT ![r] = loc[r]]
  /\ cancel' = [cancel EXCEPT ![r] = TRUE]

StartDrive(r) ==
  /\ state[r] = "STILL"
  /\ trips[r] < MaxTrips[r]
  /\ trips' = [trips EXCEPT ![r] = @ + 1]
  /\ \E c \in Goals[r] \cup {Anchor[r]} :
       /\ c # loc[r]
       /\ goal' = [goal EXCEPT ![r] = c]
       /\ nav' = [nav EXCEPT ![r] = c]
       /\ TransitionTo(r, IF c = Anchor[r] THEN "RETURN_NAV" ELSE "NAVIGATE")
  /\ UNCHANGED << resume, banked, loc, cancel, track, driven >>

\* Slip: read after the transition to the hold.
InterruptedLate(r) == "PROXIMITY_HOLD"

\* The drive to come back to.
Interrupted(r) == state[r]

EnterHold(r) ==
  /\ Driving(r)
  /\ MustHold(r, FALSE)
  /\ resume' = [resume EXCEPT ![r] = Interrupted(r)]
  /\ banked' = [banked EXCEPT ![r] = elapsed[r]]
  /\ Stop(r)
  /\ TransitionTo(r, "PROXIMITY_HOLD")
  /\ UNCHANGED << goal, loc, track, driven, trips >>

\* Slip: the resumed drive starts its budget afresh.
RestartTime(r) == 0

\* The time the drive had consumed when the hold began.
ResumedTime(r) == banked[r]

TimedOut(r) == MaxHold > 0 /\ elapsed[r] >= MaxHold

Release(r) ==
  /\ Holding(r)
  /\ ~ MustHold(r, TRUE) \/ TimedOut(r)
  /\ state' = [state EXCEPT ![r] = resume[r]]
  /\ elapsed' = [elapsed EXCEPT ![r] = ResumedTime(r)]
  /\ nav' = [nav EXCEPT ![r] = goal[r]]
  /\ UNCHANGED << resume, banked, goal, loc, cancel, track, driven, trips >>

\* The drive ends: the platform is there, its budget is spent, or it makes no
\* progress.  NAVIGATE stops the platform when it gives up on a goal, and has
\* nothing to stop when it is there; RETURN_NAV leaves nav2 as it is.
Arrived(r) == loc[r] = goal[r]
OverBudget(r) == ~ Arrived(r) /\ elapsed[r] > NavBudget

EndDrive(r) ==
  /\ Driving(r)
  /\ ~ MustHold(r, FALSE)
  /\ IF state[r] = "NAVIGATE" /\ ~ Arrived(r) THEN Stop(r) ELSE UNCHANGED << nav, cancel >>
  /\ TransitionTo(r, "STILL")
  /\ driven' = [driven EXCEPT ![r] = 0]
  /\ UNCHANGED << resume, banked, goal, loc, track, trips >>

Arrive(r)     == Arrived(r) /\ EndDrive(r)
SpendTime(r)  == OverBudget(r) /\ EndDrive(r)
NoProgress(r) == ~ Arrived(r) /\ EndDrive(r)

\* republishGoal, the keep-alive of a drive.
Republish(r) ==
  /\ Driving(r)
  /\ ~ MustHold(r, FALSE)
  /\ nav[r] # goal[r]
  /\ nav' = [nav EXCEPT ![r] = goal[r]]
  /\ UNCHANGED << state, resume, elapsed, banked, goal, loc, cancel, track, driven, trips >>

\* The cancel is asynchronous: nav2 drops whatever goal it has by then.
CancelLands(r) ==
  /\ cancel[r]
  /\ cancel' = [cancel EXCEPT ![r] = FALSE]
  /\ nav' = [nav EXCEPT ![r] = loc[r]]
  /\ UNCHANGED << state, resume, elapsed, banked, goal, loc, track, driven, trips >>

----------------------------------------------------------------------------
\* A planner has a transition to make at this instant.
Due(r) ==
  \/ Driving(r) /\ (MustHold(r, FALSE) \/ Arrived(r) \/ OverBudget(r))
  \/ Holding(r) /\ (~ MustHold(r, TRUE) \/ TimedOut(r))

Older(n, cap) == IF n < cap THEN n + 1 ELSE n

\* Time passes for everybody, and the platforms that have a goal move, unless
\* something is in their way.
Clock ==
  /\ \A r \in Robot : ~ Due(r)
  /\ \E M \in SUBSET {r \in Robot : nav[r] # loc[r]} :
       loc' = [r \in Robot |-> IF r \in M THEN Step[loc[r]][nav[r]] ELSE loc[r]]
  /\ elapsed' = [r \in Robot |->
       IF state[r] = "STILL" THEN 0 ELSE Older(elapsed[r], TimeCap)]
  /\ track' = [r \in Robot |-> [p \in Robot |->
       [track[r][p] EXCEPT !.seen = IF track[r][p].known THEN Older(@, SeenCap) ELSE @,
                           !.still = IF track[r][p].known THEN Older(@, StillCap) ELSE @]]]
  /\ driven' = [r \in Robot |-> IF Driving(r) THEN driven[r] + 1 ELSE driven[r]]
  /\ UNCHANGED << state, resume, banked, goal, nav, cancel, trips >>
----------------------------------------------------------------------------
Tick(r) == StartDrive(r) \/ EnterHold(r) \/ Release(r) \/ Arrive(r) \/ SpendTime(r)

Next ==
  \/ \E r \in Robot : \/ Tick(r) \/ NoProgress(r) \/ Republish(r) \/ CancelLands(r)
                     \/ \E p \in Robot : OnPeerPose(r, p)
  \/ Clock

Spec == Init /\ [][Next]_vars

(***************************************************************************)
(* The timer ticks and the clock runs.  Nobody promises that a pose        *)
(* arrives, that nav2 moves, or that a drive makes progress.               *)
(***************************************************************************)
Fairness ==
  /\ WF_vars(Clock)
  /\ \A r \in Robot : WF_vars(EnterHold(r) \/ Release(r) \/ Arrive(r) \/ SpendTime(r))

FairSpec == Spec /\ Fairness

----------------------------------------------------------------------------
\* A held robot has no goal to roll to, however late its cancel lands, and what
\* it resumes is the drive it interrupted: a drive home goes on as one.
HoldKeepsDrive ==
  \A r \in Robot :
    /\ Holding(r) => nav[r] = loc[r]
    /\ Holding(r) => (resume[r] = "RETURN_NAV" <=> goal[r] = Anchor[r])
    /\ Driving(r) => (state[r] = "RETURN_NAV" <=> goal[r] = Anchor[r])

\* Over any number of holds a goal is driven for no longer than its budget and
\* the one unit in which the excess is noticed: a hold refunds its own time only.
BudgetContinues == \A r \in Robot : driven[r] =< NavBudget + 1

\* The hysteresis: a hold that the guard itself releases is not taken up again
\* at that very moment.
NoChatter ==
  [][\A r \in Robot :
       Holding(r) /\ ~ TimedOut(r) /\ Driving(r)' => ~ MustHold(r, FALSE)']_vars

\* Every drive ends, in spite of every hold on the way: "the caller's max-hold
\* escape hatch is the deadlock breaker".
DriveEnds == \A r \in Robot : Driving(r) \/ Holding(r) ~> state[r] = "STILL"

\* The invariant abandonNavGoal states: outside a drive the platform is not
\* being driven.
OffGuardStands == \A r \in Robot : state[r] = "STILL" => nav[r] = loc[r]

=============================================================================
