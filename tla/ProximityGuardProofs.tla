------------------------- MODULE ProximityGuardProofs ------------------------
(***************************************************************************)
(* The proximity stop for every team, ground and set of thresholds: types, *)
(* the drive that survives a hold, the budget that a hold does not refund, *)
(* and the hysteresis.                                                     *)
(***************************************************************************)
EXTENDS ProximityGuard, WellFoundedInduction, TLAPS

USE RobotAssumption, GroundAssumption, ThresholdAssumption

LEMMA CapTypes == SeenCap \in Nat \ {0} /\ StillCap \in Nat \ {0} /\ TimeCap \in Nat \ {0}
BY DEF SeenCap, StillCap, TimeCap, Larger

LEMMA OlderType ==
  ASSUME NEW cap \in Nat, NEW n \in 0 .. cap
  PROVE  Older(n, cap) \in 0 .. cap
BY DEF Older

LEMMA SightedType ==
  ASSUME NEW t \in Track, NEW c \in Cell
  PROVE  Sighted(t, c) \in Track
<1>1. 0 \in 0 .. SeenCap /\ 0 \in 0 .. StillCap
  BY CapTypes
<1>2. [known |-> TRUE, pos |-> c, anchor |-> c, seen |-> 0, still |-> 0] \in Track
  BY <1>1 DEF Track
<1>3. /\ [t EXCEPT !.pos = c, !.seen = 0, !.anchor = c, !.still = 0] \in Track
      /\ [t EXCEPT !.pos = c, !.seen = 0] \in Track
  BY <1>1 DEF Track
<1> QED
  BY <1>2, <1>3 DEF Sighted

----------------------------------------------------------------------------
LEMMA InitType == Init => TypeOK
BY CapTypes DEF Init, TypeOK, NoTrack, Track, State, DriveState

\* Every action keeps the types: one step per action.
LEMMA StepType == TypeOK /\ [Next]_vars => TypeOK'
<1> SUFFICES ASSUME TypeOK, [Next]_vars PROVE TypeOK'
  OBVIOUS
<1> USE CapTypes
<1>1. ASSUME NEW r \in Robot, StartDrive(r) PROVE TypeOK'
  BY <1>1 DEF StartDrive, TransitionTo, TypeOK, State, DriveState
<1>2. ASSUME NEW r \in Robot, EnterHold(r) PROVE TypeOK'
  BY <1>2 DEF EnterHold, Driving, Interrupted, Stop, TransitionTo, TypeOK, State, DriveState
<1>3. ASSUME NEW r \in Robot, Release(r) PROVE TypeOK'
  BY <1>3 DEF Release, ResumedTime, TypeOK, State
<1>4. ASSUME NEW r \in Robot, EndDrive(r) PROVE TypeOK'
  <2>1. \/ Stop(r)
        \/ UNCHANGED << nav, cancel >>
    BY <1>4, Zenon DEF EndDrive
  <2>2. nav' \in [Robot -> Cell] /\ cancel' \in [Robot -> BOOLEAN]
    <3>1. CASE Stop(r)
      BY <3>1 DEF Stop, TypeOK
    <3>2. CASE UNCHANGED << nav, cancel >>
      BY <3>2 DEF TypeOK
    <3> QED
      BY <2>1, <3>1, <3>2
  <2>3. /\ TransitionTo(r, "STILL")
        /\ driven' = [driven EXCEPT ![r] = 0]
        /\ UNCHANGED << resume, banked, goal, loc, track, trips >>
    BY <1>4, Zenon DEF EndDrive
  <2> QED
    BY <2>2, <2>3 DEF TransitionTo, TypeOK, State
<1>5. ASSUME NEW r \in Robot, Republish(r) PROVE TypeOK'
  BY <1>5 DEF Republish, TypeOK
<1>6. ASSUME NEW r \in Robot, CancelLands(r) PROVE TypeOK'
  BY <1>6 DEF CancelLands, TypeOK
<1>7. ASSUME NEW r \in Robot, NEW p \in Robot, OnPeerPose(r, p) PROVE TypeOK'
  <2>1. Sighted(track[r][p], loc[p]) \in Track
    BY SightedType DEF TypeOK
  <2> QED
    BY <1>7, <2>1 DEF OnPeerPose, TypeOK
<1>8. CASE Clock
  <2>1. loc' \in [Robot -> Cell]
    <3>1. \A a, b \in Cell : Step[a][b] \in Cell
      BY DEF TypeOK
    <3>2. PICK M \in SUBSET Robot :
            loc' = [r \in Robot |-> IF r \in M THEN Step[loc[r]][nav[r]] ELSE loc[r]]
      BY <1>8 DEF Clock
    <3> QED
      BY <3>1, <3>2 DEF TypeOK
  <2>2. elapsed' \in [Robot -> 0 .. TimeCap]
    <3>1. \A r \in Robot : Older(elapsed[r], TimeCap) \in 0 .. TimeCap
      BY OlderType DEF TypeOK
    <3>2. elapsed' = [r \in Robot |->
            IF state[r] = "STILL" THEN 0 ELSE Older(elapsed[r], TimeCap)]
      BY <1>8 DEF Clock
    <3> QED
      BY <3>1, <3>2
  <2>3. track' \in [Robot -> [Robot -> Track]]
    <3>1. ASSUME NEW r \in Robot, NEW p \in Robot PROVE track'[r][p] \in Track
      <4> DEFINE t == track[r][p]
      <4>1. t \in Track /\ t.seen \in 0 .. SeenCap /\ t.still \in 0 .. StillCap
        BY DEF TypeOK, Track
      <4>2. Older(t.seen, SeenCap) \in 0 .. SeenCap /\ Older(t.still, StillCap) \in 0 .. StillCap
        BY <4>1, OlderType
      <4>3. track'[r][p] = [t EXCEPT !.seen = IF t.known THEN Older(@, SeenCap) ELSE @,
                                     !.still = IF t.known THEN Older(@, StillCap) ELSE @]
        BY <1>8 DEF Clock
      <4> HIDE DEF t
      <4> QED
        BY <4>1, <4>2, <4>3 DEF Track
    <3>2. track' = [r \in Robot |-> [p \in Robot |-> track'[r][p]]]
      BY <1>8 DEF Clock
    <3> QED
      BY <3>1, <3>2
  <2>4. driven' \in [Robot -> Nat]
    <3>1. driven' = [r \in Robot |-> IF Driving(r) THEN driven[r] + 1 ELSE driven[r]]
      BY <1>8 DEF Clock
    <3>2. \A r \in Robot : driven[r] \in Nat
      BY DEF TypeOK
    <3> QED
      BY <3>1, <3>2
  <2> QED
    BY <1>8, <2>1, <2>2, <2>3, <2>4 DEF Clock, TypeOK
<1>9. CASE UNCHANGED vars
  BY <1>9 DEF vars, TypeOK
<1> QED
  BY <1>1, <1>2, <1>3, <1>4, <1>5, <1>6, <1>7, <1>8, <1>9
  DEF Next, Tick, Arrive, SpendTime, NoProgress

(***************************************************************************)
(* Every variable of the proximity stop keeps its type.                    *)
(***************************************************************************)
THEOREM TypeCorrect == Spec => []TypeOK
BY InitType, StepType, PTL DEF Spec

----------------------------------------------------------------------------
LEMMA StepHoldKeepsDrive == TypeOK /\ HoldKeepsDrive /\ [Next]_vars => HoldKeepsDrive'
<1> SUFFICES ASSUME TypeOK, HoldKeepsDrive, [Next]_vars PROVE HoldKeepsDrive'
  OBVIOUS
<1> USE DEF HoldKeepsDrive, Holding, Driving, DriveState, TypeOK
<1>1. ASSUME NEW r \in Robot, StartDrive(r) PROVE HoldKeepsDrive'
  BY <1>1 DEF StartDrive, TransitionTo
<1>2. ASSUME NEW r \in Robot, EnterHold(r) PROVE HoldKeepsDrive'
  BY <1>2 DEF EnterHold, Interrupted, Stop, TransitionTo
<1>3. ASSUME NEW r \in Robot, Release(r) PROVE HoldKeepsDrive'
  BY <1>3 DEF Release
<1>4. ASSUME NEW r \in Robot, EndDrive(r) PROVE HoldKeepsDrive'
  BY <1>4 DEF EndDrive, Stop, TransitionTo
<1>5. ASSUME NEW r \in Robot, Republish(r) PROVE HoldKeepsDrive'
  BY <1>5 DEF Republish
<1>6. ASSUME NEW r \in Robot, CancelLands(r) PROVE HoldKeepsDrive'
  BY <1>6 DEF CancelLands
<1>7. ASSUME NEW r \in Robot, NEW p \in Robot, OnPeerPose(r, p) PROVE HoldKeepsDrive'
  BY <1>7 DEF OnPeerPose
<1>8. CASE Clock
  <2>1. \A r \in Robot : nav[r] = loc[r] => loc'[r] = loc[r]
    BY <1>8 DEF Clock
  <2> QED
    BY <1>8, <2>1 DEF Clock
<1>9. CASE UNCHANGED vars
  BY <1>9 DEF vars
<1> QED
  BY <1>1, <1>2, <1>3, <1>4, <1>5, <1>6, <1>7, <1>8, <1>9
  DEF Next, Tick, Arrive, SpendTime, NoProgress

(***************************************************************************)
(* A held robot stands still and comes back to the drive it interrupted:   *)
(* the brake goal stops it whether or not its cancel arrives.              *)
(***************************************************************************)
THEOREM HoldAlwaysKeepsDrive == Spec => []HoldKeepsDrive
<1>1. Init => HoldKeepsDrive
  BY DEF Init, HoldKeepsDrive, Holding, Driving, DriveState
<1> QED
  BY <1>1, TypeCorrect, StepHoldKeepsDrive, PTL DEF Spec

----------------------------------------------------------------------------
\* The time driven for a goal is the time on the drive's clock, or in the bank
\* while the drive is held, and neither passes the budget by more than a unit.
TimeKept(r) ==
  LET time == IF Holding(r) THEN banked[r] ELSE elapsed[r]
  IN  /\ driven[r] = IF state[r] = "STILL" THEN 0 ELSE time
      /\ state[r] # "STILL" => time =< NavBudget + 1

BudgetInv == \A r \in Robot : TimeKept(r)

LEMMA BudgetInvImplies == TypeOK /\ BudgetInv => BudgetContinues
<1> SUFFICES ASSUME TypeOK, BudgetInv, NEW r \in Robot PROVE driven[r] =< NavBudget + 1
  BY DEF BudgetContinues
<1>1. TimeKept(r)
  BY DEF BudgetInv
<1> QED
  BY <1>1 DEF TimeKept

\* A robot whose clock, bank, state and history stay keeps its time.
LEMMA SameTime ==
  ASSUME NEW r \in Robot, TimeKept(r), state'[r] = state[r], elapsed'[r] = elapsed[r],
         banked'[r] = banked[r], driven'[r] = driven[r]
  PROVE  TimeKept(r)'
BY DEF TimeKept, Holding

LEMMA StepBudget == TypeOK /\ BudgetInv /\ [Next]_vars => BudgetInv'
<1> SUFFICES ASSUME TypeOK, BudgetInv, [Next]_vars, NEW x \in Robot PROVE TimeKept(x)'
  BY DEF BudgetInv
<1>0. TimeKept(x)
  BY DEF BudgetInv
<1>1. ASSUME NEW r \in Robot, StartDrive(r) PROVE TimeKept(x)'
  <2>1. CASE x = r
    BY <1>0, <1>1, <2>1 DEF StartDrive, TransitionTo, TimeKept, Holding, TypeOK
  <2>2. CASE x # r
    BY <1>0, <1>1, <2>2, SameTime DEF StartDrive, TransitionTo, TypeOK
  <2> QED
    BY <2>1, <2>2
<1>2. ASSUME NEW r \in Robot, EnterHold(r) PROVE TimeKept(x)'
  <2>1. CASE x = r
    BY <1>0, <1>2, <2>1
    DEF EnterHold, Driving, DriveState, TransitionTo, TimeKept, Holding, TypeOK
  <2>2. CASE x # r
    BY <1>0, <1>2, <2>2, SameTime DEF EnterHold, TransitionTo, TypeOK
  <2> QED
    BY <2>1, <2>2
<1>3. ASSUME NEW r \in Robot, Release(r) PROVE TimeKept(x)'
  <2>1. CASE x = r
    BY <1>0, <1>3, <2>1
    DEF Release, ResumedTime, TimeKept, Holding, TypeOK, DriveState
  <2>2. CASE x # r
    BY <1>0, <1>3, <2>2, SameTime DEF Release, TypeOK
  <2> QED
    BY <2>1, <2>2
<1>4. ASSUME NEW r \in Robot, EndDrive(r) PROVE TimeKept(x)'
  <2>1. CASE x = r
    BY <1>0, <1>4, <2>1 DEF EndDrive, TransitionTo, TimeKept, Holding, TypeOK
  <2>2. CASE x # r
    BY <1>0, <1>4, <2>2, SameTime DEF EndDrive, TransitionTo, TypeOK
  <2> QED
    BY <2>1, <2>2
<1>5. ASSUME NEW r \in Robot, Republish(r) \/ CancelLands(r) PROVE TimeKept(x)'
  BY <1>0, <1>5, SameTime DEF Republish, CancelLands
<1>6. ASSUME NEW r \in Robot, NEW p \in Robot, OnPeerPose(r, p) PROVE TimeKept(x)'
  BY <1>0, <1>6, SameTime DEF OnPeerPose
<1>7. CASE Clock
  <2>1. /\ state'[x] = state[x] /\ banked'[x] = banked[x]
        /\ elapsed'[x] = IF state[x] = "STILL" THEN 0 ELSE Older(elapsed[x], TimeCap)
        /\ driven'[x] = IF Driving(x) THEN driven[x] + 1 ELSE driven[x]
        /\ ~ Due(x)
    BY <1>7 DEF Clock, TypeOK
  <2>2. state[x] \in State /\ elapsed[x] \in 0 .. TimeCap /\ banked[x] \in 0 .. TimeCap
    BY DEF TypeOK
  <2>3. CASE Driving(x)
    <3>0. ~ Arrived(x) /\ ~ OverBudget(x)
      BY <2>1, <2>3 DEF Due
    <3>1. elapsed[x] =< NavBudget
      BY <2>2, <3>0, CapTypes DEF OverBudget
    <3>2. Older(elapsed[x], TimeCap) = elapsed[x] + 1
      BY <2>2, <3>1 DEF Older, TimeCap, Larger
    <3>3. driven[x] = elapsed[x] /\ ~ Holding(x) /\ state[x] # "STILL"
      BY <1>0, <2>3 DEF TimeKept, Driving, DriveState, Holding
    <3> QED
      BY <2>1, <2>2, <2>3, <3>1, <3>2, <3>3 DEF TimeKept, Holding
  <2>4. CASE Holding(x)
    BY <1>0, <2>1, <2>4 DEF TimeKept, Holding, Driving, DriveState
  <2>5. CASE state[x] = "STILL"
    BY <1>0, <2>1, <2>5 DEF TimeKept, Holding, Driving, DriveState
  <2> QED
    BY <2>2, <2>3, <2>4, <2>5 DEF State, Driving, Holding
<1>8. CASE UNCHANGED vars
  BY <1>0, <1>8, SameTime DEF vars
<1> QED
  BY <1>1, <1>2, <1>3, <1>4, <1>5, <1>6, <1>7, <1>8
  DEF Next, Tick, Arrive, SpendTime, NoProgress

(***************************************************************************)
(* The drive for one goal is bounded by its budget over any number of      *)
(* holds: the time in the bank is the time driven.                         *)
(***************************************************************************)
THEOREM BudgetAlwaysContinues == Spec => []BudgetContinues
<1>1. Init => BudgetInv
  BY DEF Init, BudgetInv, TimeKept, Holding
<1> QED
  BY <1>1, TypeCorrect, StepBudget, BudgetInvImplies, PTL DEF Spec

----------------------------------------------------------------------------
\* What starts a hold keeps it up: the thresholds of a hold are the wider ones.
LEMMA HoldIsWider ==
  ASSUME TypeOK, PoseStale =< HoldStale, NEW r \in Robot, MustHold(r, FALSE)
  PROVE  MustHold(r, TRUE)
<1>1. PICK p \in Robot : /\ track[r][p].known
                         /\ p < r
                         /\ Fresh(r, p, FALSE) /\ ~ Parked(r, p) /\ Near(r, p, FALSE)
  BY DEF MustHold
<1>2. track[r][p].seen \in Nat /\ track[r][p].pos \in Cell /\ loc[r] \in Cell
  BY CapTypes DEF TypeOK, Track
<1>3. Dist[loc[r]][track[r][p].pos] \in Nat
  BY <1>2
<1>4. Fresh(r, p, TRUE)
  BY <1>1, <1>2 DEF Fresh
<1>5. Near(r, p, TRUE)
  BY <1>1, <1>3 DEF Near, ResumeDist
<1> QED
  BY <1>1, <1>4, <1>5 DEF MustHold

(***************************************************************************)
(* The guard never takes up at once a hold it has just released, whatever  *)
(* distances are configured, provided that poses go stale for a hold no    *)
(* sooner than they do for starting one.                                   *)
(***************************************************************************)
THEOREM NeverChatters == ASSUME PoseStale =< HoldStale PROVE Spec => NoChatter
<1>1. TypeOK /\ [Next]_vars =>
        [\A r \in Robot :
           Holding(r) /\ ~ TimedOut(r) /\ Driving(r)' => ~ MustHold(r, FALSE)']_vars
  <2> SUFFICES ASSUME TypeOK, Next, NEW r \in Robot, Holding(r), ~ TimedOut(r), Driving(r)',
                      MustHold(r, FALSE)'
               PROVE  FALSE
    BY DEF vars
  <2>1. state'[r] # state[r]
    BY DEF Driving, DriveState, Holding
  <2>2. Release(r)
    <3>1. ASSUME NEW x \in Robot, x # r, Tick(x) \/ NoProgress(x) \/ Republish(x) \/ CancelLands(x)
          PROVE  FALSE
      BY <2>1, <3>1
      DEF Tick, StartDrive, EnterHold, Release, Arrive, SpendTime, NoProgress, EndDrive,
          TransitionTo, Republish, CancelLands, TypeOK
    <3>2. ASSUME Tick(r) \/ NoProgress(r) \/ Republish(r) \/ CancelLands(r)
          PROVE  Release(r)
      BY <3>2
      DEF Tick, StartDrive, EnterHold, Arrive, SpendTime, NoProgress, EndDrive, Republish,
          CancelLands, Driving, DriveState, Holding, TypeOK
    <3> QED
      BY <2>1, <3>1, <3>2 DEF Next, OnPeerPose, Clock
  <2>3. ~ MustHold(r, TRUE) /\ track' = track /\ loc' = loc
    BY <2>2 DEF Release
  <2>4. MustHold(r, FALSE)
    BY <2>3 DEF MustHold, Fresh, Parked, Near
  <2> QED
    BY <2>3, <2>4, HoldIsWider
<1> QED
  BY <1>1, TypeCorrect, PTL DEF Spec, NoChatter

----------------------------------------------------------------------------
\* Right of way never closes a circle: a held robot waits for the moves of one
\* that goes before it and is not held itself.
SomebodyGoesFirst ==
  \A r \in Robot : Holding(r) => \E p \in Robot : p < r /\ ~ Holding(p)

\* proximity_max_hold_sec bounds a single hold, to the unit of the clock.
HoldIsBounded ==
  MaxHold > 0 => \A r \in Robot : Holding(r) => elapsed[r] =< MaxHold

\* What the two need: somebody goes before a held robot.
HoldInv ==
  /\ \A r \in Robot : Holding(r) => \E p \in Robot : p < r
  /\ HoldIsBounded

\* Holds begin in EnterHold and grow old by the clock alone.
LEMMA HoldComesFrom ==
  ASSUME TypeOK, Next, NEW x \in Robot, Holding(x)'
  PROVE  \/ MustHold(x, FALSE) /\ elapsed'[x] = 0
         \/ Holding(x) /\ elapsed'[x] = elapsed[x]
         \/ Holding(x) /\ ~ TimedOut(x) /\ elapsed'[x] = Older(elapsed[x], TimeCap)
<1> SUFFICES ASSUME ~ (MustHold(x, FALSE) /\ elapsed'[x] = 0),
                    ~ (Holding(x) /\ elapsed'[x] = elapsed[x]),
                    ~ (Holding(x) /\ ~ TimedOut(x) /\ elapsed'[x] = Older(elapsed[x], TimeCap))
             PROVE  FALSE
  OBVIOUS
<1> USE DEF Holding
<1>1. ASSUME NEW r \in Robot, StartDrive(r) PROVE FALSE
  BY <1>1 DEF StartDrive, TransitionTo, TypeOK
<1>2. ASSUME NEW r \in Robot, EnterHold(r) PROVE FALSE
  BY <1>2 DEF EnterHold, TransitionTo, TypeOK
<1>3. ASSUME NEW r \in Robot, Release(r) PROVE FALSE
  BY <1>3 DEF Release, TypeOK, DriveState
<1>4. ASSUME NEW r \in Robot, EndDrive(r) PROVE FALSE
  BY <1>4 DEF EndDrive, TransitionTo, TypeOK
<1>5. ASSUME NEW r \in Robot, Republish(r) \/ CancelLands(r) PROVE FALSE
  BY <1>5 DEF Republish, CancelLands
<1>6. ASSUME NEW r \in Robot, NEW p \in Robot, OnPeerPose(r, p) PROVE FALSE
  BY <1>6 DEF OnPeerPose
<1>7. CASE Clock
  BY <1>7 DEF Clock, Due
<1> QED
  BY <1>1, <1>2, <1>3, <1>4, <1>5, <1>6, <1>7
  DEF Next, Tick, Arrive, SpendTime, NoProgress

LEMMA StepHold == TypeOK /\ HoldInv /\ [Next]_vars => HoldInv'
<1> SUFFICES ASSUME TypeOK, HoldInv, [Next]_vars PROVE HoldInv'
  OBVIOUS
<1>1. CASE UNCHANGED vars
  BY <1>1 DEF vars, HoldInv, HoldIsBounded, Holding
<1>2. CASE Next
  <2>1. ASSUME NEW x \in Robot, Holding(x)' PROVE \E p \in Robot : p < x
    BY <1>2, <2>1, HoldComesFrom DEF HoldInv, MustHold
  <2>2. ASSUME MaxHold > 0, NEW x \in Robot, Holding(x)' PROVE elapsed'[x] =< MaxHold
    <3>1. elapsed[x] \in 0 .. TimeCap /\ TimeCap \in Nat
      BY CapTypes DEF TypeOK
    <3>2. CASE Holding(x) /\ ~ TimedOut(x) /\ elapsed'[x] = Older(elapsed[x], TimeCap)
      BY <2>2, <3>1, <3>2 DEF TimedOut, Older
    <3>3. CASE Holding(x) /\ elapsed'[x] = elapsed[x]
      BY <2>2, <3>3 DEF HoldInv, HoldIsBounded
    <3>4. CASE MustHold(x, FALSE) /\ elapsed'[x] = 0
      BY <2>2, <3>4
    <3> QED
      BY <1>2, <2>2, <3>2, <3>3, <3>4, HoldComesFrom
  <2> QED
    BY <2>1, <2>2 DEF HoldInv, HoldIsBounded
<1> QED
  BY <1>1, <1>2

LEMMA LeastRobot ==
  ASSUME Robot # {}
  PROVE  \E m \in Robot : \A p \in Robot : m =< p
<1> DEFINE R == OpToRel(<, Nat)
<1>1. R = {ss \in Nat \X Nat : ss[1] < ss[2]}
  BY Zenon DEF OpToRel
<1>2. PICK m \in Robot : \A p \in Robot : << p, m >> \notin R
  BY NatLessThanWellFounded, WFMin, Zenon
<1> HIDE DEF R
<1>3. ASSUME NEW p \in Robot PROVE m =< p
  <2>1. m \in Nat /\ p \in Nat /\ << p, m >> \notin R
    BY <1>2
  <2> QED
    BY <1>1, <2>1
<1> QED
  BY <1>3

\* The least robot has nobody before it and is not held.
LEMMA HoldInvImplies == TypeOK /\ HoldInv => SomebodyGoesFirst /\ HoldIsBounded
<1> SUFFICES ASSUME TypeOK, HoldInv, NEW r \in Robot, Holding(r)
             PROVE  \E p \in Robot : p < r /\ ~ Holding(p)
  BY DEF HoldInv, SomebodyGoesFirst
<1>1. PICK m \in Robot : \A p \in Robot : m =< p
  BY LeastRobot
<1>2. ~ Holding(m) /\ m # r
  <2>1. \A p \in Robot : ~ (p < m)
    BY <1>1
  <2> QED
    BY <2>1 DEF HoldInv
<1>3. m < r
  BY <1>1, <1>2
<1> QED
  BY <1>2, <1>3

(***************************************************************************)
(* In no team of any size do the robots hold for each other in a circle,   *)
(* nor all at once: a hold waits for a robot with right of way that is     *)
(* free to go.  And no hold outlasts a configured bound.                   *)
(***************************************************************************)
THEOREM HoldsDissolve == Spec => [](SomebodyGoesFirst /\ HoldIsBounded)
<1>1. Init => HoldInv
  BY DEF Init, HoldInv, HoldIsBounded, Holding
<1> QED
  BY <1>1, TypeCorrect, StepHold, HoldInvImplies, PTL DEF Spec
=============================================================================
