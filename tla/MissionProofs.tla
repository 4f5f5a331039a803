---------------------------- MODULE MissionProofs ----------------------------
(***************************************************************************)
(* The scheduler and the planners together.  Every behaviour of a mission  *)
(* is one of the scheduler and one of the planners' loop, so what is       *)
(* proved of them holds in it, for every schedule, launch and start of     *)
(* playback.                                                               *)
(***************************************************************************)
EXTENDS Mission, ExplorationLoopProofs

USE SchedulerAssumption

----------------------------------------------------------------------------
\* What the scheduler publishes.
LEMMA HeadTail ==
  ASSUME NEW S, NEW s \in Seq(S), s # << >>
  PROVE  Head(s) \in S /\ Tail(s) \in Seq(S) /\ Len(Tail(s)) = Len(s) - 1
OBVIOUS

LEMMA KeepLastType ==
  ASSUME NEW S, NEW s \in Seq(S)
  PROVE  KeepLast(s) \in Seq(S) /\ Len(KeepLast(s)) =< TopicDepth
<1>1. Len(s) \in Nat /\ TopicDepth \in Nat
  OBVIOUS
<1>2. CASE Len(s) > TopicDepth
  <2> DEFINE m == Len(s) - TopicDepth + 1
  <2>1. m \in 1 .. Len(s) /\ Len(s) \in 1 .. Len(s)
    BY <1>1, <1>2
  <2>2. SubSeq(s, m, Len(s)) \in Seq(S) /\ Len(SubSeq(s, m, Len(s))) = Len(s) - m + 1
    BY <1>1, <2>1
  <2>3. Len(s) - m + 1 = TopicDepth
    BY <1>1
  <2> QED
    BY <1>2, <2>2, <2>3 DEF KeepLast
<1>3. CASE ~ Len(s) > TopicDepth
  BY <1>1, <1>3 DEF KeepLast
<1> QED
  BY <1>2, <1>3

LEMMA ConcatType ==
  ASSUME NEW S, NEW s \in Seq(S), NEW t \in Seq(S)
  PROVE  s \o t \in Seq(S)
OBVIOUS

LEMMA ElementType ==
  ASSUME NEW S, NEW s \in Seq(S), NEW i \in DOMAIN s
  PROVE  s[i] \in S
OBVIOUS

LEMMA EntryType ==
  ASSUME SchedulerTypeOK, NEW i \in DOMAIN schedule
  PROVE  schedule[i].id \in Target /\ schedule[i].release \in Nat
<1>1. schedule \in Seq([id : Target, release : Nat])
  BY DEF SchedulerTypeOK, Schedule
<1>2. schedule[i] \in [id : Target, release : Nat]
  BY <1>1, ElementType
<1> QED
  BY <1>2

LEMMA IdsType ==
  ASSUME SchedulerTypeOK, NEW f \in Released
  PROVE  Ids(f) \in Seq(Target)
<1>1. Due \subseteq DOMAIN schedule
  BY DEF Due
<1>2. DOMAIN schedule = 1 .. Len(schedule) /\ Len(schedule) \in Nat
  BY DEF SchedulerTypeOK, Schedule
<1>3. IsFiniteSet(Due)
  <2>1. IsFiniteSet(1 .. Len(schedule))
    BY <1>2, FS_Interval
  <2> QED
    BY <1>1, <1>2, <2>1, FS_Subset
<1>4. Cardinality(Due) \in Nat
  BY <1>3, FS_CardinalityType
<1>5. f \in [1 .. Cardinality(Due) -> Due]
  BY DEF Released
<1>6. \A n \in 1 .. Cardinality(Due) : schedule[f[n]].id \in Target
  BY <1>1, <1>5, EntryType
<1>7. Ids(f) = [n \in 1 .. Cardinality(Due) |-> schedule[f[n]].id]
  BY <1>5 DEF Ids
<1> QED
  BY <1>4, <1>6, <1>7

\* The clock only reads stamps of the recording, the origin is one of them,
\* and what has been published was due by it.
SchedulerInv ==
  /\ SchedulerTypeOK
  /\ started =< clock /\ (started = 0 => clock = 0)
  /\ origin # 0 => started =< origin /\ origin =< clock
  /\ ReleasedOnTime

LEMMA SchedulerInitInv == SchedulerInit => SchedulerInv
BY DEF SchedulerInit, SchedulerInv, SchedulerTypeOK, ReleasedOnTime, Schedule

LEMMA SchedulerStep ==
  ASSUME SchedulerInv, [SchedulerNext]_schedulerVars
  PROVE  SchedulerInv'
<1>t. /\ SchedulerTypeOK
      /\ \A i \in DOMAIN schedule : schedule[i].release \in Nat
  BY EntryType DEF SchedulerInv
<1>1. ASSUME NEW f \in Released, ScheduleTick(f)
      PROVE  SchedulerInv'
  <2>1. /\ UNCHANGED << schedule, valid, clock, started >>
        /\ valid /\ clock > 0
        /\ origin' = Origin /\ published' = published \cup Due
        /\ topic' = KeepLast(topic \o Ids(f))
    BY <1>1 DEF ScheduleTick, scheduleVars
  <2>2. topic \o Ids(f) \in Seq(Target)
    BY <1>t, <1>1, IdsType, ConcatType DEF SchedulerTypeOK
  <2>3. topic' \in Seq(Target) /\ Len(topic') =< TopicDepth
    BY <2>1, <2>2, KeepLastType
  <2>4. Origin \in Nat /\ Origin # 0 /\ started =< Origin /\ Origin =< clock
    BY <2>1 DEF Origin, SchedulerInv, SchedulerTypeOK
  <2>5. ASSUME NEW i \in Due
        PROVE  clock >= started + schedule[i].release
    <3>1. clock - Origin >= schedule[i].release /\ i \in DOMAIN schedule
      BY DEF Due
    <3> QED
      BY <1>t, <2>4, <3>1 DEF SchedulerTypeOK
  <2>6. ReleasedOnTime'
    BY <2>1, <2>5 DEF ReleasedOnTime, SchedulerInv, SchedulerTypeOK
  <2>7. SchedulerTypeOK'
    BY <1>t, <2>1, <2>3, <2>4 DEF SchedulerTypeOK, Due
  <2> QED
    BY <2>1, <2>4, <2>6, <2>7 DEF SchedulerInv
<1>2. CASE ClockStarts
  <2>1. PICK stamp \in Stamps : clock' = stamp /\ started' = stamp
    BY <1>2 DEF ClockStarts
  <2>2. clock = 0 /\ UNCHANGED << schedule, valid, origin, published, topic >>
    BY <1>2 DEF ClockStarts, scheduleVars
  <2>3. started = 0
    BY <2>2 DEF SchedulerInv, SchedulerTypeOK
  <2>4. published = {} /\ origin = 0
    BY <1>t, <2>2, <2>3 DEF SchedulerInv, ReleasedOnTime, SchedulerTypeOK
  <2> QED
    BY <1>t, <2>1, <2>2, <2>4 DEF SchedulerInv, SchedulerTypeOK, ReleasedOnTime
<1>3. CASE ClockAdvances
  <2>1. clock' = clock + 1 /\ UNCHANGED << schedule, valid, started, origin, published, topic >>
    BY <1>3 DEF ClockAdvances, scheduleVars
  <2>2. ReleasedOnTime'
    BY <1>t, <2>1 DEF SchedulerInv, SchedulerTypeOK, ReleasedOnTime
  <2> QED
    BY <1>3, <2>1, <2>2 DEF ClockAdvances, SchedulerInv, SchedulerTypeOK
<1>4. CASE UNCHANGED schedulerVars
  BY <1>4 DEF schedulerVars, scheduleVars, SchedulerInv, SchedulerTypeOK, ReleasedOnTime
<1> QED
  BY <1>1, <1>2, <1>3, <1>4 DEF SchedulerNext

LEMMA SchedulerInvariant == SchedulerSpec => []SchedulerInv
BY SchedulerInitInv, SchedulerStep, PTL DEF SchedulerSpec

----------------------------------------------------------------------------
\* A mission is a behaviour of the scheduler.
LEMMA MissionSchedules == Spec => SchedulerSpec
<1>1. Init => SchedulerInit
  BY DEF Init
<1>2. [Next]_vars => [SchedulerNext]_schedulerVars
  <2>1. ReleaseTargets => SchedulerNext
    BY DEF ReleaseTargets, SchedulerNext
  <2>2. PassTime => SchedulerNext
    BY DEF PassTime, SchedulerNext
  <2>3. \/ PlannersStep \/ \E r \in Robot : StartPlanner(r) \/ TakeTarget(r)
        => UNCHANGED schedulerVars
    BY DEF PlannersStep, StartPlanner, TakeTarget
  <2>4. UNCHANGED vars => UNCHANGED schedulerVars
    BY DEF vars
  <2> QED
    BY <2>1, <2>2, <2>3, <2>4 DEF Next
<1> QED
  BY <1>1, <1>2, PTL DEF Spec, SchedulerSpec

\* Whatever the start of playback and its delay, no target goes out before
\* its time.
THEOREM ReleasesOnTime == Spec => []ReleasedOnTime
<1>1. SchedulerInv => ReleasedOnTime
  BY DEF SchedulerInv
<1> QED
  BY <1>1, MissionSchedules, SchedulerInvariant, PTL

\* The queues of the middleware hold targets, and no more than their depth.
InboxOK ==
  /\ inbox \in [Robot -> Seq(Target)]
  /\ \A r \in Robot : Len(inbox[r]) =< TopicDepth

LEMMA InboxStep ==
  ASSUME SchedulerInv, InboxOK, [Next]_vars
  PROVE  InboxOK'
<1>t. SchedulerTypeOK /\ topic \in Seq(Target) /\ Len(topic) =< TopicDepth
  BY DEF SchedulerInv, SchedulerTypeOK
<1>1. CASE ReleaseTargets
  <2>1. PICK f \in Released :
          inbox' = [r \in Robot |-> IF Up(r) /\ r \in setup.exploiters
                                    THEN KeepLast(inbox[r] \o Ids(f))
                                    ELSE inbox[r]]
    BY <1>1 DEF ReleaseTargets
  <2>2. ASSUME NEW r \in Robot
        PROVE  /\ KeepLast(inbox[r] \o Ids(f)) \in Seq(Target)
               /\ Len(KeepLast(inbox[r] \o Ids(f))) =< TopicDepth
    <3>1. inbox[r] \o Ids(f) \in Seq(Target)
      BY <1>t, IdsType, ConcatType DEF InboxOK
    <3> QED
      BY <3>1, KeepLastType
  <2> QED
    BY <2>1, <2>2 DEF InboxOK
<1>2. ASSUME NEW r \in Robot, StartPlanner(r)
      PROVE  InboxOK'
  <2>1. inbox' = [inbox EXCEPT ![r] = topic] \/ inbox' = [inbox EXCEPT ![r] = inbox[r]]
    BY <1>2 DEF StartPlanner, Latched
  <2> QED
    BY <1>t, <2>1 DEF InboxOK
<1>3. ASSUME NEW r \in Robot, TakeTarget(r)
      PROVE  InboxOK'
  <2>1. inbox' = [inbox EXCEPT ![r] = Tail(inbox[r])] /\ inbox[r] # << >>
    BY <1>3 DEF TakeTarget
  <2>2. Tail(inbox[r]) \in Seq(Target) /\ Len(Tail(inbox[r])) = Len(inbox[r]) - 1
    BY <2>1, HeadTail DEF InboxOK
  <2>3. Len(inbox[r]) \in Nat /\ Len(inbox[r]) =< TopicDepth
    BY DEF InboxOK
  <2>4. Len(Tail(inbox[r])) =< TopicDepth
    BY <2>2, <2>3
  <2> QED
    BY <2>1, <2>2, <2>4 DEF InboxOK
<1>4. CASE PassTime \/ PlannersStep \/ UNCHANGED vars
  BY <1>4 DEF PassTime, PlannersStep, vars, InboxOK
<1> QED
  BY <1>1, <1>2, <1>3, <1>4 DEF Next

LEMMA InboxInvariant == Spec => []InboxOK
<1>1. Init => InboxOK
  BY DEF Init, InboxOK
<1> QED
  BY <1>1, InboxStep, MissionSchedules, SchedulerInvariant, PTL DEF Spec

\* A mission is a behaviour of the planners' loop: whatever the topic delivers
\* is a target.
THEOREM MissionLoops == Spec => LoopSpec
<1>1. Init => LoopInit
  BY DEF Init
<1>2. InboxOK /\ [Next]_vars => [LoopNext]_loopVars
  <2> SUFFICES ASSUME InboxOK, [Next]_vars
               PROVE  [LoopNext]_loopVars
    OBVIOUS
  <2>1. ASSUME NEW r \in Robot, TakeTarget(r)
        PROVE  LoopNext
    <3>1. Head(inbox[r]) \in Target
      BY <2>1, HeadTail DEF TakeTarget, InboxOK
    <3> QED
      BY <2>1, <3>1 DEF TakeTarget, LoopNext
  <2>2. ASSUME NEW r \in Robot, StartPlanner(r)
        PROVE  LoopNext
    BY <2>2 DEF StartPlanner, LoopNext
  <2>3. CASE PlannersStep
    BY <2>3 DEF PlannersStep, LoopNext
  <2>4. CASE ReleaseTargets \/ PassTime \/ UNCHANGED vars
    BY <2>4 DEF ReleaseTargets, PassTime, vars
  <2> QED
    BY <2>1, <2>2, <2>3, <2>4 DEF Next
<1> QED
  BY <1>1, <1>2, InboxInvariant, PTL DEF Spec, LoopSpec

\* What the outer loop promises of blacklists, regions, barriers, budgets, contact
\* and coverage holds in every mission, with targets arriving at any time.
THEOREM MissionKeepsLoop ==
  Spec => /\ [](FailedGoalRests /\ RegionsFollowQueue /\ BarrierSuspendsExploit)
          /\ NoHopPastBudget /\ NobodyFinishesAlone /\ CoverageDecides
BY MissionLoops, FailedGoalsRest, RegionsFollow, BarrierSuspends, BudgetHolds,
   FinishInContact, CoverageHolds, PTL

\* Every variable of a mission keeps its type, and no queue of the middleware
\* outgrows its depth.
THEOREM MissionTypes == Spec => []TypeOK
<1>1. LoopTypeOK /\ SchedulerInv /\ InboxOK => TypeOK
  BY DEF SchedulerInv, InboxOK, TypeOK
<1> QED
  BY <1>1, MissionLoops, LoopTypes, MissionSchedules, SchedulerInvariant, InboxInvariant, PTL
----------------------------------------------------------------------------
(***************************************************************************)
(* From the topic to the queues.  A planner never knows a target that was  *)
(* not released, and, as long as the schedule fits the topic, loses none   *)
(* that was, whenever it starts and whatever it is doing.                  *)
(***************************************************************************)

\* A queue whose targets are known under the same ids.
SameKnown(q1, q2) == Known(q2) = Known(q1)

LEMMA PromotesKnown ==
  ASSUME NEW q \in Queue, NEW t \in Target, Promotes(q, t)
  PROVE  Activate(q, t) \in Queue /\ SameKnown(q, Activate(q, t))
<1>1. t \in Open(q)
  BY PromotesOpen
<1>2. Activate(q, t) \in Queue
  BY ActivateType
<1>3. SameKnown(q, Activate(q, t))
  BY <1>1 DEF SameKnown, Known, Open, Activate, Queue, Entry
<1> QED
  BY <1>2, <1>3

LEMMA SettledKnown ==
  ASSUME NEW q \in Queue, NEW status \in {"PENDING", "DONE"}
  PROVE  SameKnown(q, SetActiveStatus(q, status))
<1>1. CASE ActiveTarget(q) = NoTarget
  BY <1>1 DEF SameKnown, Known, SetActiveStatus, Queue
<1>2. CASE ActiveTarget(q) # NoTarget
  <2> DEFINE t == ActiveTarget(q)
  <2>1. t \in Target /\ t \in Open(q)
    BY <1>2, ActiveTargetType, ActiveIsOpen
  <2>2. SetActiveStatus(q, status) = [q EXCEPT !.rec[t].status = status, !.active = NoTarget]
    BY <1>2 DEF SetActiveStatus
  <2> HIDE DEF t
  <2> QED
    BY <2>1, <2>2 DEF SameKnown, Known, Open, Queue, Entry
<1> QED
  BY <1>1, <1>2

LEMMA IngestKnown ==
  ASSUME NEW q \in Queue, NEW t \in Target
  PROVE  /\ Known(q) \subseteq Known(Ingest(q, t))
         /\ Known(Ingest(q, t)) \subseteq Known(q) \cup {t}
         /\ Duplicate(Ingest(q, t), t)
<1>1. CASE Duplicate(q, t)
  BY <1>1 DEF Ingest
<1>2. CASE ~ Duplicate(q, t)
  <2>1. Ingest(q, t).rec = [q.rec EXCEPT ![t] = FreshEntry("PENDING")]
    BY <1>2 DEF Ingest, Queue
  <2>2. Known(Ingest(q, t)) = Known(q) \cup {t}
    BY <2>1 DEF Known, FreshEntry, Queue
  <2> QED
    BY <2>2 DEF Duplicate
<1> QED
  BY <1>1, <1>2

LEMMA DuplicateStays ==
  ASSUME NEW q1, NEW q2, Known(q1) \subseteq Known(q2), NEW t, Duplicate(q1, t)
  PROVE  Duplicate(q2, t)
BY DEF Duplicate

----------------------------------------------------------------------------
\* A step of r that is neither its start nor a delivery.
OwnStep(r) == Tick(r) \/ Unsure(r) \/ Heartbeat(r) \/ Clock(r)

\* It knows the same targets before and after, and a process that is down stays
\* down.
LEMMA OwnStepKnown ==
  ASSUME TypeInv, NEW r \in Robot, OwnStep(r)
  PROVE  SameKnown(queue[r], queue'[r]) /\ (Up(r)' => Up(r))
<1> DEFINE Keeps == SameKnown(queue[r], queue'[r])
<1>q. queue[r] \in Queue /\ queue \in [Robot -> Queue] /\ pstate \in [Robot -> PState]
  BY DEF TypeInv, LoopTypeOK
<1>u. UNCHANGED queue => Keeps
  BY DEF SameKnown
<1>s. pstate'[r] = pstate[r] \/ Up(r) => (Up(r)' => Up(r))
  BY DEF Up
<1>e. Engage(r) => Keeps
  BY <1>q, PromotesKnown DEF Engage
<1>f. ASSUME NEW table, FinishOrRendezvous(r, table)
      PROVE  Keeps
  BY <1>f, <1>q, SettledKnown
     DEF FinishOrRendezvous, StandDown, Deactivate, exploitVars, SameKnown
<1>1. CASE MapReady(r) \/ ReachAnchor(r) \/ Integrate(r) \/ Stop(r)
  BY <1>1, <1>s, <1>u DEF MapReady, ReachAnchor, Integrate, Stop, Up, exploitVars
<1>2. CASE TeamBack(r) \/ WaitExpires(r) \/ GoalBlocked(r) \/ ArriveHop(r)
  BY <1>2, <1>s, <1>u
     DEF TeamBack, WaitExpires, GoalBlocked, ArriveHop, Exploring, Returning, Up, exploitVars
<1>3. CASE PlanSpent(r) \/ PlanCovered(r) \/ LogStep(r)
  BY <1>3, <1>s, <1>u, <1>f
     DEF PlanSpent, PlanCovered, LogStep, Measure, MayPlan, Up, exploitVars
<1>4. CASE PlanEngage(r) \/ HopEngage(r) \/ Wake(r)
  BY <1>4, <1>s, <1>e DEF PlanEngage, HopEngage, Wake, MayPlan, Exploring, Up
<1>5. CASE PlanHop(r) \/ PlanRetry(r)
  BY <1>5, <1>s, <1>u DEF PlanHop, PlanRetry, Measure, MayPlan, Up, exploitVars
<1>6. CASE DwellOver(r)
  <2>1. pstate[r] = "NAVIGATE" /\ goal[r][2] \in Angle
    BY <1>6 DEF DwellOver, TypeInv, DrivesToSpot, Exploiting, Spot
  <2>2. PICK clear \in BOOLEAN : queue'[r] = RecordVantageDwell(queue[r], goal[r][2], clear)
    BY <1>6, <1>q DEF DwellOver
  <2>3. Keeps
    BY <1>q, <2>1, <2>2, RecordVantageDwellStatus DEF SameStatus, SameKnown, Known
  <2> QED
    BY <1>s, <2>1, <2>3 DEF Up
<1>7. CASE FailGoal(r)
  BY <1>7, <1>s, <1>u DEF FailGoal, Up, exploitVars
<1>8. CASE CloseTarget(r)
  <2>1. PICK t \in Target : /\ Working(r, t)
                            /\ queue'[r] = MarkActiveDone(Activate(queue[r], t))
    BY <1>8, <1>q DEF CloseTarget
  <2>2. Keeps
    BY <1>q, <2>1, PromotesKnown, SettledKnown DEF Working, MarkActiveDone, SameKnown
  <2> QED
    BY <1>s, <2>1, <2>2 DEF Working, Up
<1>9. CASE StartVantage(r) \/ RetryVantage(r)
  <2>1. PICK t \in Target : Working(r, t) /\ queue'[r] = Activate(queue[r], t)
    BY <1>9, <1>q DEF StartVantage, RetryVantage, Selecting
  <2> QED
    BY <1>q, <1>s, <2>1, PromotesKnown DEF Working, Up
<1>10. CASE StopRequested(r)
  BY <1>10, <1>s, <1>u DEF StopRequested, Up
<1>11. CASE Heartbeat(r) \/ Clock(r)
  BY <1>11, <1>s, <1>u
     DEF Heartbeat, Clock, ClaimExpires, EntryDecays, GiveUpExpires, exploitVars
<1> QED
  BY <1>1, <1>2, <1>3, <1>4, <1>5, <1>6, <1>7, <1>8, <1>9, <1>10, <1>11
     DEF OwnStep, Tick, Unsure, Plan, Navigate, Exploit, Return, Finish

----------------------------------------------------------------------------
\* What the messages of a queue of the middleware are.
LEMMA ConcatRange ==
  ASSUME NEW S, NEW s \in Seq(S), NEW t \in Seq(S)
  PROVE  /\ Range(s \o t) = Range(s) \cup Range(t)
         /\ Len(s \o t) = Len(s) + Len(t)
<1>1. /\ s \o t \in Seq(S) /\ Len(s \o t) = Len(s) + Len(t)
      /\ \A n \in 1 .. Len(s) + Len(t) :
           (s \o t)[n] = IF n =< Len(s) THEN s[n] ELSE t[n - Len(s)]
      /\ Len(s) \in Nat /\ Len(t) \in Nat
  OBVIOUS
<1>2. /\ DOMAIN s = 1 .. Len(s) /\ DOMAIN t = 1 .. Len(t)
      /\ DOMAIN (s \o t) = 1 .. Len(s) + Len(t)
  BY <1>1
<1> DEFINE u == s \o t
<1>3. \A n \in DOMAIN s : n \in DOMAIN u /\ u[n] = s[n]
  BY <1>1, <1>2
<1>4. \A n \in DOMAIN t : n + Len(s) \in DOMAIN u /\ u[n + Len(s)] = t[n]
  BY <1>1, <1>2
<1>5. \A n \in DOMAIN u :
        \/ n \in DOMAIN s /\ u[n] = s[n]
        \/ n - Len(s) \in DOMAIN t /\ u[n] = t[n - Len(s)]
  BY <1>1, <1>2
<1> HIDE DEF u
<1>6. Range(u) = Range(s) \cup Range(t)
  BY <1>3, <1>4, <1>5 DEF Range
<1> QED
  BY <1>1, <1>6 DEF u

LEMMA TailRange ==
  ASSUME NEW S, NEW s \in Seq(S), s # << >>
  PROVE  Range(s) = {Head(s)} \cup Range(Tail(s))
<1>1. /\ Len(s) \in Nat /\ DOMAIN s = 1 .. Len(s) /\ Len(s) # 0 /\ Head(s) = s[1]
      /\ Tail(s) \in Seq(S) /\ Len(Tail(s)) = Len(s) - 1
      /\ \A n \in 1 .. Len(s) - 1 : Tail(s)[n] = s[n + 1]
  OBVIOUS
<1>2. DOMAIN Tail(s) = 1 .. Len(s) - 1
  BY <1>1
<1> DEFINE u == Tail(s)
<1>3. \A n \in DOMAIN u : n + 1 \in DOMAIN s /\ u[n] = s[n + 1]
  BY <1>1, <1>2
<1>4. \A n \in DOMAIN s : n = 1 \/ (n - 1 \in DOMAIN u /\ s[n] = u[n - 1])
  BY <1>1, <1>2
<1>5. 1 \in DOMAIN s
  BY <1>1
<1> HIDE DEF u
<1>6. Range(s) = {s[1]} \cup Range(u)
  BY <1>3, <1>4, <1>5 DEF Range
<1> QED
  BY <1>1, <1>6 DEF u

LEMMA KeepLastRange ==
  ASSUME NEW S, NEW s \in Seq(S)
  PROVE  /\ Range(KeepLast(s)) \subseteq Range(s)
         /\ Len(KeepLast(s)) =< Len(s)
         /\ Len(s) =< TopicDepth => KeepLast(s) = s
<1>1. Len(s) \in Nat /\ TopicDepth \in Nat /\ DOMAIN s = 1 .. Len(s)
  OBVIOUS
<1>2. CASE Len(s) > TopicDepth
  <2> DEFINE m == Len(s) - TopicDepth + 1
             u == SubSeq(s, m, Len(s))
  <2>1. m \in 1 .. Len(s) /\ Len(s) \in 1 .. Len(s)
    BY <1>1, <1>2
  <2>2. /\ u \in Seq(S) /\ Len(u) = Len(s) - m + 1
        /\ \A n \in 1 .. Len(s) - m + 1 : u[n] = s[m + n - 1]
    BY <1>1, <2>1
  <2>3. DOMAIN u = 1 .. Len(s) - m + 1
    BY <1>1, <2>2
  <2>4. \A n \in DOMAIN u : m + n - 1 \in DOMAIN s /\ u[n] = s[m + n - 1]
    BY <1>1, <2>1, <2>2, <2>3
  <2>5. KeepLast(s) = u /\ Len(u) =< Len(s)
    BY <1>1, <1>2, <2>2 DEF KeepLast
  <2> HIDE DEF m, u
  <2>6. Range(u) \subseteq Range(s)
    BY <2>4 DEF Range
  <2> QED
    BY <1>1, <1>2, <2>5, <2>6
<1>3. CASE ~ Len(s) > TopicDepth
  BY <1>1, <1>3 DEF KeepLast
<1> QED
  BY <1>2, <1>3

LEMMA EntriesFinite ==
  ASSUME SchedulerTypeOK
  PROVE  /\ IsFiniteSet(DOMAIN schedule) /\ Cardinality(DOMAIN schedule) = Len(schedule)
         /\ IsFiniteSet(published) /\ IsFiniteSet(Due)
<1>1. DOMAIN schedule = 1 .. Len(schedule) /\ Len(schedule) \in Nat
  BY DEF SchedulerTypeOK, Schedule
<1>2. IsFiniteSet(DOMAIN schedule) /\ Cardinality(DOMAIN schedule) = Len(schedule)
  BY <1>1, FS_Interval
<1>3. Due \subseteq DOMAIN schedule /\ published \subseteq DOMAIN schedule
  BY DEF Due, SchedulerTypeOK
<1> QED
  BY <1>2, <1>3, FS_Subset

\* One tick publishes the id of every due entry, each once.
LEMMA IdsRange ==
  ASSUME SchedulerTypeOK, NEW f \in Released
  PROVE  Range(Ids(f)) = IdsOf(Due) /\ Len(Ids(f)) = Cardinality(Due)
<1> DEFINE n == Cardinality(Due)
<1>1. IsFiniteSet(Due) /\ n \in Nat
  BY EntriesFinite, FS_CardinalityType
<1>2. IsFiniteSet(1 .. n) /\ Cardinality(1 .. n) = n
  BY <1>1, FS_Interval
<1>3. f \in [1 .. n -> Due] /\ \A i, j \in 1 .. n : i < j => f[i] < f[j]
  BY DEF Released
<1>4. \A i \in Due : i \in Nat
  BY DEF Due, SchedulerTypeOK, Schedule
<1>5. \A i, j \in 1 .. n : f[i] = f[j] => i = j
  BY <1>1, <1>3, <1>4
<1> HIDE DEF n
<1>6. f \in Injection(1 .. n, Due)
  BY <1>3, <1>5 DEF Injection, IsInjective
<1>7. f \in Surjection(1 .. n, Due)
  BY <1>1, <1>2, <1>6, FS_Injection DEF n
<1>8. \A i \in Due : \E j \in 1 .. n : f[j] = i
  BY <1>7 DEF Surjection
<1>9. Ids(f) = [j \in 1 .. n |-> schedule[f[j]].id]
  BY <1>3 DEF Ids
<1>10. Range(Ids(f)) = IdsOf(Due)
  BY <1>3, <1>8, <1>9 DEF Range, IdsOf
<1>11. Len(Ids(f)) = n
  BY <1>1, <1>9
<1> QED
  BY <1>10, <1>11 DEF n

LEMMA PublishedCount ==
  ASSUME SchedulerTypeOK
  PROVE  /\ Cardinality(published \cup Due) = Cardinality(published) + Cardinality(Due)
         /\ Cardinality(published \cup Due) =< Len(schedule)
         /\ Cardinality(published) \in Nat /\ Cardinality(Due) \in Nat
<1>1. published \cap Due = {} /\ published \cup Due \subseteq DOMAIN schedule
  BY DEF Due, SchedulerTypeOK
<1>2. Cardinality(published) \in Nat /\ Cardinality(Due) \in Nat
  BY EntriesFinite, FS_CardinalityType
<1>3. Cardinality(published \cap Due) = 0
  BY <1>1, FS_EmptySet
<1>4. Cardinality(published \cup Due)
        = Cardinality(published) + Cardinality(Due) - Cardinality(published \cap Due)
  BY EntriesFinite, FS_Union
<1>5. Cardinality(published \cup Due) =< Cardinality(DOMAIN schedule)
  BY <1>1, EntriesFinite, FS_Subset
<1> QED
  BY <1>2, <1>3, <1>4, <1>5, EntriesFinite

----------------------------------------------------------------------------
\* A planner knows a target, or is about to be told of it, only if some entry of
\* the schedule for that target is due, counted from the start of playback:
\* duplicates, late starts and a full topic invent nothing.
NothingEarly ==
  \A r \in Robot : \A t \in Known(queue[r]) \cup Range(inbox[r]) :
    \E i \in DOMAIN schedule : /\ schedule[i].id = t
                               /\ started > 0 /\ clock >= started + schedule[i].release

\* Inductive: the history and the inboxes hold released targets, no more of them
\* than entries were published, and while nothing falls out, all of them.
HandOver ==
  /\ \A r \in Robot : Known(queue[r]) \cup Range(inbox[r]) \subseteq IdsOf(published)
  /\ Range(topic) \subseteq IdsOf(published)
  /\ Len(topic) =< Cardinality(published)
  /\ \A r \in Robot : Len(inbox[r]) =< Cardinality(published)
  /\ Len(schedule) =< TopicDepth => IdsOf(published) \subseteq Range(topic)
  /\ NoTargetLost

LEMMA HandOverInit == Init => HandOver
<1> SUFFICES ASSUME Init PROVE HandOver
  OBVIOUS
<1>1. Range(<< >>) = {} /\ Len(<< >>) = 0
  BY DEF Range
<1>2. \A r \in Robot : Known(queue[r]) = {} /\ ~ Up(r)
  BY DEF Init, LoopInit, Known, EmptyQueue, FreshEntry, Up
<1>3. setup.exploiters \subseteq Robot
  BY DEF Init, LoopInit, Setup
<1>4. published = {} /\ topic = << >> /\ \A r \in Robot : inbox[r] = << >>
  BY DEF Init, SchedulerInit
<1>5. IdsOf(published) = {} /\ Cardinality(published) = 0
  BY <1>4, FS_EmptySet DEF IdsOf
<1> QED
  BY <1>1, <1>2, <1>3, <1>4, <1>5 DEF HandOver, NoTargetLost

\* One delivery of the history, or of what a tick publishes.
LEMMA ReleaseHandsOver ==
  ASSUME SchedulerTypeOK, InboxOK, LoopTypeOK, HandOver, ReleaseTargets
  PROVE  HandOver'
<1>1. PICK f \in Released :
        /\ ScheduleTick(f)
        /\ inbox' = [r \in Robot |-> IF Up(r) /\ r \in setup.exploiters
                                     THEN KeepLast(inbox[r] \o Ids(f))
                                     ELSE inbox[r]]
  BY DEF ReleaseTargets
<1>2. /\ published' = published \cup Due /\ schedule' = schedule
      /\ topic' = KeepLast(topic \o Ids(f))
  BY <1>1 DEF ScheduleTick, scheduleVars
<1>3. queue' = queue /\ setup' = setup /\ pstate' = pstate
  BY DEF ReleaseTargets, loopVars, exploitVars, worldVars
<1>4. Ids(f) \in Seq(Target) /\ Range(Ids(f)) = IdsOf(Due) /\ Len(Ids(f)) = Cardinality(Due)
  BY IdsType, IdsRange
<1> DEFINE N == Cardinality(published)
           out == IdsOf(published)
           new == IdsOf(Due)
<1>5. /\ N \in Nat /\ Cardinality(Due) \in Nat
      /\ Cardinality(published') = N + Cardinality(Due)
      /\ Cardinality(published') =< Len(schedule)
      /\ Len(schedule) \in Nat /\ TopicDepth \in Nat
  BY <1>2, PublishedCount DEF SchedulerTypeOK, Schedule
<1>6. IdsOf(published)' = out \cup new
  BY <1>2 DEF IdsOf
<1> HIDE DEF N, out, new
<1>7. ASSUME NEW s \in Seq(Target), Len(s) =< N, Range(s) \subseteq out
      PROVE  LET u == KeepLast(s \o Ids(f))
             IN  /\ Range(u) \subseteq out \cup new
                 /\ Len(u) =< Cardinality(published')
                 /\ Len(schedule) =< TopicDepth => Range(u) = Range(s) \cup new
  <2> DEFINE w == s \o Ids(f)
  <2>1. w \in Seq(Target) /\ Range(w) = Range(s) \cup new /\ Len(w) = Len(s) + Cardinality(Due)
    BY <1>4, ConcatRange, ConcatType DEF new
  <2> HIDE DEF w
  <2>2. /\ Range(KeepLast(w)) \subseteq Range(w) /\ Len(KeepLast(w)) =< Len(w)
        /\ Len(w) =< TopicDepth => KeepLast(w) = w
        /\ KeepLast(w) \in Seq(Target)
    BY <2>1, KeepLastRange, KeepLastType
  <2>3. Len(s) \in Nat /\ Len(w) =< Cardinality(published') /\ Len(w) \in Nat
        /\ Len(KeepLast(w)) \in Nat
    BY <1>5, <1>7, <2>1, <2>2
  <2>4. Len(KeepLast(w)) =< Cardinality(published')
    BY <1>5, <2>2, <2>3
  <2>5. Len(schedule) =< TopicDepth => KeepLast(w) = w
    BY <1>5, <2>2, <2>3
  <2> QED
    BY <1>7, <2>1, <2>2, <2>4, <2>5 DEF w
<1>8. /\ Range(topic)' \subseteq out \cup new
      /\ Len(topic') =< Cardinality(published')
      /\ Len(schedule) =< TopicDepth => Range(topic') = Range(topic) \cup new
  BY <1>2, <1>7 DEF HandOver, SchedulerTypeOK, N, out
<1>9. ASSUME NEW r \in Robot
      PROVE  /\ Range(inbox'[r]) \subseteq out \cup new
             /\ Len(inbox'[r]) =< Cardinality(published')
             /\ Len(schedule) =< TopicDepth =>
                  /\ Range(inbox[r]) \subseteq Range(inbox'[r])
                  /\ Up(r) /\ r \in setup.exploiters => new \subseteq Range(inbox'[r])
  <2>1. inbox[r] \in Seq(Target) /\ Len(inbox[r]) =< N /\ Range(inbox[r]) \subseteq out
    BY DEF HandOver, InboxOK, N, out
  <2>2. CASE Up(r) /\ r \in setup.exploiters
    <3>1. inbox'[r] = KeepLast(inbox[r] \o Ids(f))
      BY <1>1, <2>2
    <3> QED
      BY <1>7, <2>1, <3>1
  <2>3. CASE ~ (Up(r) /\ r \in setup.exploiters)
    <3>1. inbox'[r] = inbox[r]
      BY <1>1, <2>3
    <3>2. Len(inbox[r]) \in Nat
      BY <2>1
    <3> QED
      BY <1>5, <2>1, <2>3, <3>1, <3>2
  <2> QED
    BY <2>2, <2>3
<1>10. setup.exploiters \subseteq Robot
  BY DEF LoopTypeOK, Setup
<1>11. NoTargetLost'
  <2> SUFFICES ASSUME Len(schedule) =< TopicDepth, NEW r \in setup.exploiters, Up(r),
                      NEW t \in out \cup new
               PROVE  t \in Range(inbox'[r]) \/ Duplicate(queue[r], t)
    BY <1>2, <1>3, <1>6 DEF NoTargetLost, Told, Up
  <2>1. t \in out => Told(r, t)
    BY DEF HandOver, NoTargetLost, out
  <2> QED
    BY <1>9, <1>10, <2>1 DEF Told
<1> QED
  BY <1>2, <1>3, <1>6, <1>8, <1>9, <1>11 DEF HandOver, out

LEMMA TakeHandsOver ==
  ASSUME SchedulerTypeOK, InboxOK, TypeInv, HandOver, NEW r \in Robot, TakeTarget(r)
  PROVE  HandOver'
<1> DEFINE h == Head(inbox[r])
<1>1. /\ inbox[r] # << >> /\ inbox' = [inbox EXCEPT ![r] = Tail(inbox[r])]
      /\ queue' = [queue EXCEPT ![r] = Ingest(queue[r], h)]
      /\ UNCHANGED << pstate, setup, schedule, published, topic >>
  BY DEF TakeTarget, OnTreeTarget, schedulerVars, scheduleVars, worldVars
<1>2. /\ inbox[r] \in Seq(Target) /\ queue[r] \in Queue
      /\ inbox \in [Robot -> Seq(Target)] /\ queue \in [Robot -> Queue]
  BY DEF InboxOK, TypeInv, LoopTypeOK
<1>3. /\ h \in Target /\ Len(Tail(inbox[r])) = Len(inbox[r]) - 1 /\ Len(inbox[r]) \in Nat
      /\ Range(inbox[r]) = {h} \cup Range(Tail(inbox[r]))
  BY <1>1, <1>2, HeadTail, TailRange
<1> HIDE DEF h
<1>4. /\ Known(queue[r]) \subseteq Known(Ingest(queue[r], h))
      /\ Known(Ingest(queue[r], h)) \subseteq Known(queue[r]) \cup {h}
      /\ Duplicate(Ingest(queue[r], h), h)
  BY <1>2, <1>3, IngestKnown
<1>5. IdsOf(published)' = IdsOf(published)
  BY <1>1 DEF IdsOf
<1>6. \A x \in Robot : /\ inbox'[x] = IF x = r THEN Tail(inbox[r]) ELSE inbox[x]
                       /\ queue'[x] = IF x = r THEN Ingest(queue[r], h) ELSE queue[x]
  BY <1>1, <1>2
<1>7. Cardinality(published) \in Nat
  BY PublishedCount
<1>8. \A x \in Robot : Len(inbox'[x]) =< Cardinality(published)
  <2>1. Len(inbox[r]) =< Cardinality(published)
    BY DEF HandOver
  <2>2. Len(Tail(inbox[r])) =< Cardinality(published)
    BY <1>3, <1>7, <2>1
  <2> QED
    BY <1>6, <2>2 DEF HandOver
<1>9. \A x \in Robot : Known(queue'[x]) \cup Range(inbox'[x]) \subseteq IdsOf(published)
  BY <1>3, <1>4, <1>6 DEF HandOver
<1>10. ASSUME NEW x \in Robot, NEW t, Told(x, t)
       PROVE  t \in Range(inbox'[x]) \/ Duplicate(queue'[x], t)
  <2>1. CASE x = r
    <3>1. CASE t \in Range(inbox[r])
      BY <1>3, <1>4, <1>6, <2>1, <3>1
    <3>2. CASE Duplicate(queue[r], t)
      BY <1>4, <1>6, <2>1, <3>2, DuplicateStays
    <3> QED
      BY <1>10, <2>1, <3>1, <3>2 DEF Told
  <2>2. CASE x # r
    BY <1>6, <1>10, <2>2 DEF Told
  <2> QED
    BY <2>1, <2>2
<1>11. setup.exploiters \subseteq Robot
  BY DEF TypeInv, LoopTypeOK, Setup
<1>12. NoTargetLost'
  BY <1>1, <1>5, <1>10, <1>11 DEF HandOver, NoTargetLost, Told, Up
<1> QED
  BY <1>1, <1>5, <1>8, <1>9, <1>12 DEF HandOver

LEMMA StartHandsOver ==
  ASSUME SchedulerTypeOK, InboxOK, TypeInv, HandOver, NEW r \in Robot, StartPlanner(r)
  PROVE  HandOver'
<1>1. /\ inbox' = [inbox EXCEPT ![r] = IF r \in setup.exploiters THEN topic ELSE inbox[r]]
      /\ UNCHANGED << queue, setup, schedule, published, topic >>
      /\ pstate' = [pstate EXCEPT ![r] = "WAIT_FOR_MAP"]
  BY DEF StartPlanner, Latched, Join, GoTo, schedulerVars, scheduleVars, exploitVars, worldVars
<1>2. inbox \in [Robot -> Seq(Target)] /\ pstate \in [Robot -> PState]
  BY DEF InboxOK, TypeInv, LoopTypeOK
<1>3. IdsOf(published)' = IdsOf(published)
  BY <1>1 DEF IdsOf
<1>4. \A x \in Robot : /\ inbox'[x] = IF x = r /\ r \in setup.exploiters THEN topic ELSE inbox[x]
                       /\ x # r => (Up(x)' <=> Up(x))
  BY <1>1, <1>2 DEF Up
<1>5. setup.exploiters \subseteq Robot
  BY DEF TypeInv, LoopTypeOK, Setup
<1>6. NoTargetLost'
  <2> SUFFICES ASSUME Len(schedule) =< TopicDepth, NEW x \in setup.exploiters, Up(x)',
                      NEW t \in IdsOf(published)
               PROVE  t \in Range(inbox'[x]) \/ Duplicate(queue[x], t)
    BY <1>1, <1>3 DEF NoTargetLost, Told
  <2>1. CASE x = r
    BY <1>4, <1>5, <2>1 DEF HandOver
  <2>2. CASE x # r
    BY <1>4, <1>5, <2>2 DEF HandOver, NoTargetLost, Told
  <2> QED
    BY <2>1, <2>2
<1>7. \A x \in Robot : /\ Range(inbox'[x]) \subseteq IdsOf(published)
                       /\ Len(inbox'[x]) =< Cardinality(published)
  BY <1>4 DEF HandOver
<1> QED
  BY <1>1, <1>3, <1>6, <1>7 DEF HandOver

LEMMA PlannersHandOver ==
  ASSUME TypeInv, HandOver, PlannersStep
  PROVE  HandOver'
<1>1. UNCHANGED << schedule, published, topic, inbox >> /\ LoopStep
  BY DEF PlannersStep, schedulerVars, scheduleVars
<1>2. IdsOf(published)' = IdsOf(published)
  BY <1>1 DEF IdsOf
<1>3. /\ UNCHANGED setup
      /\ \A x \in Robot : SameKnown(queue[x], queue'[x]) /\ (Up(x)' => Up(x))
  <2>1. ASSUME NEW r \in Robot, OwnStep(r)
        PROVE  /\ UNCHANGED setup
               /\ \A x \in Robot : SameKnown(queue[x], queue'[x]) /\ (Up(x)' => Up(x))
    <3>1. RobotStep(r)
      BY <2>1 DEF OwnStep, RobotStep, Tick, Unsure, Plan, Navigate, Exploit, Return, Finish
    <3>2. UNCHANGED setup
      BY <3>1, RadioOfStep
    <3>3. SameKnown(queue[r], queue'[r]) /\ (Up(r)' => Up(r))
      BY <2>1, OwnStepKnown
    <3>4. \A x \in Robot \ {r} : queue'[x] = queue[x] /\ pstate'[x] = pstate[x]
      BY <3>1, OthersKept DEF OwnKept
    <3> QED
      BY <3>2, <3>3, <3>4 DEF SameKnown, Up
  <2>2. CASE LinkChanges
    BY <2>2 DEF LinkChanges, exploitVars, SameKnown, Up
  <2> QED
    BY <1>1, <2>1, <2>2 DEF LoopStep, OwnStep
<1>4. setup.exploiters \subseteq Robot
  BY DEF TypeInv, LoopTypeOK, Setup
<1>5. NoTargetLost'
  BY <1>1, <1>2, <1>3, <1>4 DEF HandOver, NoTargetLost, Told, Duplicate, SameKnown
<1> QED
  BY <1>1, <1>2, <1>3, <1>5 DEF HandOver, SameKnown

LEMMA HandOverStep ==
  ASSUME SchedulerTypeOK, InboxOK, TypeInv, HandOver, [Next]_vars
  PROVE  HandOver'
<1>1. CASE PassTime \/ UNCHANGED vars
  <2>1. UNCHANGED << schedule, published, topic, inbox, queue, setup, pstate >>
    BY <1>1 DEF PassTime, ClockStarts, ClockAdvances, vars, schedulerVars, scheduleVars,
                loopVars, exploitVars, worldVars
  <2> QED
    BY <2>1 DEF HandOver, NoTargetLost, Told, IdsOf, Up
<1>2. LoopTypeOK
  BY DEF TypeInv
<1> QED
  BY <1>1, <1>2, ReleaseHandsOver, TakeHandsOver, StartHandsOver, PlannersHandOver DEF Next

LEMMA HandOverInvariant == Spec => []HandOver
<1>1. LoopSpec => []TypeInv
  BY LoopInitType, TypeInvStep, PTL DEF LoopSpec
<1>2. SchedulerInv => SchedulerTypeOK
  BY DEF SchedulerInv
<1> QED
  BY <1>1, <1>2, HandOverInit, HandOverStep, MissionLoops, MissionSchedules,
     SchedulerInvariant, InboxInvariant, PTL DEF Spec

\* No planner works on a target, or is handed one, before its time.
THEOREM NothingIsEarly == Spec => []NothingEarly
<1>1. ReleasedOnTime /\ HandOver /\ SchedulerTypeOK => NothingEarly
  BY DEF ReleasedOnTime, HandOver, NothingEarly, IdsOf, SchedulerTypeOK
<1>2. SchedulerInv => SchedulerTypeOK
  BY DEF SchedulerInv
<1> QED
  BY <1>1, <1>2, ReleasesOnTime, HandOverInvariant, MissionSchedules, SchedulerInvariant, PTL

\* No released target is lost to a planner that is up.
THEOREM TargetsArrive == Spec => []NoTargetLost
<1>1. HandOver => NoTargetLost
  BY DEF HandOver
<1> QED
  BY <1>1, HandOverInvariant, PTL

=============================================================================
