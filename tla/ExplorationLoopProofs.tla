------------------------ MODULE ExplorationLoopProofs ------------------------
(***************************************************************************)
(* What the outer loop guarantees for every team, launch and schedule of   *)
(* world events: types, the rest a failed goal gets, the regions armed for *)
(* open targets, the barrier before exploitation, the step budget, the     *)
(* coverage streak and the contact a planner ends in.                      *)
(***************************************************************************)
EXTENDS ExplorationLoop, TargetQueueProofs

USE LoopAssumption

----------------------------------------------------------------------------
\* What the operations of the queue do to its open targets.
LEMMA PromotesOpen ==
  ASSUME NEW q \in Queue, NEW t \in Target, Promotes(q, t)
  PROVE  t \in Open(q)
BY ActiveIsOpen, TargetAssumption DEF Promotes, FirstPending, Open

LEMMA ActivateOpen ==
  ASSUME NEW q \in Queue, NEW t \in Open(q)
  PROVE  Open(Activate(q, t)) = Open(q)
BY DEF Activate, Open, Queue, Entry

LEMMA DeactivateOpen ==
  ASSUME NEW q \in Queue
  PROVE  Open(Deactivate(q)) = Open(q) /\ ActiveTarget(Deactivate(q)) = NoTarget
BY ActiveTargetType, ActiveIsOpen, TargetAssumption
   DEF Deactivate, SetActiveStatus, Open, ActiveTarget, Queue, Entry

LEMMA CloseOpen ==
  ASSUME NEW q \in Queue, NEW t \in Target, t \in Open(q)
  PROVE  Open(MarkActiveDone(Activate(q, t))) = Open(q) \ {t}
<1> DEFINE a == Activate(q, t)
<1>1. a \in Queue /\ Open(a) = Open(q)
  BY ActivateType, ActivateOpen
<1>2. a.active = t /\ a.rec[t].status = "ACTIVE"
  BY DEF Activate, Queue, Entry
<1>3. ActiveTarget(a) = t
  BY <1>2 DEF ActiveTarget
<1> HIDE DEF a
<1>4. MarkActiveDone(a) = [a EXCEPT !.rec[t].status = "DONE", !.active = NoTarget]
  BY <1>3, TargetAssumption DEF MarkActiveDone, SetActiveStatus
<1>5. Open(MarkActiveDone(a)) = Open(q) \ {t}
  BY <1>1, <1>4 DEF Open, Queue, Entry
<1> QED
  BY <1>5 DEF a

LEMMA IngestOpen ==
  ASSUME NEW q \in Queue, NEW t \in Target, ~ Duplicate(q, t)
  PROVE  Open(Ingest(q, t)) = Open(q) \cup {t}
<1>1. /\ Ingest(q, t).rec = [q.rec EXCEPT ![t] = FreshEntry("PENDING")]
  BY DEF Ingest, Queue
<1> QED
  BY <1>1 DEF Open, FreshEntry, Queue

LEMMA MarkActiveDoneType ==
  ASSUME NEW q \in Queue
  PROVE  MarkActiveDone(q) \in Queue /\ Deactivate(q) \in Queue
BY SetActiveStatusType DEF MarkActiveDone, Deactivate, Status

LEMMA DwellOpen ==
  ASSUME NEW q \in Queue, NEW k \in Angle, NEW clear \in BOOLEAN
  PROVE  /\ Open(RecordVantageDwell(q, k, clear)) = Open(q)
         /\ ActiveTarget(RecordVantageDwell(q, k, clear)) = ActiveTarget(q)
BY RecordVantageDwellStatus, SameStatusActive

----------------------------------------------------------------------------
\* A robot that drives has a goal, for a target one of its vantages.
DrivesToSpot ==
  \A r \in Robot :
    pstate[r] = "NAVIGATE" => goal[r] \in Place /\ (Exploiting(r) => goal[r] \in Spot)

TypeInv == LoopTypeOK /\ DrivesToSpot

Table == [Robot -> {"none", "live", "expired"}]

LEMMA PublishType ==
  ASSUME RadioTypeOK, NEW r \in Robot, NEW table \in [Robot -> Table],
         Publish(r, table)
  PROVE  heard' \in [Robot -> Table] /\ anchor' \in [Robot -> BOOLEAN]
BY DEF Publish, Broadcast, RadioTypeOK, Table

LEMMA PrunedTableType ==
  ASSUME RadioTypeOK, NEW r \in Robot
  PROVE  heard \in [Robot -> Table] /\ PrunedTable(r) \in [Robot -> Table]
BY DEF PrunedTable, Forget, RadioTypeOK, Table

LEMMA RadioStep ==
  ASSUME RadioTypeOK, NEW r \in Robot, NEW table \in [Robot -> Table],
         \/ Announce(r, table) \/ Release(r, table)
         \/ heard' = table /\ UNCHANGED << have, anchor >>
  PROVE  RadioTypeOK'
BY PublishType DEF Announce, Release, RadioTypeOK, Table

LEMMA PruneListsType ==
  ASSUME DriveTypeOK, NEW r \in Robot, PruneLists(r)
  PROVE  failed' \in [Robot -> SUBSET Place]
<1>1. Pruned(r) \in SUBSET Place
  BY DEF Pruned, DriveTypeOK
<1> QED
  BY <1>1 DEF PruneLists, DriveTypeOK

LEMMA EngageType ==
  ASSUME LoopTypeOK, NEW r \in Robot, Engage(r)
  PROVE  /\ queue' \in [Robot -> Queue]
         /\ phase' \in [Robot -> {"EXPLORE", "EXPLOIT"}]
         /\ pstate' \in [Robot -> PState]
         /\ goal' \in [Robot -> Place \cup {NoGoal}]
BY ActivateType
   DEF Engage, LoopTypeOK, DriveTypeOK, SetPhase, GoTo, SetGoal, PState

LEMMA FinishType ==
  ASSUME LoopTypeOK, NEW r \in Robot, NEW table \in [Robot -> Table],
         FinishOrRendezvous(r, table)
  PROVE  /\ RadioTypeOK'
         /\ queue' \in [Robot -> Queue]
         /\ giveup' \in [Robot -> {"off", "running", "expired"}]
         /\ armed' \in [Robot -> SUBSET Target]
         /\ phase' \in [Robot -> {"EXPLORE", "EXPLOIT"}]
         /\ pstate' \in [Robot -> PState]
         /\ goal' \in [Robot -> Place \cup {NoGoal}]
<1> USE DEF LoopTypeOK, DriveTypeOK
<1>1. RadioTypeOK'
  <2>1. \/ Announce(r, table)
        \/ heard' = table /\ UNCHANGED << have, anchor >>
    BY DEF FinishOrRendezvous
  <2>2. RadioTypeOK
    OBVIOUS
  <2> HIDE DEF LoopTypeOK, DriveTypeOK
  <2>3. CASE Announce(r, table)
    BY <2>2, <2>3, RadioStep
  <2>4. CASE heard' = table /\ UNCHANGED << have, anchor >>
    BY <2>2, <2>4, RadioStep
  <2> QED
    BY <2>1, <2>3, <2>4
<1>2. CASE ShouldRendezvous(r)
  <2>1. Deactivate(queue[r]) \in Queue
    BY MarkActiveDoneType
  <2>2. StandDown(r)
    BY <1>2 DEF FinishOrRendezvous
  <2>3. queue' \in [Robot -> Queue]
    BY <2>1, <2>2 DEF StandDown
  <2>4. armed' \in [Robot -> SUBSET Target]
    BY <2>2 DEF StandDown
  <2>5. /\ phase' \in [Robot -> {"EXPLORE", "EXPLOIT"}]
        /\ giveup' \in [Robot -> {"off", "running", "expired"}]
    BY <2>2 DEF StandDown, SetPhase, SetGiveUp
  <2>6. /\ goal' \in [Robot -> Place \cup {NoGoal}]
        /\ pstate' \in [Robot -> PState]
    BY <1>2 DEF FinishOrRendezvous, SetGoal, GoTo, PState
  <2> QED
    BY <1>1, <2>3, <2>4, <2>5, <2>6
<1>3. CASE ~ ShouldRendezvous(r)
  BY <1>1, <1>3 DEF FinishOrRendezvous, GoTo, PState, exploitVars
<1> QED
  BY <1>2, <1>3

LEMMA AppendType ==
  ASSUME NEW S, NEW s \in Seq(S), NEW e \in S
  PROVE  /\ Append(s, e) \in Seq(S) /\ Append(s, e) # << >>
         /\ Tail(Append(s, e)) \in Seq(S)
<1>1. Append(s, e) \in Seq(S) /\ Append(s, e) # << >>
  OBVIOUS
<1> QED
  BY <1>1

\* The coverage measurements keep their types.
LEMMA MeasureType ==
  ASSUME LoopTypeOK, NEW r \in Robot, NEW verdict, Measure(r, verdict)
  PROVE  /\ failed' \in [Robot -> SUBSET Place]
         /\ streak' \in [Robot -> Nat]
         /\ lately' \in [Robot -> Seq({"low", "other"})]
<1> USE DEF LoopTypeOK, DriveTypeOK
<1>1. StreakAfter(r, verdict) \in Nat
  BY DEF StreakAfter
<1>2. LatelyAfter(r, verdict) \in Seq({"low", "other"})
  <2> DEFINE v == IF verdict = "below" THEN "low" ELSE "other"
             s == Append(lately[r], v)
  <2>1. v \in {"low", "other"}
    OBVIOUS
  <2>2. lately[r] \in Seq({"low", "other"})
    OBVIOUS
  <2>3. s \in Seq({"low", "other"}) /\ Tail(s) \in Seq({"low", "other"})
    BY <2>1, <2>2, AppendType
  <2> QED
    BY <2>3 DEF LatelyAfter
<1>3. Pruned(r) \in SUBSET Place
  BY DEF Pruned
<1> QED
  BY <1>1, <1>2, <1>3 DEF Measure, PruneLists

----------------------------------------------------------------------------
LEMMA LoopInitType == LoopInit => TypeInv
BY EmptyQueueType
   DEF LoopInit, TypeInv, LoopTypeOK, DriveTypeOK, RadioTypeOK, DrivesToSpot,
       Exploiting, PState

\* Steps that touch one robot's state, and no variable of another type.
LEMMA FinishStepsType ==
  ASSUME TypeInv, NEW r \in Robot,
         PlanSpent(r) \/ PlanCovered(r) \/ LogStep(r)
  PROVE  TypeInv'
<1>t. LoopTypeOK /\ RadioTypeOK /\ DriveTypeOK
  BY DEF TypeInv, LoopTypeOK
<1>h. heard \in [Robot -> Table] /\ PrunedTable(r) \in [Robot -> Table]
  BY <1>t, PrunedTableType
<1>u. ASSUME NEW table \in [Robot -> Table], FinishOrRendezvous(r, table), pstate[r] # "NAVIGATE"
      PROVE  DrivesToSpot'
  <2>1. /\ pstate'[r] \in {"RETURN_NAV", "DONE"}
        /\ \A p \in Robot \ {r} : pstate'[p] = pstate[p] /\ phase'[p] = phase[p]
                                   /\ goal'[p] = goal[p]
    BY <1>u, <1>t DEF FinishOrRendezvous, StandDown, GoTo, SetGoal, SetPhase,
                      LoopTypeOK, DriveTypeOK
  <2> QED
    BY <2>1 DEF TypeInv, DrivesToSpot, Exploiting
<1>1. CASE PlanSpent(r)
  <2>1. FinishOrRendezvous(r, heard) /\ pstate[r] # "NAVIGATE"
    BY <1>1 DEF PlanSpent
  <2>2. DrivesToSpot'
    BY <2>1, <1>h, <1>u
  <2> QED
    BY <1>1, <1>t, <1>h, <2>1, <2>2, FinishType
       DEF PlanSpent, TypeInv, LoopTypeOK, DriveTypeOK, worldVars
<1>2. CASE PlanCovered(r)
  <2>1. FinishOrRendezvous(r, PrunedTable(r)) /\ pstate[r] # "NAVIGATE" /\ Measure(r, "below")
    BY <1>2 DEF PlanCovered, Measure, MayPlan
  <2>2. DrivesToSpot'
    BY <2>1, <1>h, <1>u
  <2> QED
    BY <1>2, <1>t, <1>h, <2>1, <2>2, FinishType, MeasureType
       DEF PlanCovered, TypeInv, LoopTypeOK, DriveTypeOK, worldVars
<1>3. CASE LogStep(r)
  <2>1. /\ pstate[r] # "NAVIGATE"
        /\ step' \in [Robot -> Nat]
        /\ UNCHANGED << streak, failed, resting, lately, worldVars >>
    BY <1>3, <1>t DEF LogStep, DriveTypeOK
  <2>2. CASE FinishOrRendezvous(r, heard)
    <3>1. DrivesToSpot'
      BY <2>1, <2>2, <1>h, <1>u
    <3> QED
      BY <1>t, <1>h, <2>1, <2>2, <3>1, FinishType
         DEF TypeInv, LoopTypeOK, DriveTypeOK, worldVars
  <2>3. CASE /\ GoTo(r, IF phase[r] = "EXPLOIT" THEN "EXPLOIT_PLAN" ELSE "PLAN")
             /\ UNCHANGED << phase, goal, exploitVars, radioVars >>
    <3>1. pstate' \in [Robot -> PState]
      BY <2>3, <1>t DEF LoopTypeOK, GoTo, PState
    <3>2. DrivesToSpot'
      BY <2>3, <1>t DEF TypeInv, DrivesToSpot, Exploiting, GoTo, LoopTypeOK
    <3> QED
      BY <1>t, <2>1, <2>3, <3>1, <3>2
         DEF TypeInv, LoopTypeOK, DriveTypeOK, RadioTypeOK, worldVars, exploitVars,
             radioVars
  <2> QED
    BY <1>3, <2>2, <2>3 DEF LogStep
<1> QED
  BY <1>1, <1>2, <1>3

\* Steps of the state machine that leave everything but pstate alone.
LEMMA MoveStepsType ==
  ASSUME TypeInv, NEW r \in Robot,
         Join(r) \/ MapReady(r) \/ ReachAnchor(r) \/ Integrate(r) \/ Stop(r)
  PROVE  TypeInv'
<1>1. /\ \E s \in PState \ {"NAVIGATE"} : GoTo(r, s)
      /\ UNCHANGED << driveVars, exploitVars, radioVars, worldVars >>
  BY DEF Join, MapReady, ReachAnchor, Integrate, Stop, PState
<1>2. pstate' \in [Robot -> PState] /\ DrivesToSpot'
  BY <1>1 DEF TypeInv, LoopTypeOK, DrivesToSpot, Exploiting, GoTo, driveVars
<1> QED
  BY <1>1, <1>2
     DEF TypeInv, LoopTypeOK, DriveTypeOK, RadioTypeOK, driveVars, exploitVars,
         radioVars, worldVars

\* Steps that only drop the claim on the way to another state.
LEMMA ReleaseStepsType ==
  ASSUME TypeInv, NEW r \in Robot,
         TeamBack(r) \/ WaitExpires(r) \/ GoalBlocked(r) \/ ArriveHop(r)
  PROVE  TypeInv'
<1>t. RadioTypeOK /\ heard \in [Robot -> Table]
  BY PrunedTableType DEF TypeInv, LoopTypeOK
<1>1. /\ \E s \in PState \ {"NAVIGATE"} : GoTo(r, s)
      /\ Release(r, heard)
      /\ UNCHANGED goal \/ SetGoal(r, NoGoal)
      /\ UNCHANGED << phase, step, streak, failed, resting, lately, exploitVars >>
      /\ UNCHANGED worldVars \/ Happens
  BY DEF TeamBack, WaitExpires, GoalBlocked, ArriveHop, PState, driveVars
<1>2. RadioTypeOK'
  BY <1>1, <1>t, RadioStep
<1>3. pstate' \in [Robot -> PState] /\ goal' \in [Robot -> Place \cup {NoGoal}]
  <2>1. pstate \in [Robot -> PState] /\ goal \in [Robot -> Place \cup {NoGoal}]
    BY DEF TypeInv, LoopTypeOK, DriveTypeOK
  <2>2. pstate' \in [Robot -> PState]
    <3>1. PICK s \in PState : GoTo(r, s)
      BY <1>1
    <3> QED
      BY <2>1, <3>1 DEF GoTo
  <2>3. goal' \in [Robot -> Place \cup {NoGoal}]
    <3>1. CASE UNCHANGED goal
      BY <2>1, <3>1
    <3>2. CASE SetGoal(r, NoGoal)
      BY <2>1, <3>2 DEF SetGoal
    <3> QED
      BY <1>1, <3>1, <3>2
  <2> QED
    BY <2>2, <2>3
<1>4. DrivesToSpot'
  BY <1>1 DEF TypeInv, LoopTypeOK, DriveTypeOK, DrivesToSpot, Exploiting, GoTo, SetGoal
<1>5. setup' \in Setup /\ linked' \in BOOLEAN /\ spent' \in Nat
  BY <1>1 DEF TypeInv, LoopTypeOK, worldVars, Happens
<1> QED
  BY <1>1, <1>2, <1>3, <1>4, <1>5 DEF TypeInv, LoopTypeOK, DriveTypeOK, exploitVars

\* A target takes over.
LEMMA EngageStepsType ==
  ASSUME TypeInv, NEW r \in Robot,
         PlanEngage(r) \/ HopEngage(r) \/ Wake(r)
  PROVE  TypeInv'
<1>t. RadioTypeOK /\ heard \in [Robot -> Table] /\ PrunedTable(r) \in [Robot -> Table]
  BY PrunedTableType DEF TypeInv, LoopTypeOK
<1>1. /\ Engage(r)
      /\ UNCHANGED << step, streak, resting, lately, worldVars >>
      /\ UNCHANGED failed \/ PruneLists(r)
  BY DEF PlanEngage, HopEngage, Wake
<1>2. RadioTypeOK'
  <2>1. CASE PlanEngage(r)
    BY <2>1, <1>t, RadioStep DEF PlanEngage
  <2>2. CASE HopEngage(r)
    BY <2>2, <1>t, RadioStep DEF HopEngage
  <2>3. CASE Wake(r)
    BY <2>3, <1>t DEF Wake, RadioTypeOK, radioVars
  <2> QED
    BY <2>1, <2>2, <2>3
<1>3. /\ queue' \in [Robot -> Queue]
      /\ phase' \in [Robot -> {"EXPLORE", "EXPLOIT"}]
      /\ pstate' \in [Robot -> PState]
      /\ goal' \in [Robot -> Place \cup {NoGoal}]
  BY <1>1, EngageType DEF TypeInv
<1>4. UNCHANGED << giveup, armed >>
  BY <1>1 DEF Engage
<1>5. failed' \in [Robot -> SUBSET Place]
  BY <1>1, PruneListsType DEF TypeInv, LoopTypeOK, DriveTypeOK
<1>6. DrivesToSpot'
  BY <1>1 DEF Engage, GoTo, SetPhase, SetGoal, TypeInv, LoopTypeOK, DriveTypeOK, DrivesToSpot,
              Exploiting
<1> QED
  BY <1>1, <1>2, <1>3, <1>4, <1>5, <1>6 DEF TypeInv, LoopTypeOK, DriveTypeOK, worldVars

\* PLAN measures and hops or tries again.
LEMMA HopStepsType ==
  ASSUME TypeInv, NEW r \in Robot, PlanHop(r) \/ PlanRetry(r)
  PROVE  TypeInv'
<1>t. RadioTypeOK /\ PrunedTable(r) \in [Robot -> Table] /\ LoopTypeOK
  BY PrunedTableType DEF TypeInv, LoopTypeOK
<1>1. /\ failed' \in [Robot -> SUBSET Place]
      /\ streak' \in [Robot -> Nat]
      /\ lately' \in [Robot -> Seq({"low", "other"})]
  <2>1. \/ \E verdict \in {"below", "above", "unmeasured"} : Measure(r, verdict)
        \/ PruneLists(r) /\ UNCHANGED << streak, lately >>
    BY DEF PlanHop, PlanRetry
  <2>2. CASE \E verdict \in {"below", "above", "unmeasured"} : Measure(r, verdict)
    BY <1>t, <2>2, MeasureType
  <2>3. CASE PruneLists(r) /\ UNCHANGED << streak, lately >>
    BY <1>t, <2>3, PruneListsType DEF LoopTypeOK, DriveTypeOK
  <2> QED
    BY <2>1, <2>2, <2>3
<1>2. CASE PlanHop(r)
  <2>1. RadioTypeOK'
    BY <1>2, <1>t, RadioStep DEF PlanHop
  <2>2. /\ goal' \in [Robot -> Place \cup {NoGoal}]
        /\ phase' \in [Robot -> {"EXPLORE", "EXPLOIT"}]
        /\ pstate' \in [Robot -> PState]
    BY <1>2, <1>t
       DEF PlanHop, SetGoal, SetPhase, GoTo, LoopTypeOK, DriveTypeOK, PState, Setup, Place
  <2>3. DrivesToSpot'
    <3>1. PICK g \in Place : SetGoal(r, g)
      BY <1>2, <1>t DEF PlanHop, Place, LoopTypeOK, Setup
    <3>2. SetPhase(r, "EXPLORE") /\ GoTo(r, "NAVIGATE")
      BY <1>2 DEF PlanHop
    <3> QED
      BY <3>1, <3>2 DEF SetGoal, SetPhase, GoTo, TypeInv, LoopTypeOK, DriveTypeOK,
                        DrivesToSpot, Exploiting
  <2>4. UNCHANGED << step, resting, exploitVars, worldVars >>
    BY <1>2 DEF PlanHop
  <2> QED
    BY <1>1, <1>t, <2>1, <2>2, <2>3, <2>4
       DEF TypeInv, LoopTypeOK, DriveTypeOK, exploitVars, worldVars
<1>3. CASE PlanRetry(r)
  <2>1. /\ SetPhase(r, "EXPLORE") /\ heard' = PrunedTable(r)
        /\ UNCHANGED << pstate, step, goal, resting, exploitVars, have, anchor, worldVars >>
    BY <1>3 DEF PlanRetry
  <2>2. RadioTypeOK'
    BY <2>1, <1>t, RadioStep
  <2>3. phase' \in [Robot -> {"EXPLORE", "EXPLOIT"}] /\ DrivesToSpot'
    BY <2>1 DEF SetPhase, TypeInv, LoopTypeOK, DriveTypeOK, DrivesToSpot, Exploiting
  <2> QED
    BY <1>1, <1>t, <2>1, <2>2, <2>3
       DEF TypeInv, LoopTypeOK, DriveTypeOK, exploitVars, worldVars
<1> QED
  BY <1>2, <1>3

\* The end of a drive.
LEMMA DriveEndsType ==
  ASSUME TypeInv, NEW r \in Robot, DwellOver(r) \/ FailGoal(r)
  PROVE  TypeInv'
<1>t. RadioTypeOK /\ heard \in [Robot -> Table]
  BY PrunedTableType DEF TypeInv, LoopTypeOK
<1>1. CASE DwellOver(r)
  <2>1. goal[r] \in Spot
    BY <1>1 DEF DwellOver, TypeInv, DrivesToSpot, Exploiting
  <2>2. goal[r][2] \in Angle
    BY <2>1 DEF Spot
  <2>3. queue[r] \in Queue
    BY DEF TypeInv, LoopTypeOK
  <2>4. \A clear \in BOOLEAN : RecordVantageDwell(queue[r], goal[r][2], clear) \in Queue
    BY <2>2, <2>3, RecordVantageDwellType
  <2>5. queue' \in [Robot -> Queue]
    BY <1>1, <2>4 DEF DwellOver, TypeInv, LoopTypeOK
  <2>6. /\ SetGiveUp(r, "running") /\ GoTo(r, "LOG_STEP") /\ SetGoal(r, NoGoal)
        /\ UNCHANGED << phase, step, streak, failed, resting, lately, armed, radioVars,
                        worldVars >>
    BY <1>1 DEF DwellOver
  <2>7. /\ giveup' \in [Robot -> {"off", "running", "expired"}]
        /\ pstate' \in [Robot -> PState]
        /\ goal' \in [Robot -> Place \cup {NoGoal}]
    BY <2>6 DEF SetGiveUp, GoTo, SetGoal, TypeInv, LoopTypeOK, DriveTypeOK, PState
  <2>8. DrivesToSpot'
    BY <2>6 DEF GoTo, SetGoal, TypeInv, LoopTypeOK, DriveTypeOK, DrivesToSpot, Exploiting
  <2> QED
    BY <2>5, <2>6, <2>7, <2>8
       DEF TypeInv, LoopTypeOK, DriveTypeOK, RadioTypeOK, radioVars, worldVars
<1>2. CASE FailGoal(r)
  <2>1. /\ failed' = [failed EXCEPT ![r] = @ \cup {goal[r]}]
        /\ resting' = [resting EXCEPT ![r] = @ \cup {goal[r]}]
        /\ GoTo(r, "INTEGRATE") /\ SetGoal(r, NoGoal) /\ Release(r, heard)
        /\ UNCHANGED << phase, step, streak, lately, exploitVars >>
        /\ UNCHANGED worldVars \/ Happens
    BY <1>2 DEF FailGoal
  <2>2. RadioTypeOK'
    BY <1>t, <2>1, RadioStep
  <2>3. setup' \in Setup /\ linked' \in BOOLEAN /\ spent' \in Nat
    BY <2>1 DEF TypeInv, LoopTypeOK, worldVars, Happens
  <2>4. goal[r] \in Place
    BY <1>2 DEF FailGoal, TypeInv, DrivesToSpot
  <2>5. failed[r] \cup {goal[r]} \in SUBSET Place /\ resting[r] \cup {goal[r]} \in SUBSET Place
    BY <2>4 DEF TypeInv, LoopTypeOK, DriveTypeOK
  <2>6. /\ failed' \in [Robot -> SUBSET Place]
        /\ resting' \in [Robot -> SUBSET Place]
    BY <2>1, <2>5 DEF TypeInv, LoopTypeOK, DriveTypeOK
  <2>7. /\ pstate' \in [Robot -> PState]
        /\ goal' \in [Robot -> Place \cup {NoGoal}]
    BY <2>1 DEF GoTo, SetGoal, TypeInv, LoopTypeOK, DriveTypeOK, PState
  <2>8. DrivesToSpot'
    BY <2>1 DEF GoTo, SetGoal, TypeInv, LoopTypeOK, DriveTypeOK, DrivesToSpot, Exploiting
  <2> QED
    BY <2>1, <2>2, <2>3, <2>6, <2>7, <2>8 DEF TypeInv, LoopTypeOK, DriveTypeOK, exploitVars
<1> QED
  BY <1>1, <1>2

\* A tick of EXPLOIT_PLAN.
LEMMA ExploitStepsType ==
  ASSUME TypeInv, NEW r \in Robot,
         CloseTarget(r) \/ StartVantage(r) \/ RetryVantage(r)
  PROVE  TypeInv'
<1>t. RadioTypeOK /\ PrunedTable(r) \in [Robot -> Table] /\ queue[r] \in Queue
  BY PrunedTableType DEF TypeInv, LoopTypeOK
<1>a. \A t \in Target : Activate(queue[r], t) \in Queue
  BY <1>t, ActivateType
<1>1. CASE CloseTarget(r)
  <2>1. PICK t \in Target :
          /\ pstate[r] = "EXPLOIT_PLAN"
          /\ queue' = [queue EXCEPT ![r] = MarkActiveDone(Activate(@, t))]
          /\ armed' = [armed EXCEPT ![r] = @ \ {t}]
          /\ SetGiveUp(r, "off")
          /\ \/ UNCHANGED << phase, pstate >>
             \/ SetPhase(r, "EXPLORE") /\ GoTo(r, "PLAN")
          /\ Release(r, PrunedTable(r))
          /\ UNCHANGED << step, streak, goal, failed, resting, lately, worldVars >>
    BY <1>1 DEF CloseTarget, Working
  <2>2. RadioTypeOK'
    BY <1>t, <2>1, RadioStep
  <2>3. MarkActiveDone(Activate(queue[r], t)) \in Queue
    BY <1>a, MarkActiveDoneType
  <2>4. queue' \in [Robot -> Queue]
    BY <2>1, <2>3 DEF TypeInv, LoopTypeOK
  <2>5. armed' \in [Robot -> SUBSET Target]
    <3>1. armed[r] \ {t} \in SUBSET Target
      BY DEF TypeInv, LoopTypeOK
    <3>2. armed' = [armed EXCEPT ![r] = armed[r] \ {t}]
      BY <2>1
    <3>3. armed \in [Robot -> SUBSET Target]
      BY DEF TypeInv, LoopTypeOK
    <3> QED
      BY <3>1, <3>2, <3>3
  <2>6. /\ giveup' \in [Robot -> {"off", "running", "expired"}]
        /\ phase' \in [Robot -> {"EXPLORE", "EXPLOIT"}]
        /\ pstate' \in [Robot -> PState]
    BY <2>1 DEF SetGiveUp, SetPhase, GoTo, TypeInv, LoopTypeOK, DriveTypeOK, PState
  <2>7. DrivesToSpot'
    BY <2>1 DEF SetPhase, GoTo, TypeInv, LoopTypeOK, DriveTypeOK, DrivesToSpot, Exploiting
  <2> QED
    BY <2>1, <2>2, <2>4, <2>5, <2>6, <2>7 DEF TypeInv, LoopTypeOK, DriveTypeOK, worldVars
<1>s. ASSUME NEW t \in Target, Selecting(r, t)
      PROVE  /\ queue' \in [Robot -> Queue]
             /\ giveup' \in [Robot -> {"off", "running", "expired"}]
             /\ pstate[r] = "EXPLOIT_PLAN"
  BY <1>s, <1>a DEF Selecting, Working, SetGiveUp, TypeInv, LoopTypeOK
<1>2. CASE StartVantage(r)
  <2>1. /\ queue' \in [Robot -> Queue]
        /\ giveup' \in [Robot -> {"off", "running", "expired"}]
    BY <1>2, <1>s DEF StartVantage
  <2>2. PICK g \in Spot : SetGoal(r, g)
    BY <1>2 DEF StartVantage, Spot
  <2>3. /\ PruneLists(r) /\ Announce(r, PrunedTable(r)) /\ GoTo(r, "NAVIGATE")
        /\ UNCHANGED << phase, step, streak, resting, lately, armed, worldVars >>
    BY <1>2 DEF StartVantage
  <2>4. RadioTypeOK'
    BY <1>t, <2>3, RadioStep
  <2>5. failed' \in [Robot -> SUBSET Place]
    BY <2>3, PruneListsType DEF TypeInv, LoopTypeOK
  <2>6. /\ pstate' \in [Robot -> PState]
        /\ goal' \in [Robot -> Place \cup {NoGoal}]
    BY <2>2, <2>3 DEF GoTo, SetGoal, TypeInv, LoopTypeOK, DriveTypeOK, PState, Place
  <2>7. DrivesToSpot'
    BY <2>2, <2>3
       DEF GoTo, SetGoal, TypeInv, LoopTypeOK, DriveTypeOK, DrivesToSpot, Exploiting, Place
  <2> QED
    BY <2>1, <2>3, <2>4, <2>5, <2>6, <2>7 DEF TypeInv, LoopTypeOK, DriveTypeOK, worldVars
<1>3. CASE RetryVantage(r)
  <2>1. /\ queue' \in [Robot -> Queue]
        /\ giveup' \in [Robot -> {"off", "running", "expired"}]
    BY <1>3, <1>s DEF RetryVantage
  <2>2. /\ UNCHANGED failed \/ PruneLists(r)
        /\ heard' = PrunedTable(r)
        /\ UNCHANGED << pstate, phase, step, streak, goal, resting, lately, armed, have,
                        anchor, worldVars >>
    BY <1>3 DEF RetryVantage
  <2>3. RadioTypeOK'
    BY <1>t, <2>2, RadioStep
  <2>4. failed' \in [Robot -> SUBSET Place]
    BY <2>2, PruneListsType DEF TypeInv, LoopTypeOK, DriveTypeOK
  <2>5. DrivesToSpot'
    BY <2>2 DEF TypeInv, DrivesToSpot, Exploiting
  <2> QED
    BY <2>1, <2>2, <2>3, <2>4, <2>5 DEF TypeInv, LoopTypeOK, DriveTypeOK, worldVars
<1> QED
  BY <1>1, <1>2, <1>3

\* Steps of the world, and of the callbacks and timers.
LEMMA WorldStepsType ==
  ASSUME TypeInv, NEW r \in Robot,
         \/ \E t \in Target : OnTreeTarget(r, t)
         \/ StopRequested(r) \/ Heartbeat(r) \/ Clock(r)
  PROVE  TypeInv'
<1>t. RadioTypeOK /\ heard \in [Robot -> Table] /\ queue[r] \in Queue
  BY PrunedTableType DEF TypeInv, LoopTypeOK
<1>1. ASSUME NEW t \in Target, OnTreeTarget(r, t)
      PROVE  TypeInv'
  <2>1. Ingest(queue[r], t) \in Queue
    BY <1>t, IngestType
  <2>2. queue' \in [Robot -> Queue]
    BY <1>1, <2>1 DEF OnTreeTarget, TypeInv, LoopTypeOK
  <2>3. armed' \in [Robot -> SUBSET Target]
    <3>1. UNCHANGED armed \/ armed' = [armed EXCEPT ![r] = armed[r] \cup {t}]
      BY <1>1 DEF OnTreeTarget, Arm, ArmAlways
    <3>2. armed \in [Robot -> SUBSET Target]
      BY DEF TypeInv, LoopTypeOK
    <3>3. armed[r] \cup {t} \in SUBSET Target
      BY <3>2
    <3> QED
      BY <3>1, <3>2, <3>3
  <2>4. UNCHANGED << pstate, driveVars, giveup, radioVars, worldVars >>
    BY <1>1 DEF OnTreeTarget
  <2> QED
    BY <2>2, <2>3, <2>4
       DEF TypeInv, LoopTypeOK, DriveTypeOK, RadioTypeOK, DrivesToSpot, Exploiting,
           driveVars, radioVars, worldVars
<1>2. CASE StopRequested(r)
  <2>1. armed' \in [Robot -> SUBSET Target] /\ pstate' \in [Robot -> PState]
    BY <1>2 DEF StopRequested, GoTo, TypeInv, LoopTypeOK, PState
  <2>2. DrivesToSpot'
    BY <1>2 DEF StopRequested, GoTo, TypeInv, LoopTypeOK, DrivesToSpot, Exploiting, driveVars
  <2> QED
    BY <1>2, <2>1, <2>2
       DEF StopRequested, TypeInv, LoopTypeOK, DriveTypeOK, RadioTypeOK, driveVars,
           radioVars, worldVars
<1>3. CASE Heartbeat(r)
  <2>1. RadioTypeOK'
    <3>1. heard' \in [Robot -> Table] /\ anchor' \in [Robot -> BOOLEAN]
      BY <1>3, <1>t, PublishType DEF Heartbeat
    <3> QED
      BY <1>3, <1>t, <3>1 DEF Heartbeat, RadioTypeOK, Table
  <2> QED
    BY <1>3, <2>1
       DEF Heartbeat, TypeInv, LoopTypeOK, DriveTypeOK, DrivesToSpot, Exploiting,
           driveVars, exploitVars, worldVars
<1>4. ASSUME NEW p \in Robot, ClaimExpires(r, p)
      PROVE  TypeInv'
  <2>1. RadioTypeOK'
    BY <1>4, <1>t DEF ClaimExpires, RadioTypeOK
  <2> QED
    BY <1>4, <2>1
       DEF ClaimExpires, TypeInv, LoopTypeOK, DriveTypeOK, DrivesToSpot, Exploiting,
           driveVars, exploitVars, worldVars
<1>5. ASSUME NEW g \in Place, EntryDecays(r, g)
      PROVE  TypeInv'
  <2>1. resting' \in [Robot -> SUBSET Place]
    BY <1>5 DEF EntryDecays, TypeInv, LoopTypeOK, DriveTypeOK
  <2> QED
    BY <1>5, <2>1
       DEF EntryDecays, TypeInv, LoopTypeOK, DriveTypeOK, RadioTypeOK, DrivesToSpot,
           Exploiting, radioVars, exploitVars, worldVars
<1>6. CASE GiveUpExpires(r)
  BY <1>6
     DEF GiveUpExpires, SetGiveUp, TypeInv, LoopTypeOK, DriveTypeOK, RadioTypeOK,
         DrivesToSpot, Exploiting, driveVars, radioVars, worldVars
<1> QED
  BY <1>1, <1>2, <1>3, <1>4, <1>5, <1>6 DEF Clock

LEMMA LoopStutterType ==
  ASSUME TypeInv, UNCHANGED loopVars
  PROVE  TypeInv'
BY DEF loopVars, TypeInv, LoopTypeOK, DriveTypeOK, RadioTypeOK, DrivesToSpot, Exploiting,
       driveVars, radioVars, exploitVars, worldVars

\* The planners take their steps one robot at a time; only the robots' range
\* changes for all of them.
RobotStep(r) ==
  \/ Join(r) \/ \E t \in Target : OnTreeTarget(r, t)
  \/ MapReady(r) \/ ReachAnchor(r) \/ Integrate(r) \/ Stop(r)
  \/ PlanSpent(r) \/ PlanCovered(r) \/ LogStep(r)
  \/ PlanEngage(r) \/ HopEngage(r) \/ Wake(r)
  \/ PlanHop(r) \/ PlanRetry(r)
  \/ TeamBack(r) \/ WaitExpires(r) \/ GoalBlocked(r) \/ ArriveHop(r)
  \/ DwellOver(r) \/ FailGoal(r)
  \/ CloseTarget(r) \/ StartVantage(r) \/ RetryVantage(r)
  \/ StopRequested(r) \/ Heartbeat(r) \/ Clock(r)

LEMMA LoopNextSteps ==
  ASSUME LoopNext
  PROVE  (\E r \in Robot : RobotStep(r)) \/ LinkChanges
BY DEF LoopNext, LoopStep, Tick, Unsure, Plan, Navigate, Exploit, Return, Finish, RobotStep

LEMMA TypeInvStep ==
  ASSUME TypeInv, [LoopNext]_loopVars
  PROVE  TypeInv'
<1>1. ASSUME NEW r \in Robot, RobotStep(r)
      PROVE  TypeInv'
  BY <1>1, MoveStepsType, FinishStepsType, EngageStepsType, HopStepsType,
     ReleaseStepsType, DriveEndsType, ExploitStepsType, WorldStepsType DEF RobotStep
<1>2. CASE LinkChanges
  BY <1>2
     DEF LinkChanges, TypeInv, LoopTypeOK, DriveTypeOK, RadioTypeOK, DrivesToSpot,
         Exploiting, driveVars, radioVars, exploitVars
<1> QED
  BY <1>1, <1>2, LoopNextSteps, LoopStutterType

\* Every variable of the loop keeps its type.
THEOREM LoopTypes == LoopSpec => []LoopTypeOK
<1>1. LoopSpec => []TypeInv
  BY LoopInitType, TypeInvStep, PTL DEF LoopSpec
<1>2. TypeInv => LoopTypeOK
  BY DEF TypeInv
<1> QED
  BY <1>1, <1>2, PTL

----------------------------------------------------------------------------
(***************************************************************************)
(* What holds of one robot, whatever the others do.  The clock of a target *)
(* runs, and the phase is EXPLOIT, only while a target is open: that is    *)
(* why standing down, which looks at the queue alone, stops both.          *)
(***************************************************************************)
QueueOwn(r) ==
  /\ OneActive(queue[r])
  /\ phase[r] = "EXPLOIT" => HasPending(queue[r])
  /\ giveup[r] # "off" => HasPending(queue[r])
  /\ pstate[r] = "EXPLOIT_PLAN" => phase[r] = "EXPLOIT"

RestsOwn(r) ==
  /\ resting[r] \subseteq failed[r]
  /\ pstate[r] = "NAVIGATE" => goal[r] \in Place \ resting[r]

RegionsOwn(r) == pstate[r] \notin {"STOPPING", "EXIT"} => armed[r] = Open(queue[r])

BarrierOwn(r) ==
  pstate[r] \in Returning =>
    ActiveTarget(queue[r]) = NoTarget /\ giveup[r] = "off" /\ phase[r] = "EXPLORE"

Own(r) == QueueOwn(r) /\ RestsOwn(r) /\ RegionsOwn(r) /\ BarrierOwn(r)

LoopInv == TypeInv /\ \A r \in Robot : Own(r)

\* The same state, as far as Own is concerned.
OwnKept(r) ==
  /\ pstate'[r] = pstate[r] /\ phase'[r] = phase[r] /\ goal'[r] = goal[r]
  /\ failed'[r] = failed[r] /\ resting'[r] = resting[r]
  /\ queue'[r] = queue[r] /\ giveup'[r] = giveup[r] /\ armed'[r] = armed[r]

LEMMA OwnKeptOwn ==
  ASSUME NEW r \in Robot, Own(r), OwnKept(r)
  PROVE  Own(r)'
BY DEF Own, OwnKept, QueueOwn, RestsOwn, RegionsOwn, BarrierOwn

LEMMA EmptyQueueOpen == Open(EmptyQueue) = {} /\ ActiveTarget(EmptyQueue) = NoTarget
BY TargetAssumption DEF Open, EmptyQueue, FreshEntry, ActiveTarget

LEMMA LoopInitOwn == LoopInit => \A r \in Robot : Own(r)
BY EmptyQueueActive, EmptyQueueOpen
   DEF LoopInit, Own, QueueOwn, RestsOwn, RegionsOwn, BarrierOwn, Returning

\* Steps that leave the queue, the clock and the blacklist alone.
LEMMA MoveStepsOwn ==
  ASSUME TypeInv, NEW r \in Robot, Own(r),
         Join(r) \/ MapReady(r) \/ ReachAnchor(r) \/ Integrate(r) \/ Stop(r)
  PROVE  Own(r)'
<1>1. /\ \E s \in {"WAIT_FOR_MAP", "PLAN", "LOG_STEP", "RETURN_SYNC", "EXIT"} :
           /\ pstate'[r] = s
           /\ s = "RETURN_SYNC" => pstate[r] = "RETURN_NAV"
           /\ pstate[r] = "STOPPING" => s = "EXIT"
      /\ UNCHANGED << driveVars, exploitVars >>
      /\ pstate[r] # "EXIT"
  BY DEF Join, MapReady, ReachAnchor, Integrate, Stop, GoTo, TypeInv, LoopTypeOK
<1> QED
  BY <1>1 DEF Own, QueueOwn, RestsOwn, RegionsOwn, BarrierOwn, Returning, driveVars,
              exploitVars

LEMMA ReleaseStepsOwn ==
  ASSUME TypeInv, NEW r \in Robot, Own(r),
         TeamBack(r) \/ WaitExpires(r) \/ GoalBlocked(r) \/ ArriveHop(r)
  PROVE  Own(r)'
<1>1. /\ pstate'[r] \in {"PLAN", "DONE", "INTEGRATE"}
      /\ UNCHANGED << phase, step, streak, failed, resting, lately, exploitVars >>
      /\ pstate[r] \in Returning \cup {"NAVIGATE"}
  BY DEF TeamBack, WaitExpires, GoalBlocked, ArriveHop, Exploring, GoTo, TypeInv,
         LoopTypeOK, Returning, driveVars
<1> QED
  BY <1>1 DEF Own, QueueOwn, RestsOwn, RegionsOwn, BarrierOwn, Returning, exploitVars

\* The hand-over to the barrier, or to DONE.
LEMMA FinishOwn ==
  ASSUME TypeInv, NEW r \in Robot, Own(r), NEW table, FinishOrRendezvous(r, table),
         pstate[r] \in {"PLAN", "LOG_STEP"},
         resting'[r] = resting[r], failed'[r] \in {failed[r], Pruned(r)}
  PROVE  Own(r)'
<1> DEFINE q == Deactivate(queue[r])
<1>1. queue[r] \in Queue
  BY DEF TypeInv, LoopTypeOK
<1>2. /\ Open(q) = Open(queue[r]) /\ ActiveTarget(q) = NoTarget
      /\ OneActive(q)
  BY <1>1, DeactivateOpen, SetActiveStatusActive
     DEF Deactivate, Own, QueueOwn, Status
<1> HIDE DEF q
<1>3. RestsOwn(r)'
  <2>1. resting[r] \subseteq failed'[r]
    BY DEF Own, RestsOwn, Pruned
  <2>2. pstate'[r] \in {"RETURN_NAV", "DONE"}
    BY DEF FinishOrRendezvous, GoTo, TypeInv, LoopTypeOK
  <2> QED
    BY <2>1, <2>2 DEF RestsOwn
<1>4. CASE ShouldRendezvous(r)
  <2>1. queue'[r] = q /\ UNCHANGED armed /\ pstate'[r] = "RETURN_NAV"
    BY <1>4 DEF FinishOrRendezvous, StandDown, GoTo, TypeInv, LoopTypeOK, q
  <2>2. phase'[r] = "EXPLORE" /\ giveup'[r] = "off"
    <3>1. CASE HasPending(queue[r])
      BY <1>4, <3>1 DEF FinishOrRendezvous, StandDown, SetPhase, SetGiveUp, TypeInv,
                        LoopTypeOK, DriveTypeOK
    <3>2. CASE ~ HasPending(queue[r])
      <4>1. phase[r] = "EXPLORE" /\ giveup[r] = "off"
        BY <3>2 DEF Own, QueueOwn, TypeInv, LoopTypeOK, DriveTypeOK
      <4> QED
        BY <1>4, <3>2, <4>1 DEF FinishOrRendezvous, StandDown
    <3> QED
      BY <3>1, <3>2
  <2> QED
    BY <1>2, <1>3, <2>1, <2>2 DEF Own, QueueOwn, RegionsOwn, BarrierOwn
<1>5. CASE ~ ShouldRendezvous(r)
  <2>1. pstate'[r] = "DONE" /\ UNCHANGED << phase, goal, exploitVars >>
    BY <1>5 DEF FinishOrRendezvous, GoTo, TypeInv, LoopTypeOK
  <2> QED
    BY <1>3, <2>1 DEF Own, QueueOwn, RegionsOwn, BarrierOwn, Returning, exploitVars
<1> QED
  BY <1>4, <1>5

LEMMA FinishStepsOwn ==
  ASSUME TypeInv, NEW r \in Robot, Own(r),
         PlanSpent(r) \/ PlanCovered(r) \/ LogStep(r)
  PROVE  Own(r)'
<1>1. CASE PlanSpent(r)
  BY <1>1, FinishOwn DEF PlanSpent
<1>2. CASE PlanCovered(r)
  <2>1. FinishOrRendezvous(r, PrunedTable(r)) /\ pstate[r] = "PLAN" /\ UNCHANGED resting
    BY <1>2 DEF PlanCovered, Measure, MayPlan
  <2>2. failed'[r] = Pruned(r)
    BY <1>2 DEF PlanCovered, Measure, PruneLists, TypeInv, LoopTypeOK, DriveTypeOK
  <2> QED
    BY <2>1, <2>2, FinishOwn
<1>3. CASE LogStep(r)
  <2>1. pstate[r] = "LOG_STEP" /\ UNCHANGED << failed, resting >>
    BY <1>3 DEF LogStep
  <2>2. CASE FinishOrRendezvous(r, heard)
    BY <2>1, <2>2, FinishOwn
  <2>3. CASE /\ GoTo(r, IF phase[r] = "EXPLOIT" THEN "EXPLOIT_PLAN" ELSE "PLAN")
             /\ UNCHANGED << phase, goal, exploitVars >>
    <3>1. pstate'[r] = IF phase[r] = "EXPLOIT" THEN "EXPLOIT_PLAN" ELSE "PLAN"
      BY <2>3 DEF GoTo, TypeInv, LoopTypeOK
    <3> QED
      BY <2>1, <2>3, <3>1 DEF Own, QueueOwn, RestsOwn, RegionsOwn, BarrierOwn, Returning,
                              exploitVars
  <2> QED
    BY <1>3, <2>2, <2>3 DEF LogStep
<1> QED
  BY <1>1, <1>2, <1>3

\* A robot and the target it settles on.
LEMMA SettleOwn ==
  ASSUME TypeInv, NEW r \in Robot, Own(r), NEW t \in Target, Promotes(queue[r], t)
  PROVE  /\ OneActive(Activate(queue[r], t))
         /\ Open(Activate(queue[r], t)) = Open(queue[r])
         /\ t \in Open(queue[r])
<1>1. queue[r] \in Queue /\ OneActive(queue[r])
  BY DEF TypeInv, LoopTypeOK, Own, QueueOwn
<1> QED
  BY <1>1, PromotesOpen, ActivateOpen, ActivateActive

LEMMA EngageStepsOwn ==
  ASSUME TypeInv, NEW r \in Robot, Own(r),
         PlanEngage(r) \/ HopEngage(r) \/ Wake(r)
  PROVE  Own(r)'
<1>1. /\ Engage(r) /\ UNCHANGED resting
      /\ UNCHANGED failed \/ PruneLists(r)
      /\ pstate[r] \in {"PLAN", "NAVIGATE", "DONE"}
  BY DEF PlanEngage, MayPlan, HopEngage, Exploring, Wake
<1>2. PICK t \in Target : Promotes(queue[r], t) /\ queue' = [queue EXCEPT ![r] = Activate(@, t)]
  BY <1>1 DEF Engage
<1>3. queue'[r] = Activate(queue[r], t)
  BY <1>2 DEF TypeInv, LoopTypeOK
<1>4. OneActive(queue'[r]) /\ Open(queue'[r]) = Open(queue[r]) /\ t \in Open(queue[r])
  BY <1>2, <1>3, SettleOwn
<1>5. /\ phase'[r] = "EXPLOIT" /\ pstate'[r] = "EXPLOIT_PLAN"
      /\ UNCHANGED << giveup, armed >>
  BY <1>1 DEF Engage, SetPhase, GoTo, TypeInv, LoopTypeOK, DriveTypeOK
<1>6. resting'[r] \subseteq failed'[r]
  BY <1>1 DEF PruneLists, Pruned, Own, RestsOwn, TypeInv, LoopTypeOK, DriveTypeOK
<1> QED
  BY <1>1, <1>4, <1>5, <1>6
     DEF Own, QueueOwn, RestsOwn, RegionsOwn, BarrierOwn, HasPending, Returning

\* A goal that still rests is in the blacklist after its pruning.
LEMMA PrunedRests ==
  ASSUME TypeInv, NEW r \in Robot, Own(r), PruneLists(r)
  PROVE  failed'[r] = resting[r] /\ Pruned(r) = resting[r]
BY DEF PruneLists, Pruned, Own, RestsOwn, TypeInv, LoopTypeOK, DriveTypeOK

LEMMA HopStepsOwn ==
  ASSUME TypeInv, NEW r \in Robot, Own(r), PlanHop(r) \/ PlanRetry(r)
  PROVE  Own(r)'
<1>1. /\ PruneLists(r) /\ pstate[r] = "PLAN" /\ SetPhase(r, "EXPLORE")
      /\ UNCHANGED << resting, exploitVars >>
  BY DEF PlanHop, PlanRetry, Measure, MayPlan
<1>2. /\ phase'[r] = "EXPLORE"
      /\ failed'[r] = resting[r] /\ resting'[r] = resting[r]
  BY <1>1, PrunedRests DEF SetPhase, TypeInv, LoopTypeOK, DriveTypeOK
<1>3. /\ pstate'[r] \in {"PLAN", "NAVIGATE"}
      /\ pstate'[r] = "NAVIGATE" => goal'[r] \in Place \ resting[r]
  <2>1. CASE PlanHop(r)
    <3>1. PICK g \in setup.goals \ Pruned(r) : SetGoal(r, g)
      BY <2>1 DEF PlanHop
    <3>2. g \in Place \ resting[r]
      BY <1>1, <3>1, PrunedRests DEF TypeInv, LoopTypeOK, Setup, Place
    <3> QED
      BY <2>1, <3>1, <3>2 DEF PlanHop, SetGoal, GoTo, TypeInv, LoopTypeOK, DriveTypeOK
  <2>2. CASE PlanRetry(r)
    BY <1>1, <2>2 DEF PlanRetry
  <2> QED
    BY <2>1, <2>2
<1> QED
  BY <1>1, <1>2, <1>3
     DEF Own, QueueOwn, RestsOwn, RegionsOwn, BarrierOwn, Returning, exploitVars

LEMMA DriveEndsOwn ==
  ASSUME TypeInv, NEW r \in Robot, Own(r), DwellOver(r) \/ FailGoal(r)
  PROVE  Own(r)'
<1>1. CASE DwellOver(r)
  <2>1. pstate[r] = "NAVIGATE" /\ phase[r] = "EXPLOIT"
    BY <1>1 DEF DwellOver, Exploiting
  <2>2. goal[r][2] \in Angle
    BY <2>1 DEF TypeInv, DrivesToSpot, Exploiting, Spot
  <2>3. PICK clear \in BOOLEAN :
          queue' = [queue EXCEPT ![r] = RecordVantageDwell(@, goal[r][2], clear)]
    BY <1>1 DEF DwellOver
  <2>4. /\ queue[r] \in Queue
        /\ queue'[r] = RecordVantageDwell(queue[r], goal[r][2], clear)
    BY <2>3 DEF TypeInv, LoopTypeOK
  <2>5. SameStatus(queue[r], queue'[r])
    BY <2>2, <2>4, RecordVantageDwellStatus
  <2>6. /\ ActiveTarget(queue'[r]) = ActiveTarget(queue[r])
        /\ Open(queue'[r]) = Open(queue[r])
        /\ OneActive(queue'[r])
    BY <2>5, SameStatusActive DEF Own, QueueOwn
  <2>7. /\ pstate'[r] = "LOG_STEP"
        /\ UNCHANGED << phase, failed, resting, armed >>
    BY <1>1 DEF DwellOver, GoTo, TypeInv, LoopTypeOK
  <2> QED
    BY <2>1, <2>6, <2>7
       DEF Own, QueueOwn, RestsOwn, RegionsOwn, BarrierOwn, HasPending, Returning
<1>2. CASE FailGoal(r)
  <2>1. /\ failed'[r] = failed[r] \cup {goal[r]}
        /\ resting'[r] = resting[r] \cup {goal[r]}
        /\ pstate'[r] = "INTEGRATE" /\ pstate[r] = "NAVIGATE"
        /\ UNCHANGED << phase, exploitVars >>
    BY <1>2 DEF FailGoal, GoTo, TypeInv, LoopTypeOK, DriveTypeOK
  <2> QED
    BY <2>1 DEF Own, QueueOwn, RestsOwn, RegionsOwn, BarrierOwn, Returning, exploitVars
<1> QED
  BY <1>1, <1>2

LEMMA ExploitStepsOwn ==
  ASSUME TypeInv, NEW r \in Robot, Own(r),
         CloseTarget(r) \/ StartVantage(r) \/ RetryVantage(r)
  PROVE  Own(r)'
<1>q. queue[r] \in Queue
  BY DEF TypeInv, LoopTypeOK
<1>1. CASE CloseTarget(r)
  <2>1. PICK t \in Target :
          /\ Working(r, t)
          /\ queue' = [queue EXCEPT ![r] = MarkActiveDone(Activate(@, t))]
          /\ armed' = [armed EXCEPT ![r] = @ \ {t}]
          /\ SetGiveUp(r, "off")
          /\ IF HasPending(queue'[r])
               THEN UNCHANGED << phase, pstate >>
               ELSE SetPhase(r, "EXPLORE") /\ GoTo(r, "PLAN")
          /\ UNCHANGED << failed, resting >>
    BY <1>1 DEF CloseTarget
  <2>2. /\ pstate[r] = "EXPLOIT_PLAN"
        /\ OneActive(Activate(queue[r], t)) /\ Activate(queue[r], t) \in Queue
        /\ t \in Open(queue[r])
    BY <1>q, <2>1, SettleOwn, ActivateType DEF Working
  <2>3. queue'[r] = MarkActiveDone(Activate(queue[r], t))
    BY <2>1 DEF TypeInv, LoopTypeOK
  <2>4. OneActive(queue'[r]) /\ Open(queue'[r]) = Open(queue[r]) \ {t}
    BY <1>q, <2>2, <2>3, SetActiveStatusActive, CloseOpen DEF MarkActiveDone, Status
  <2>5. armed'[r] = armed[r] \ {t} /\ giveup'[r] = "off"
    BY <2>1 DEF TypeInv, LoopTypeOK, SetGiveUp
  <2>6. \/ HasPending(queue'[r]) /\ UNCHANGED << phase, pstate >>
        \/ phase'[r] = "EXPLORE" /\ pstate'[r] = "PLAN"
    BY <2>1 DEF SetPhase, GoTo, TypeInv, LoopTypeOK, DriveTypeOK
  <2> QED
    BY <2>1, <2>2, <2>4, <2>5, <2>6
       DEF Own, QueueOwn, RestsOwn, RegionsOwn, BarrierOwn, Returning
<1>s. ASSUME NEW t \in Target, Selecting(r, t)
      PROVE  /\ pstate[r] = "EXPLOIT_PLAN" /\ giveup'[r] = "running"
             /\ OneActive(queue'[r]) /\ Open(queue'[r]) = Open(queue[r])
             /\ HasPending(queue'[r])
  <2>1. queue'[r] = Activate(queue[r], t) /\ Promotes(queue[r], t)
    BY <1>s DEF Selecting, Working, TypeInv, LoopTypeOK
  <2> QED
    BY <1>s, <2>1, SettleOwn DEF Selecting, Working, SetGiveUp, TypeInv, LoopTypeOK, HasPending
<1>2. CASE StartVantage(r)
  <2>1. PICK t \in Target :
          /\ Selecting(r, t)
          /\ \E k \in Angle : << t, k >> \notin Pruned(r) /\ SetGoal(r, << t, k >>)
    BY <1>2 DEF StartVantage
  <2>2. PruneLists(r) /\ GoTo(r, "NAVIGATE") /\ UNCHANGED << phase, resting, armed >>
    BY <1>2 DEF StartVantage
  <2>3. failed'[r] = resting[r] /\ Pruned(r) = resting[r]
    BY <2>2, PrunedRests
  <2>4. pstate'[r] = "NAVIGATE" /\ goal'[r] \in Place \ resting[r]
    BY <2>1, <2>2, <2>3 DEF SetGoal, GoTo, TypeInv, LoopTypeOK, DriveTypeOK, Place, Spot
  <2> QED
    BY <1>s, <2>1, <2>2, <2>3, <2>4
       DEF Own, QueueOwn, RestsOwn, RegionsOwn, BarrierOwn, Returning
<1>3. CASE RetryVantage(r)
  <2>1. PICK t \in Target : Selecting(r, t)
    BY <1>3 DEF RetryVantage
  <2>2. /\ UNCHANGED failed \/ PruneLists(r)
        /\ UNCHANGED << pstate, phase, goal, resting, armed >>
    BY <1>3 DEF RetryVantage
  <2>3. resting[r] \subseteq failed'[r]
    BY <2>2, PrunedRests DEF Own, RestsOwn
  <2> QED
    BY <1>s, <2>1, <2>2, <2>3
       DEF Own, QueueOwn, RestsOwn, RegionsOwn, BarrierOwn, Returning
<1> QED
  BY <1>1, <1>2, <1>3

LEMMA WorldStepsOwn ==
  ASSUME TypeInv, NEW r \in Robot, Own(r),
         \/ \E t \in Target : OnTreeTarget(r, t)
         \/ StopRequested(r) \/ Heartbeat(r) \/ Clock(r)
  PROVE  Own(r)'
<1>1. ASSUME NEW t \in Target, OnTreeTarget(r, t)
      PROVE  Own(r)'
  <2>1. queue[r] \in Queue /\ OneActive(queue[r]) /\ queue'[r] = Ingest(queue[r], t)
    BY <1>1 DEF OnTreeTarget, TypeInv, LoopTypeOK, Own, QueueOwn
  <2>2. /\ OneActive(queue'[r])
        /\ ActiveTarget(queue'[r]) = ActiveTarget(queue[r])
        /\ Open(queue[r]) \subseteq Open(queue'[r])
    BY <2>1, IngestActive
  <2>3. UNCHANGED << pstate, driveVars, giveup >>
    BY <1>1 DEF OnTreeTarget
  <2>4. armed[r] = Open(queue[r]) => armed'[r] = Open(queue'[r])
    <3>1. CASE Duplicate(queue[r], t)
      BY <1>1, <2>1, <3>1 DEF OnTreeTarget, Arm, Ingest
    <3>2. CASE ~ Duplicate(queue[r], t)
      <4>1. armed'[r] = armed[r] \cup {t}
        BY <1>1, <3>2 DEF OnTreeTarget, Arm, ArmAlways, TypeInv, LoopTypeOK
      <4> QED
        BY <2>1, <3>2, <4>1, IngestOpen
    <3> QED
      BY <3>1, <3>2
  <2> QED
    BY <2>2, <2>3, <2>4
       DEF Own, QueueOwn, RestsOwn, RegionsOwn, BarrierOwn, HasPending, driveVars
<1>2. CASE StopRequested(r)
  BY <1>2 DEF StopRequested, GoTo, TypeInv, LoopTypeOK, Own, QueueOwn, RestsOwn,
              RegionsOwn, BarrierOwn, Returning, driveVars
<1>3. CASE Heartbeat(r)
  BY <1>3, OwnKeptOwn DEF Heartbeat, OwnKept, driveVars, exploitVars
<1>4. ASSUME NEW p \in Robot, ClaimExpires(r, p)
      PROVE  Own(r)'
  BY <1>4, OwnKeptOwn DEF ClaimExpires, OwnKept, driveVars, exploitVars
<1>5. ASSUME NEW g \in Place, EntryDecays(r, g)
      PROVE  Own(r)'
  <2>1. /\ resting'[r] = resting[r] \ {g}
        /\ UNCHANGED << pstate, phase, goal, failed, exploitVars >>
    BY <1>5 DEF EntryDecays, TypeInv, LoopTypeOK, DriveTypeOK
  <2> QED
    BY <2>1 DEF Own, QueueOwn, RestsOwn, RegionsOwn, BarrierOwn, exploitVars
<1>6. CASE GiveUpExpires(r)
  <2>1. /\ giveup[r] = "running" /\ giveup'[r] = "expired"
        /\ UNCHANGED << pstate, driveVars, queue, armed >>
    BY <1>6 DEF GiveUpExpires, SetGiveUp, TypeInv, LoopTypeOK
  <2> QED
    BY <2>1 DEF Own, QueueOwn, RestsOwn, RegionsOwn, BarrierOwn, driveVars
<1> QED
  BY <1>1, <1>2, <1>3, <1>4, <1>5, <1>6 DEF Clock

\* A step of r leaves the state of every other robot alone, but for what it
\* hears.
LEMMA EngageOthers ==
  ASSUME TypeInv, NEW r \in Robot, NEW p \in Robot \ {r}, Engage(r)
  PROVE  /\ pstate'[p] = pstate[p] /\ phase'[p] = phase[p] /\ goal'[p] = goal[p]
         /\ queue'[p] = queue[p] /\ giveup'[p] = giveup[p] /\ armed'[p] = armed[p]
BY DEF Engage, SetPhase, GoTo, SetGoal, TypeInv, LoopTypeOK, DriveTypeOK

LEMMA FinishOthers ==
  ASSUME TypeInv, NEW r \in Robot, NEW p \in Robot \ {r}, NEW table,
         FinishOrRendezvous(r, table)
  PROVE  /\ pstate'[p] = pstate[p] /\ phase'[p] = phase[p] /\ goal'[p] = goal[p]
         /\ queue'[p] = queue[p] /\ giveup'[p] = giveup[p] /\ armed'[p] = armed[p]
BY DEF FinishOrRendezvous, StandDown, SetPhase, SetGiveUp, GoTo, SetGoal, exploitVars,
       TypeInv, LoopTypeOK, DriveTypeOK

LEMMA PruneListsOthers ==
  ASSUME TypeInv, NEW r \in Robot, NEW p \in Robot \ {r}, PruneLists(r)
  PROVE  failed'[p] = failed[p]
BY DEF PruneLists, TypeInv, LoopTypeOK, DriveTypeOK

LEMMA OthersKept ==
  ASSUME TypeInv, NEW r \in Robot, RobotStep(r), NEW p \in Robot \ {r}
  PROVE  OwnKept(p)
<1> USE DEF OwnKept
<1>1. CASE \/ Join(r) \/ MapReady(r) \/ ReachAnchor(r) \/ Integrate(r) \/ Stop(r)
  BY <1>1 DEF Join, MapReady, ReachAnchor, Integrate, Stop, GoTo, TypeInv, LoopTypeOK,
              driveVars, exploitVars
<1>2. CASE \/ TeamBack(r) \/ WaitExpires(r) \/ GoalBlocked(r) \/ ArriveHop(r)
  BY <1>2 DEF TeamBack, WaitExpires, GoalBlocked, ArriveHop, GoTo, SetGoal, TypeInv,
              LoopTypeOK, DriveTypeOK, driveVars, exploitVars
<1>3. CASE PlanSpent(r)
  BY <1>3, FinishOthers DEF PlanSpent
<1>4. CASE PlanCovered(r)
  BY <1>4, FinishOthers, PruneListsOthers DEF PlanCovered, Measure
<1>5. CASE LogStep(r)
  <2>1. UNCHANGED << failed, resting >>
    BY <1>5 DEF LogStep
  <2>2. CASE FinishOrRendezvous(r, heard)
    BY <2>1, <2>2, FinishOthers
  <2>3. CASE /\ GoTo(r, IF phase[r] = "EXPLOIT" THEN "EXPLOIT_PLAN" ELSE "PLAN")
             /\ UNCHANGED << phase, goal, exploitVars >>
    BY <2>1, <2>3 DEF GoTo, exploitVars, TypeInv, LoopTypeOK
  <2> QED
    BY <1>5, <2>2, <2>3 DEF LogStep
<1>6. CASE PlanEngage(r) \/ HopEngage(r) \/ Wake(r)
  BY <1>6, EngageOthers, PruneListsOthers DEF PlanEngage, HopEngage, Wake
<1>7. CASE PlanHop(r) \/ PlanRetry(r)
  <2>1. /\ PruneLists(r) /\ SetPhase(r, "EXPLORE")
        /\ UNCHANGED << resting, exploitVars >>
        /\ UNCHANGED pstate \/ GoTo(r, "NAVIGATE")
        /\ UNCHANGED goal \/ \E g \in setup.goals : SetGoal(r, g)
    BY <1>7 DEF PlanHop, PlanRetry, Measure
  <2> QED
    BY <2>1, PruneListsOthers
       DEF SetPhase, GoTo, SetGoal, exploitVars, TypeInv, LoopTypeOK, DriveTypeOK
<1>8. CASE DwellOver(r)
  BY <1>8 DEF DwellOver, SetGiveUp, GoTo, SetGoal, TypeInv, LoopTypeOK, DriveTypeOK
<1>9. CASE FailGoal(r)
  BY <1>9 DEF FailGoal, GoTo, SetGoal, TypeInv, LoopTypeOK, DriveTypeOK, exploitVars
<1>10. CASE CloseTarget(r)
  BY <1>10 DEF CloseTarget, SetGiveUp, SetPhase, GoTo, TypeInv, LoopTypeOK, DriveTypeOK
<1>11. CASE StartVantage(r)
  BY <1>11, PruneListsOthers
     DEF StartVantage, Selecting, SetGiveUp, SetGoal, GoTo, TypeInv, LoopTypeOK, DriveTypeOK
<1>12. CASE RetryVantage(r)
  BY <1>12, PruneListsOthers DEF RetryVantage, Selecting, SetGiveUp, TypeInv, LoopTypeOK
<1>13. CASE StopRequested(r) \/ Heartbeat(r)
  BY <1>13 DEF StopRequested, Heartbeat, GoTo, TypeInv, LoopTypeOK, driveVars, exploitVars
<1>14. CASE \E t \in Target : OnTreeTarget(r, t)
  BY <1>14 DEF OnTreeTarget, Arm, ArmAlways, TypeInv, LoopTypeOK, driveVars
<1>15. CASE Clock(r)
  BY <1>15 DEF Clock, ClaimExpires, EntryDecays, GiveUpExpires, SetGiveUp, TypeInv,
               LoopTypeOK, DriveTypeOK, driveVars, exploitVars
<1> QED
  BY <1>1, <1>2, <1>3, <1>4, <1>5, <1>6, <1>7, <1>8, <1>9, <1>10, <1>11, <1>12, <1>13,
     <1>14, <1>15 DEF RobotStep

LEMMA LinkOthers ==
  ASSUME NEW p \in Robot, LinkChanges \/ UNCHANGED loopVars
  PROVE  OwnKept(p)
BY DEF OwnKept, LinkChanges, loopVars, driveVars, exploitVars

LEMMA LoopInvStep ==
  ASSUME LoopInv, [LoopNext]_loopVars
  PROVE  LoopInv'
<1>t. TypeInv /\ TypeInv'
  BY TypeInvStep DEF LoopInv
<1>1. ASSUME NEW r \in Robot, RobotStep(r), NEW p \in Robot
      PROVE  Own(p)'
  <2>1. Own(p)
    BY DEF LoopInv
  <2>2. CASE p = r
    BY <1>1, <1>t, <2>1, <2>2, MoveStepsOwn, FinishStepsOwn, EngageStepsOwn, HopStepsOwn,
       ReleaseStepsOwn, DriveEndsOwn, ExploitStepsOwn, WorldStepsOwn DEF RobotStep
  <2>3. CASE p # r
    BY <1>1, <1>t, <2>1, <2>3, OthersKept, OwnKeptOwn
  <2> QED
    BY <2>2, <2>3
<1>2. ASSUME LinkChanges \/ UNCHANGED loopVars, NEW p \in Robot
      PROVE  Own(p)'
  BY <1>2, LinkOthers, OwnKeptOwn DEF LoopInv
<1>3. \A p \in Robot : Own(p)'
  BY <1>1, <1>2, LoopNextSteps
<1> QED
  BY <1>t, <1>3 DEF LoopInv

LEMMA LoopInvariant == LoopSpec => []LoopInv
<1>1. LoopInit => LoopInv
  BY LoopInitType, LoopInitOwn DEF LoopInv
<1> QED
  BY <1>1, LoopInvStep, PTL DEF LoopSpec

\* LoopInv is strong enough for each property of the loop's states.
LEMMA LoopInvImplies ==
  LoopInv => FailedGoalRests /\ RegionsFollowQueue /\ BarrierSuspendsExploit
BY DEF LoopInv, Own, RestsOwn, RegionsOwn, BarrierOwn, FailedGoalRests,
       RegionsFollowQueue, BarrierSuspendsExploit

\* No robot drives again to a goal it failed at while that entry rests.
THEOREM FailedGoalsRest == LoopSpec => []FailedGoalRests
BY LoopInvariant, LoopInvImplies, PTL

\* The mapper refines exactly the open targets of every running planner.
THEOREM RegionsFollow == LoopSpec => []RegionsFollowQueue
BY LoopInvariant, LoopInvImplies, PTL

\* Nothing is exploited behind the barrier.
THEOREM BarrierSuspends == LoopSpec => []BarrierSuspendsExploit
BY LoopInvariant, LoopInvImplies, PTL

----------------------------------------------------------------------------
\* Only PLAN starts a hop: every other way into NAVIGATE is a drive for a
\* target, made in the EXPLOIT phase.
LEMMA HopsStartInPlan ==
  ASSUME LoopInv, [LoopNext]_loopVars, NEW p \in Robot, StartsHop(p)
  PROVE  PlanHop(p)
<1>0. ~ OwnKept(p)
  BY DEF StartsHop, Exploring, OwnKept
<1>1. PICK r \in Robot : RobotStep(r)
  BY <1>0, LoopNextSteps, LinkOthers
<1>2. r = p
  BY <1>0, <1>1, OthersKept DEF LoopInv
<1>3. TypeInv /\ Own(p)
  BY DEF LoopInv
<1>4. ASSUME pstate'[p] # "NAVIGATE"
      PROVE  FALSE
  BY <1>4 DEF StartsHop, Exploring
<1>5. ASSUME phase'[p] = "EXPLOIT"
      PROVE  FALSE
  BY <1>5 DEF StartsHop, Exploring
<1>6. ASSUME pstate'[p] = pstate[p], phase'[p] = phase[p]
      PROVE  FALSE
  BY <1>6 DEF StartsHop, Exploring
<1>7. CASE Join(p) \/ MapReady(p) \/ ReachAnchor(p) \/ Integrate(p) \/ Stop(p)
  BY <1>3, <1>4, <1>7
     DEF Join, MapReady, ReachAnchor, Integrate, Stop, GoTo, TypeInv, LoopTypeOK
<1>8. CASE TeamBack(p) \/ WaitExpires(p) \/ GoalBlocked(p) \/ ArriveHop(p)
  BY <1>3, <1>4, <1>8
     DEF TeamBack, WaitExpires, GoalBlocked, ArriveHop, GoTo, TypeInv, LoopTypeOK
<1>9. CASE PlanSpent(p) \/ PlanCovered(p) \/ LogStep(p)
  BY <1>3, <1>4, <1>9
     DEF PlanSpent, PlanCovered, LogStep, FinishOrRendezvous, GoTo, TypeInv, LoopTypeOK
<1>10. CASE PlanEngage(p) \/ HopEngage(p) \/ Wake(p)
  BY <1>3, <1>4, <1>10
     DEF PlanEngage, HopEngage, Wake, Engage, GoTo, TypeInv, LoopTypeOK
<1>11. CASE PlanRetry(p)
  <2>1. pstate[p] = "PLAN" /\ UNCHANGED pstate
    BY <1>11 DEF PlanRetry, Measure, MayPlan
  <2> QED
    BY <1>4, <2>1
<1>12. CASE DwellOver(p) \/ FailGoal(p)
  BY <1>3, <1>4, <1>12 DEF DwellOver, FailGoal, GoTo, TypeInv, LoopTypeOK
<1>13. CASE CloseTarget(p)
  <2>1. UNCHANGED << phase, pstate >> \/ GoTo(p, "PLAN")
    BY <1>13 DEF CloseTarget
  <2> QED
    BY <1>3, <1>4, <1>6, <2>1 DEF GoTo, TypeInv, LoopTypeOK
<1>14. CASE StartVantage(p)
  <2>1. pstate[p] = "EXPLOIT_PLAN" /\ UNCHANGED phase
    BY <1>14 DEF StartVantage, Selecting, Working
  <2> QED
    BY <1>3, <1>5, <2>1 DEF Own, QueueOwn
<1>15. CASE RetryVantage(p)
  BY <1>6, <1>15 DEF RetryVantage
<1>16. CASE \/ StopRequested(p) \/ Heartbeat(p) \/ Clock(p)
            \/ \E t \in Target : OnTreeTarget(p, t)
  <2>1. GoTo(p, "STOPPING") \/ UNCHANGED << pstate, phase >>
    BY <1>16 DEF StopRequested, Heartbeat, Clock, ClaimExpires, EntryDecays, GiveUpExpires,
                 OnTreeTarget, driveVars
  <2> QED
    BY <1>3, <1>4, <1>6, <2>1 DEF GoTo, TypeInv, LoopTypeOK
<1> QED
  BY <1>1, <1>2, <1>7, <1>8, <1>9, <1>10, <1>11, <1>12, <1>13, <1>14, <1>15, <1>16
     DEF RobotStep

LEMMA BudgetStep ==
  ASSUME LoopInv, [LoopNext]_loopVars, NEW p \in Robot, StartsHop(p)
  PROVE  step[p] < setup.maxSteps
BY HopsStartInPlan DEF PlanHop, Measure, MayPlan

\* No exploration hop starts once the step budget is spent.
THEOREM BudgetHolds == LoopSpec => NoHopPastBudget
<1>1. LoopInv /\ [LoopNext]_loopVars
        => [\A r \in Robot : StartsHop(r) => step[r] < setup.maxSteps]_loopVars
  BY BudgetStep
<1> QED
  BY <1>1, LoopInvariant, PTL DEF LoopSpec, NoHopPastBudget

----------------------------------------------------------------------------
(***************************************************************************)
(* What a robot hears.  Only members of the team ever speak, and none is   *)
(* its own peer, so hearing as many peers as the team has others is        *)
(* hearing each of them.                                                   *)
(***************************************************************************)
Heard ==
  /\ \A p \in Robot : pstate[p] # "OFF" => p \in setup.team
  /\ \A p, q \in Robot : heard[p][q] = "live" => q \in setup.team /\ q # p

LEMMA HearsAll ==
  ASSUME LoopTypeOK, Heard, NEW r \in setup.team, NEW p \in setup.team \ {r},
         ~ ShouldRendezvous(r), anchor[r]
  PROVE  heard[r][p] = "live"
<1> DEFINE T == setup.team
           O == T \ {r}
           L == LivePeers(r)
<1>1. T \subseteq Robot /\ r \in Robot /\ p \in Robot
  BY DEF LoopTypeOK, Setup
<1>2. IsFiniteSet(T)
  BY <1>1, FS_Subset
<1>3. IsFiniteSet(O) /\ Cardinality(O) = Cardinality(T) - 1 /\ Cardinality(T) \in Nat
  BY <1>2, FS_RemoveElement, FS_CardinalityType
<1>4. L \subseteq O
  BY <1>1 DEF LivePeers, Heard
<1>5. Cardinality(O) > 0
  BY <1>3, FS_EmptySet, FS_CardinalityType
<1>6. Cardinality(L) >= Cardinality(O)
  BY <1>3, <1>5 DEF ShouldRendezvous, TeamComplete, ExpectedPeers
<1>7. IsFiniteSet(L) /\ Cardinality(L) =< Cardinality(O) /\ (Cardinality(L) = Cardinality(O) => L = O)
  BY <1>3, <1>4, FS_Subset
<1>8. Cardinality(L) \in Nat /\ Cardinality(O) \in Nat
  BY <1>3, <1>7, FS_CardinalityType
<1>9. L = O
  BY <1>6, <1>7, <1>8
<1> QED
  BY <1>9 DEF LivePeers

LEMMA PublishHeard ==
  ASSUME NEW table \in [Robot -> Table], NEW r \in setup.team, Publish(r, table),
         \A p, q \in Robot : table[p][q] = "live" => q \in setup.team /\ q # p
  PROVE  \A p, q \in Robot : heard'[p][q] = "live" => q \in setup.team /\ q # p
BY DEF Publish, Broadcast, Table

\* How a step of a robot that is up changes what the robots hear.
LEMMA RadioOfStep ==
  ASSUME TypeInv, NEW r \in Robot, RobotStep(r)
  PROVE  /\ UNCHANGED setup
         /\ pstate[r] = "OFF" => Join(r) \/ UNCHANGED pstate
         /\ \/ UNCHANGED heard \/ heard' = PrunedTable(r)
            \/ /\ Publish(r, heard) \/ Publish(r, PrunedTable(r))
               /\ pstate[r] # "OFF"
            \/ \E p \in Robot : ClaimExpires(r, p)
<1>1. CASE Join(r) \/ MapReady(r) \/ ReachAnchor(r) \/ Integrate(r) \/ Stop(r)
  BY <1>1 DEF Join, MapReady, ReachAnchor, Integrate, Stop, radioVars, worldVars, Returning
<1>2. CASE TeamBack(r) \/ WaitExpires(r) \/ GoalBlocked(r) \/ ArriveHop(r)
  BY <1>2 DEF TeamBack, WaitExpires, GoalBlocked, ArriveHop, Release, Happens, worldVars,
              Exploring, Returning
<1>f. ASSUME NEW table, FinishOrRendezvous(r, table)
      PROVE  heard' = table \/ Publish(r, table)
  BY <1>f DEF FinishOrRendezvous, Announce
<1>3. CASE PlanSpent(r) \/ PlanCovered(r) \/ LogStep(r)
  BY <1>3, <1>f DEF PlanSpent, PlanCovered, LogStep, Measure, MayPlan, radioVars, worldVars
<1>4. CASE PlanEngage(r) \/ HopEngage(r) \/ Wake(r)
  BY <1>4 DEF PlanEngage, HopEngage, Wake, Release, MayPlan, Exploring, radioVars, worldVars
<1>5. CASE PlanHop(r) \/ PlanRetry(r)
  BY <1>5 DEF PlanHop, PlanRetry, Announce, Measure, MayPlan, worldVars
<1>6. CASE DwellOver(r) \/ FailGoal(r)
  BY <1>6 DEF DwellOver, FailGoal, Release, Happens, Exploiting, radioVars, worldVars
<1>7. CASE CloseTarget(r) \/ StartVantage(r) \/ RetryVantage(r)
  BY <1>7 DEF CloseTarget, StartVantage, RetryVantage, Selecting, Working, Release, Announce,
              worldVars
<1>8. CASE StopRequested(r) \/ \E t \in Target : OnTreeTarget(r, t)
  BY <1>8 DEF StopRequested, OnTreeTarget, radioVars, worldVars
<1>9. CASE Heartbeat(r)
  BY <1>9 DEF Heartbeat, Beating, Returning, worldVars
<1>10. CASE Clock(r)
  BY <1>10 DEF Clock, ClaimExpires, EntryDecays, GiveUpExpires, radioVars, worldVars
<1> QED
  BY <1>1, <1>2, <1>3, <1>4, <1>5, <1>6, <1>7, <1>8, <1>9, <1>10 DEF RobotStep

LEMMA HeardStep ==
  ASSUME LoopInv, Heard, [LoopNext]_loopVars
  PROVE  Heard'
<1>t. TypeInv /\ RadioTypeOK /\ heard \in [Robot -> Table]
  BY DEF LoopInv, TypeInv, LoopTypeOK, RadioTypeOK, Table
<1>1. ASSUME NEW r \in Robot, RobotStep(r)
      PROVE  Heard'
  <2>1. /\ UNCHANGED setup
        /\ pstate[r] = "OFF" => Join(r) \/ UNCHANGED pstate
        /\ \/ UNCHANGED heard \/ heard' = PrunedTable(r)
           \/ /\ Publish(r, heard) \/ Publish(r, PrunedTable(r))
              /\ pstate[r] # "OFF"
           \/ \E p \in Robot : ClaimExpires(r, p)
    BY <1>1, <1>t, RadioOfStep
  <2>2. \A p \in Robot : pstate'[p] # "OFF" => p \in setup'.team
    BY <1>1, <1>t, <2>1, OthersKept DEF Heard, OwnKept, Join
  <2>3. /\ PrunedTable(r) \in [Robot -> Table]
        /\ \A p, q \in Robot : PrunedTable(r)[p][q] = "live" => q \in setup.team /\ q # p
    <3>1. PrunedTable(r) \in [Robot -> Table]
      BY <1>t, PrunedTableType
    <3>2. \A p, q \in Robot : PrunedTable(r)[p][q] = "live" => heard[p][q] = "live"
      BY <1>t DEF PrunedTable, Forget, Table
    <3> QED
      BY <3>1, <3>2 DEF Heard
  <2>4. \A p, q \in Robot : heard'[p][q] = "live" => q \in setup.team /\ q # p
    <3>1. CASE UNCHANGED heard \/ heard' = PrunedTable(r)
      BY <2>3, <3>1 DEF Heard
    <3>2. CASE (Publish(r, heard) \/ Publish(r, PrunedTable(r))) /\ pstate[r] # "OFF"
      <4>1. r \in setup.team
        BY <3>2 DEF Heard
      <4> QED
        BY <1>t, <2>3, <3>2, <4>1, PublishHeard DEF Heard
    <3>3. ASSUME NEW p \in Robot, ClaimExpires(r, p)
          PROVE  \A a, b \in Robot : heard'[a][b] = "live" => heard[a][b] = "live"
      <4>1. heard' = [heard EXCEPT ![r] = [heard[r] EXCEPT ![p] = "expired"]]
        BY <3>3 DEF ClaimExpires
      <4> QED
        BY <1>t, <4>1 DEF Table
    <3> QED
      BY <2>1, <3>1, <3>2, <3>3 DEF Heard
  <2> QED
    BY <2>1, <2>2, <2>4 DEF Heard
<1>2. CASE LinkChanges \/ UNCHANGED loopVars
  BY <1>2 DEF LinkChanges, loopVars, radioVars, worldVars, Heard
<1> QED
  BY <1>1, <1>2, LoopNextSteps

LEMMA HeardInvariant == LoopSpec => []Heard
<1>1. LoopInit => Heard
  BY DEF LoopInit, Heard
<1> QED
  BY <1>1, HeardStep, LoopInvariant, PTL DEF LoopSpec

\* Only finishOrRendezvous leads from PLAN or LOG_STEP to DONE, and there its
\* test let the robot through.
LEMMA EndsInContact ==
  ASSUME LoopInv, [LoopNext]_loopVars, NEW p \in Robot,
         pstate[p] \in {"PLAN", "LOG_STEP"}, pstate'[p] = "DONE"
  PROVE  /\ ~ ShouldRendezvous(p)
         /\ PlanSpent(p) \/ PlanCovered(p) \/ LogStep(p)
<1>t. TypeInv
  BY DEF LoopInv
<1>0. ~ OwnKept(p)
  BY DEF OwnKept
<1>1. PICK r \in Robot : RobotStep(r)
  BY <1>0, LoopNextSteps, LinkOthers
<1>2. r = p
  BY <1>0, <1>1, <1>t, OthersKept
<1>3. PlanSpent(p) \/ PlanCovered(p) \/ LogStep(p)
  <2>1. ASSUME Join(p) \/ MapReady(p) \/ ReachAnchor(p) \/ Integrate(p) \/ Stop(p)
        PROVE  FALSE
    BY <1>t, <2>1 DEF Join, MapReady, ReachAnchor, Integrate, Stop, GoTo, TypeInv, LoopTypeOK
  <2>2. ASSUME TeamBack(p) \/ WaitExpires(p) \/ GoalBlocked(p) \/ ArriveHop(p)
        PROVE  FALSE
    BY <1>t, <2>2 DEF TeamBack, WaitExpires, GoalBlocked, ArriveHop, Exploring, GoTo, Returning,
                      TypeInv, LoopTypeOK
  <2>3. ASSUME PlanEngage(p) \/ HopEngage(p) \/ Wake(p)
        PROVE  FALSE
    BY <1>t, <2>3 DEF PlanEngage, HopEngage, Wake, Engage, GoTo, TypeInv, LoopTypeOK
  <2>4. ASSUME PlanHop(p) \/ PlanRetry(p)
        PROVE  FALSE
    BY <1>t, <2>4 DEF PlanHop, PlanRetry, GoTo, TypeInv, LoopTypeOK
  <2>5. ASSUME DwellOver(p) \/ FailGoal(p)
        PROVE  FALSE
    BY <1>t, <2>5 DEF DwellOver, FailGoal, GoTo, TypeInv, LoopTypeOK
  <2>6. ASSUME CloseTarget(p) \/ StartVantage(p) \/ RetryVantage(p)
        PROVE  FALSE
    BY <1>t, <2>6 DEF CloseTarget, StartVantage, RetryVantage, Selecting, Working
  <2>7. ASSUME \/ StopRequested(p) \/ Heartbeat(p) \/ Clock(p)
               \/ \E t \in Target : OnTreeTarget(p, t)
        PROVE  FALSE
    BY <1>t, <2>7 DEF StopRequested, Heartbeat, Clock, ClaimExpires, EntryDecays,
                      GiveUpExpires, OnTreeTarget
  <2> QED
    BY <1>1, <1>2, <2>1, <2>2, <2>3, <2>4, <2>5, <2>6, <2>7 DEF RobotStep
<1>4. ASSUME NEW table, FinishOrRendezvous(p, table)
      PROVE  ~ ShouldRendezvous(p)
  BY <1>t, <1>4 DEF FinishOrRendezvous, GoTo, TypeInv, LoopTypeOK
<1>5. CASE LogStep(p)
  <2>1. ~ GoTo(p, IF phase[p] = "EXPLOIT" THEN "EXPLOIT_PLAN" ELSE "PLAN")
    BY <1>t DEF GoTo, TypeInv, LoopTypeOK
  <2> QED
    BY <1>3, <1>4, <1>5, <2>1 DEF LogStep
<1>6. CASE PlanSpent(p) \/ PlanCovered(p)
  BY <1>3, <1>4, <1>6 DEF PlanSpent, PlanCovered
<1> QED
  BY <1>3, <1>5, <1>6

\* A planner that has met its team ends its exploration either hearing all of
\* it or after waiting for it at the barrier.
THEOREM FinishInContact == LoopSpec => NobodyFinishesAlone
<1> DEFINE A == \A r, p \in setup.team :
                  /\ r # p /\ anchor[r]
                  /\ pstate[r] \in {"PLAN", "LOG_STEP"} /\ pstate'[r] = "DONE"
                  => heard[r][p] = "live"
<1>1. LoopInv /\ Heard /\ [LoopNext]_loopVars => [A]_loopVars
  <2> SUFFICES ASSUME LoopInv, Heard, [LoopNext]_loopVars,
                      NEW r \in setup.team, NEW p \in setup.team, r # p, anchor[r],
                      pstate[r] \in {"PLAN", "LOG_STEP"}, pstate'[r] = "DONE"
               PROVE  heard[r][p] = "live"
    OBVIOUS
  <2>1. LoopTypeOK /\ r \in Robot
    BY DEF LoopInv, TypeInv, LoopTypeOK, Setup
  <2>2. ~ ShouldRendezvous(r)
    BY <2>1, EndsInContact
  <2> QED
    BY <2>1, <2>2, HearsAll
<1> QED
  BY <1>1, LoopInvariant, HeardInvariant, PTL DEF LoopSpec, NobodyFinishesAlone

----------------------------------------------------------------------------
(***************************************************************************)
(* The streak and the measurements.  The counter is the length of the run  *)
(* of low measurements that ends the window of the last N, whatever the    *)
(* robot does between two measurements.                                    *)
(***************************************************************************)
Tracks(s, k, n) ==
  /\ Len(s) =< n /\ k =< Len(s)
  /\ \A i \in 1 .. Len(s) : i > Len(s) - k => s[i] = "low"
  /\ k < Len(s) => s[Len(s) - k] = "other"

AllTrack == \A r \in Robot : Tracks(lately[r], streak[r], setup.streak)

\* A full streak is a window of low measurements, and no other.
LEMMA Squeezed ==
  ASSUME NEW x \in Nat, NEW y \in Nat, NEW z \in Nat, x =< y, y =< z, z =< x
  PROVE  x = y /\ y = z
OBVIOUS

LEMMA SameShift ==
  ASSUME NEW i \in Nat, NEW m \in Nat
  PROVE  i + m + 1 - m = i + 1 /\ i + m + 1 - (m + 1) = i
OBVIOUS

LEMMA TracksCovered ==
  ASSUME NEW s \in Seq({"low", "other"}), NEW k \in Nat, NEW n \in Nat \ {0}, Tracks(s, k, n)
  PROVE  (k >= n) <=> (Len(s) = n /\ \A i \in DOMAIN s : s[i] = "low")
<1>1. Len(s) \in Nat /\ DOMAIN s = 1 .. Len(s)
  OBVIOUS
<1>2. ASSUME k >= n
      PROVE  Len(s) = n /\ \A i \in DOMAIN s : s[i] = "low"
  <2>0. Len(s) =< n /\ k =< Len(s) /\ n \in Nat
    BY DEF Tracks
  <2>1. Len(s) = n /\ k = n
    BY <1>1, <1>2, <2>0, Squeezed
  <2>2. \A i \in 1 .. n : i > n - k
    BY <2>1
  <2> QED
    BY <1>1, <2>1, <2>2 DEF Tracks
<1>3. ASSUME Len(s) = n, \A i \in DOMAIN s : s[i] = "low", k < n
      PROVE  FALSE
  <2>1. s[n - k] = "other" /\ n - k \in DOMAIN s
    BY <1>1, <1>3 DEF Tracks
  <2> QED
    BY <1>3, <2>1
<1> QED
  BY <1>2, <1>3

LEMMA TracksMeasure ==
  ASSUME NEW s \in Seq({"low", "other"}), NEW k \in Nat, NEW n \in Nat \ {0},
         Tracks(s, k, n), NEW e \in {"low", "other"}, NEW a, a = Append(s, e)
  PROVE  Tracks(IF Len(a) > n THEN Tail(a) ELSE a,
                IF e = "other" THEN 0 ELSE IF k < n THEN k + 1 ELSE k, n)
<1> DEFINE b == IF Len(a) > n THEN Tail(a) ELSE a
           j == IF e = "other" THEN 0 ELSE IF k < n THEN k + 1 ELSE k
<1>1. /\ n \in Nat /\ Len(s) \in Nat /\ Len(a) = Len(s) + 1 /\ a \in Seq({"low", "other"})
      /\ \A i \in 1 .. Len(a) : a[i] = IF i = Len(a) THEN e ELSE s[i]
  OBVIOUS
<1>2. Len(s) =< n /\ k =< Len(s)
  BY DEF Tracks
<1>3. /\ \A i \in 1 .. Len(s) : i > Len(s) - k => s[i] = "low"
      /\ k < Len(s) => s[Len(s) - k] = "other"
  BY DEF Tracks
<1>4. Len(b) =< n /\ Len(b) \in Nat /\ Len(b) > 0
  BY <1>1, <1>2
\* The last of b is the new measurement, the rest is the end of s.
<1>5. \A i \in 1 .. Len(b) :
        b[i] = IF i = Len(b) THEN e ELSE s[i + Len(s) + 1 - Len(b)]
  <2>1. CASE Len(a) > n
    <3>1. Len(s) = n /\ b = Tail(a) /\ a # << >>
      BY <1>1, <1>2, <2>1
    <3>2. Len(b) = n /\ \A i \in 1 .. n : b[i] = a[i + 1]
      BY <1>1, <3>1
    <3> HIDE DEF b
    <3>3. ASSUME NEW i \in 1 .. Len(b)
          PROVE  /\ b[i] = IF i = Len(b) THEN e ELSE s[i + 1]
                 /\ i + Len(s) + 1 - Len(b) = i + 1
      <4>1. i + 1 \in 1 .. Len(a) /\ (i + 1 = Len(a) <=> i = Len(b))
        BY <1>1, <3>1, <3>2
      <4>2. b[i] = a[i + 1]
        BY <3>2
      <4>3. i \in Nat /\ Len(s) \in Nat /\ Len(b) = Len(s)
        BY <1>1, <3>1, <3>2
      <4>4. i + Len(s) + 1 - Len(b) = i + 1
        BY <4>3, SameShift
      <4> QED
        BY <1>1, <4>1, <4>2, <4>4
    <3> QED
      BY <3>3
  <2>2. CASE Len(a) =< n
    <3>1. b = a
      BY <1>1, <2>2
    <3> HIDE DEF b
    <3>2. ASSUME NEW i \in 1 .. Len(b)
          PROVE  b[i] = IF i = Len(b) THEN e ELSE s[i + Len(s) + 1 - Len(b)]
      <4>1. i \in Nat /\ Len(s) \in Nat /\ Len(b) = Len(s) + 1
        BY <1>1, <3>1
      <4>2. i + Len(s) + 1 - Len(b) = i
        BY <4>1, SameShift
      <4>3. b[i] = IF i = Len(b) THEN e ELSE s[i]
        BY <1>1, <3>1
      <4> QED
        BY <4>2, <4>3, Zenon
    <3> QED
      BY <3>2
  <2> HIDE DEF b
  <2> QED
    BY <1>1, <2>1, <2>2
<1>6. Len(b) = IF Len(s) = n THEN n ELSE Len(s) + 1
  BY <1>1, <1>2
<1> HIDE DEF b
<1>7. CASE e = "other"
  <2>1. j = 0
    BY <1>7
  <2>2. b[Len(b)] = "other"
    BY <1>4, <1>5, <1>7
  <2>3. Tracks(b, 0, n)
    BY <1>4, <2>2 DEF Tracks
  <2> HIDE DEF j
  <2> QED
    BY <2>1, <2>3 DEF b, j
<1>8. CASE e = "low"
  <2>1. j \in Nat /\ j =< Len(b) /\ j > 0 /\ (j < Len(b) => j = k + 1)
    BY <1>2, <1>6, <1>8
  <2>2. j - 1 =< k
    BY <1>8
  <2> HIDE DEF j
  <2>3. ASSUME NEW i \in 1 .. Len(b), i > Len(b) - j
        PROVE  b[i] = "low"
    <3>1. CASE i = Len(b)
      BY <1>5, <1>8, <3>1
    <3>2. CASE i < Len(b)
      <4> DEFINE m == i + Len(s) + 1 - Len(b)
      <4>0. /\ Len(s) \in Nat /\ Len(b) \in Nat /\ i \in Nat /\ i >= 1 /\ i < Len(b)
            /\ i > Len(b) - j /\ j \in Nat /\ j - 1 =< k /\ Len(b) =< Len(s) + 1
        BY <1>1, <1>2, <1>4, <1>6, <2>1, <2>2, <2>3, <3>2
      <4>1. m \in 1 .. Len(s) /\ m > Len(s) - k
        BY <4>0
      <4>2. b[i] = s[m]
        BY <1>4, <1>5, <3>2
      <4> QED
        BY <1>3, <4>1, <4>2
    <3> QED
      BY <1>4, <3>1, <3>2
  <2>4. ASSUME j < Len(b)
        PROVE  b[Len(b) - j] = "other"
    <3>1. j = k + 1 /\ Len(b) - j \in 1 .. Len(b) /\ Len(b) - j # Len(b)
      BY <1>4, <2>1, <2>4
    <3>2. b[Len(b) - j] = s[(Len(b) - j) + Len(s) + 1 - Len(b)]
      BY <1>5, <3>1
    <3>3. (Len(b) - j) + Len(s) + 1 - Len(b) = Len(s) - k
      BY <1>1, <1>4, <3>1
    <3>4. k < Len(s)
      BY <1>1, <1>2, <1>6, <2>4, <3>1
    <3> QED
      BY <1>3, <3>2, <3>3, <3>4
  <2>5. Tracks(b, j, n)
    BY <1>4, <2>1, <2>3, <2>4 DEF Tracks
  <2> QED
    BY <2>5 DEF b, j
<1> QED
  BY <1>7, <1>8

Verdict == {"below", "above", "unmeasured"}

LEMMA MeasureTracks ==
  ASSUME LoopTypeOK, AllTrack, NEW r \in Robot, NEW verdict \in Verdict, Measure(r, verdict),
         UNCHANGED setup
  PROVE  /\ AllTrack'
         /\ streak'[r] = StreakAfter(r, verdict)
<1> DEFINE e == IF verdict = "below" THEN "low" ELSE "other"
           n == setup.streak
           a == Append(lately[r], e)
<1>1. /\ lately[r] \in Seq({"low", "other"}) /\ streak[r] \in Nat /\ n \in Nat \ {0}
      /\ e \in {"low", "other"} /\ Tracks(lately[r], streak[r], n)
  BY DEF LoopTypeOK, DriveTypeOK, Setup, AllTrack
<1>2. Tracks(IF Len(a) > n THEN Tail(a) ELSE a,
             IF e = "other" THEN 0 ELSE IF streak[r] < n THEN streak[r] + 1 ELSE streak[r], n)
  BY <1>1, TracksMeasure
<1>3. LatelyAfter(r, verdict) = IF Len(a) > n THEN Tail(a) ELSE a
  BY DEF LatelyAfter
<1>4. StreakAfter(r, verdict) =
        IF e = "other" THEN 0 ELSE IF streak[r] < n THEN streak[r] + 1 ELSE streak[r]
  BY DEF StreakAfter
<1>5. Tracks(LatelyAfter(r, verdict), StreakAfter(r, verdict), n)
  BY <1>2, <1>3, <1>4
<1>6. /\ lately'[r] = LatelyAfter(r, verdict) /\ streak'[r] = StreakAfter(r, verdict)
      /\ \A p \in Robot \ {r} : lately'[p] = lately[p] /\ streak'[p] = streak[p]
  BY DEF Measure, LoopTypeOK, DriveTypeOK
<1> HIDE DEF n, a, e
<1>7. setup'.streak = n
  BY DEF n
<1>8. ASSUME NEW p \in Robot
      PROVE  Tracks(lately'[p], streak'[p], setup'.streak)
  <2>1. CASE p = r
    BY <1>5, <1>6, <1>7, <2>1
  <2>2. CASE p # r
    BY <1>6, <1>7, <2>2 DEF AllTrack, n
  <2> QED
    BY <2>1, <2>2
<1> QED
  BY <1>6, <1>8 DEF AllTrack

\* Nothing but PLAN's measurement touches the streak.
LEMMA StreakOfStep ==
  ASSUME TypeInv, NEW r \in Robot, RobotStep(r)
  PROVE  \/ UNCHANGED << streak, lately >>
         \/ \E verdict \in Verdict : Measure(r, verdict)
BY DEF RobotStep, Join, OnTreeTarget, MapReady, ReachAnchor, Integrate, Stop, PlanSpent,
       PlanCovered, LogStep, PlanEngage, HopEngage, Wake, PlanHop, PlanRetry, TeamBack,
       WaitExpires, GoalBlocked, ArriveHop, DwellOver, FailGoal, CloseTarget, StartVantage,
       RetryVantage, StopRequested, Heartbeat, Clock, ClaimExpires, EntryDecays,
       GiveUpExpires, driveVars, Verdict

LEMMA TrackStep ==
  ASSUME LoopInv, AllTrack, [LoopNext]_loopVars
  PROVE  AllTrack'
<1>1. ASSUME NEW r \in Robot, RobotStep(r)
      PROVE  AllTrack'
  <2>1. TypeInv /\ LoopTypeOK
    BY DEF LoopInv, TypeInv
  <2>2. UNCHANGED setup
    BY <1>1, <2>1, RadioOfStep
  <2>3. CASE UNCHANGED << streak, lately >>
    BY <2>2, <2>3 DEF AllTrack
  <2>4. CASE \E verdict \in Verdict : Measure(r, verdict)
    BY <2>1, <2>2, <2>4, MeasureTracks
  <2> QED
    BY <1>1, <2>1, <2>3, <2>4, StreakOfStep
<1>2. CASE LinkChanges \/ UNCHANGED loopVars
  BY <1>2 DEF LinkChanges, loopVars, driveVars, worldVars, AllTrack
<1> QED
  BY <1>1, <1>2, LoopNextSteps

LEMMA TrackInvariant == LoopSpec => []AllTrack
<1>1. LoopInit => AllTrack
  BY DEF LoopInit, AllTrack, Tracks, Setup
<1> QED
  BY <1>1, TrackStep, LoopInvariant, PTL DEF LoopSpec

\* Only finishOrRendezvous leads from PLAN to DONE or to the way home.
LEMMA EndsFromPlan ==
  ASSUME LoopInv, [LoopNext]_loopVars, NEW p \in Robot,
         pstate[p] = "PLAN", pstate'[p] \in {"DONE", "RETURN_NAV"}
  PROVE  PlanSpent(p) \/ PlanCovered(p)
<1>t. TypeInv
  BY DEF LoopInv
<1>0. ~ OwnKept(p)
  BY DEF OwnKept
<1>1. PICK r \in Robot : RobotStep(r)
  BY <1>0, LoopNextSteps, LinkOthers
<1>2. r = p
  BY <1>0, <1>1, <1>t, OthersKept
<1>3. ASSUME \/ Join(p) \/ MapReady(p) \/ ReachAnchor(p) \/ Integrate(p) \/ Stop(p)
             \/ TeamBack(p) \/ WaitExpires(p) \/ GoalBlocked(p) \/ ArriveHop(p)
             \/ LogStep(p) \/ HopEngage(p) \/ Wake(p) \/ DwellOver(p) \/ FailGoal(p)
             \/ CloseTarget(p) \/ StartVantage(p) \/ RetryVantage(p) \/ StopRequested(p)
      PROVE  FALSE
  BY <1>3 DEF Join, MapReady, ReachAnchor, Integrate, Stop, TeamBack, WaitExpires,
              GoalBlocked, ArriveHop, Exploring, Exploiting, LogStep, HopEngage, Wake, DwellOver,
              FailGoal, CloseTarget, StartVantage, RetryVantage, Selecting, Working,
              StopRequested, Returning
<1>4. ASSUME PlanEngage(p) \/ PlanHop(p)
      PROVE  FALSE
  BY <1>t, <1>4 DEF PlanEngage, Engage, PlanHop, GoTo, TypeInv, LoopTypeOK
<1>5. ASSUME \/ PlanRetry(p) \/ Heartbeat(p) \/ Clock(p) \/ \E t \in Target : OnTreeTarget(p, t)
      PROVE  FALSE
  BY <1>5 DEF PlanRetry, Heartbeat, Clock, ClaimExpires, EntryDecays, GiveUpExpires,
              OnTreeTarget
<1> QED
  BY <1>1, <1>2, <1>3, <1>4, <1>5 DEF RobotStep

\* A robot stops exploring before its budget is spent only on N measurements
\* in a row below the threshold, and having them it starts no hop.
THEOREM CoverageHolds == LoopSpec => CoverageDecides
<1> DEFINE A == \A r \in Robot :
                  /\ pstate[r] = "PLAN" /\ pstate'[r] \in {"DONE", "RETURN_NAV"}
                       => step[r] >= setup.maxSteps \/ Covered(r)'
                  /\ StartsHop(r) => ~ Covered(r)'
<1>1. LoopInv /\ AllTrack /\ [LoopNext]_loopVars => [A]_loopVars
  <2> SUFFICES ASSUME LoopInv, AllTrack, [LoopNext]_loopVars, NEW r \in Robot
               PROVE  /\ pstate[r] = "PLAN" /\ pstate'[r] \in {"DONE", "RETURN_NAV"}
                           => step[r] >= setup.maxSteps \/ Covered(r)'
                      /\ StartsHop(r) => ~ Covered(r)'
    OBVIOUS
  <2>1. LoopTypeOK /\ LoopTypeOK' /\ AllTrack' /\ TypeInv
    BY LoopInvStep, TrackStep DEF LoopInv, TypeInv
  <2>2. Covered(r)' <=> streak'[r] >= setup'.streak
    <3>1. /\ lately'[r] \in Seq({"low", "other"}) /\ streak'[r] \in Nat
          /\ setup'.streak \in Nat \ {0}
          /\ Tracks(lately'[r], streak'[r], setup'.streak)
      BY <2>1 DEF LoopTypeOK, DriveTypeOK, Setup, AllTrack
    <3> QED
      BY <3>1, TracksCovered DEF Covered
  <2>3. ASSUME NEW verdict \in Verdict, Measure(r, verdict), RobotStep(r)
        PROVE  streak'[r] = StreakAfter(r, verdict) /\ setup' = setup
    BY <2>1, <2>3, MeasureTracks, RadioOfStep
  <2>4. ASSUME pstate[r] = "PLAN", pstate'[r] \in {"DONE", "RETURN_NAV"}
        PROVE  step[r] >= setup.maxSteps \/ Covered(r)'
    <3>1. CASE PlanSpent(r)
      BY <3>1 DEF PlanSpent
    <3>2. CASE PlanCovered(r)
      <4>1. streak'[r] = StreakAfter(r, "below") /\ setup' = setup
        BY <2>3, <3>2 DEF PlanCovered, RobotStep, Verdict
      <4>2. StreakAfter(r, "below") >= setup.streak
        BY <3>2 DEF PlanCovered, Saturates
      <4> QED
        BY <2>2, <4>1, <4>2
    <3> QED
      BY <2>4, <3>1, <3>2, EndsFromPlan
  <2>5. ASSUME StartsHop(r)
        PROVE  ~ Covered(r)'
    <3>1. PlanHop(r)
      BY <2>5, HopsStartInPlan
    <3>2. PICK verdict \in Verdict : ~ Saturates(r, verdict) /\ Measure(r, verdict)
      BY <3>1 DEF PlanHop, Verdict
    <3>3. streak'[r] = StreakAfter(r, verdict) /\ setup' = setup
      BY <2>3, <3>1, <3>2 DEF RobotStep
    <3>4. StreakAfter(r, verdict) \in Nat /\ setup.streak \in Nat \ {0}
      BY <2>1 DEF StreakAfter, LoopTypeOK, DriveTypeOK, Setup
    <3>5. ~ (StreakAfter(r, verdict) >= setup.streak)
      <4>1. CASE verdict = "below"
        BY <3>2, <4>1 DEF Saturates
      <4>2. CASE verdict # "below"
        <5>1. StreakAfter(r, verdict) = 0
          BY <4>2 DEF StreakAfter
        <5> QED
          BY <3>4, <5>1
      <4> QED
        BY <4>1, <4>2
    <3> QED
      BY <2>2, <3>3, <3>5
  <2> QED
    BY <2>4, <2>5
<1> QED
  BY <1>1, LoopInvariant, TrackInvariant, PTL DEF LoopSpec, CoverageDecides
=============================================================================
