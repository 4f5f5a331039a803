-------------------------- MODULE VantageRingProofs -------------------------
(***************************************************************************)
(* What VantageRing guarantees for every team, ring, map and queue: types, *)
(* the counting and the truth of credit, and honest completion.            *)
(***************************************************************************)
EXTENDS VantageRing, TargetQueueProofs

LEMMA HomePlace == Home \in Place
BY PlaceAssumption DEF Place

LEMMA PlainIntentType ==
  ASSUME NEW g \in Place, NEW p \in Place
  PROVE  PlainIntent(g, p) \in Intent
BY DEF PlainIntent, BuildIntent, Intent

LEMMA NoClaimType == NoClaim \in Claim /\ NoClaims \in [Robot -> Claim]
BY HomePlace, PlainIntentType DEF NoClaim, NoClaims, Claim, Age

LEMMA PruneType ==
  ASSUME NEW table \in [Robot -> Claim]
  PROVE  Prune(table) \in [Robot -> Claim]
<1> DEFINE kept == {p \in Robot : Retained(table[p])}
<1>1. ASSUME NEW p \in Robot
      PROVE  (IF p \in kept THEN [table[p] EXCEPT !.before = @ \cap kept] ELSE NoClaim) \in Claim
  BY NoClaimType DEF Claim
<1> QED BY <1>1 DEF Prune

LEMMA OlderType ==
  ASSUME NEW c \in Claim
  PROVE  Older(c) \in Claim
BY DEF Older, Claim, Age

LEMMA OnIntentType ==
  ASSUME NEW table \in [Robot -> Claim], NEW p \in Robot, NEW m \in Intent
  PROVE  OnIntent(table, p, m) \in [Robot -> Claim]
BY DEF OnIntent, Claim, Age

LEMMA PeerDwellUnionType ==
  ASSUME NEW table \in [Robot -> Claim], NEW t
  PROVE  PeerDwellUnion(table, t) \in SUBSET Angle
BY DEF PeerDwellUnion, ExploitPeers, Claim, Intent

LEMMA PlannedType ==
  ASSUME PlannerTypeOK, ClaimTypeOK, NEW r \in Robot, NEW t \in Target
  PROVE  Planned(r, t) \in Queue
<1>1. Activate(queue[r], t) \in Queue
  BY ActivateType DEF PlannerTypeOK
<1>2. PeerDwellUnion(Prune(claims[r]), t) \in SUBSET Angle
  BY PruneType, PeerDwellUnionType DEF ClaimTypeOK
<1> QED
  BY <1>1, <1>2, MergePeerDwellsType DEF Planned

LEMMA KeepLastType ==
  ASSUME NEW s \in Seq(Intent), Len(s) =< Depth, NEW m \in Intent
  PROVE  /\ KeepLast(Append(s, m)) \in Seq(Intent)
         /\ Len(KeepLast(Append(s, m))) =< Depth
BY ParameterAssumption DEF KeepLast

LEMMA HeadType ==
  ASSUME NEW S, NEW s \in Seq(S), s # << >>
  PROVE  Head(s) \in S
BY Len(s) \in Nat, Len(s) > 0

LEMMA PublishType ==
  ASSUME ChannelTypeOK, NEW r \in Robot, NEW m \in Intent, Publish(r, m)
  PROVE  ChannelTypeOK'
<1> DEFINE row == [d \in Robot |-> IF d = r THEN << >>
                                  ELSE KeepLast(Append(chan[r][d], m))]
<1>1. chan' = [chan EXCEPT ![r] = row]
  BY DEF Publish
<1>2. << >> \in Seq(Intent) /\ Len(<< >>) = 0
  OBVIOUS
<1>3. \A d \in Robot : row[d] \in Seq(Intent) /\ Len(row[d]) =< Depth
  BY <1>2, KeepLastType, ParameterAssumption DEF ChannelTypeOK
<1> HIDE DEF row
<1>4. row \in [Robot -> Seq(Intent)]
  BY <1>3 DEF row
<1> QED
  BY <1>1, <1>3, <1>4 DEF ChannelTypeOK

LEMMA AnnounceType ==
  ASSUME TypeOK, NEW r \in Robot, NEW m \in Intent, Announce(r, m)
  PROVE  /\ mine' \in [Robot -> Intent]
         /\ have' \in [Robot -> BOOLEAN]
         /\ ChannelTypeOK'
BY PublishType DEF Announce, TypeOK, ClaimTypeOK

LEMMA ReleaseType ==
  ASSUME TypeOK, NEW r \in Robot, Release(r)
  PROVE  /\ mine' \in [Robot -> Intent]
         /\ have' \in [Robot -> BOOLEAN]
         /\ ChannelTypeOK'
BY HomePlace, PlainIntentType DEF Release, TypeOK, ClaimTypeOK, ChannelTypeOK

LEMMA BrakeType ==
  ASSUME BodyTypeOK, NEW r \in Robot, Brake(r)
  PROVE  BodyTypeOK'
BY DEF Brake, BodyTypeOK

LEMMA PruneClaimsType ==
  ASSUME ClaimTypeOK, NEW r \in Robot, PruneClaims(r)
  PROVE  claims' \in [Robot -> [Robot -> Claim]]
BY PruneType DEF PruneClaims, ClaimTypeOK

LEMMA InitType == Init => TypeOK
<1> SUFFICES ASSUME Init PROVE TypeOK
  OBVIOUS
<1>1. PlannerTypeOK
  BY EmptyQueueType, HomePlace DEF Init, PlannerTypeOK, PState
<1>2. BodyTypeOK
  BY HomePlace DEF Init, BodyTypeOK
<1>3. ClaimTypeOK
  BY HomePlace, PlainIntentType, NoClaimType DEF Init, ClaimTypeOK
<1>4. ChannelTypeOK
  BY ParameterAssumption DEF Init, ChannelTypeOK
<1> QED
  BY <1>1, <1>2, <1>3, <1>4 DEF Init, TypeOK

----------------------------------------------------------------------------
\* Parts of a step that several actions share.
LEMMA HappensType ==
  ASSUME spent \in Nat, NEW e, Happens(e)
  PROVE  spent' \in Nat
BY DEF Happens

LEMMA GoToType ==
  ASSUME PlannerTypeOK, NEW r \in Robot, NEW s \in PState, GoTo(r, s)
  PROVE  pstate' \in [Robot -> PState]
BY DEF GoTo, PlannerTypeOK

LEMMA StartReturnType ==
  ASSUME TypeOK, NEW r \in Robot, StartReturnToAnchor(r),
         claims' \in [Robot -> [Robot -> Claim]], spent' \in Nat
  PROVE  TypeOK'
<1>1. PlannerTypeOK'
  <2>1. pstate' \in [Robot -> PState]
    BY GoToType DEF StartReturnToAnchor, TypeOK, PState
  <2>2. Deactivate(queue[r]) \in Queue
    BY SetActiveStatusType DEF Deactivate, TypeOK, PlannerTypeOK, Status
  <2> QED
    BY <2>1, <2>2, HomePlace DEF StartReturnToAnchor, TypeOK, PlannerTypeOK
<1>2. BodyTypeOK'
  BY HomePlace DEF StartReturnToAnchor, TypeOK, BodyTypeOK
<1>3. \A anchor \in Place : PlainIntent(anchor, loc[r]) \in Intent
  BY PlainIntentType DEF TypeOK, BodyTypeOK
<1>4. ClaimTypeOK' /\ ChannelTypeOK'
  <2> PICK anchor \in Place : Announce(r, PlainIntent(anchor, loc[r]))
    BY DEF StartReturnToAnchor
  <2> QED
    BY <1>3, AnnounceType DEF TypeOK, ClaimTypeOK
<1> QED
  BY <1>1, <1>2, <1>4 DEF StartReturnToAnchor, TypeOK

LEMMA FinishDoneType ==
  ASSUME TypeOK, NEW r \in Robot, FinishDone(r),
         claims' \in [Robot -> [Robot -> Claim]], spent' \in Nat
  PROVE  TypeOK'
<1>1. pstate' \in [Robot -> PState]
  BY GoToType DEF FinishDone, TypeOK, PState
<1> QED
  BY <1>1 DEF FinishDone, TypeOK, PlannerTypeOK, BodyTypeOK, bodyVars, ClaimTypeOK,
              ChannelTypeOK

LEMMA CloseTargetType ==
  ASSUME TypeOK, NEW r \in Robot, NEW t \in Target, PruneClaims(r),
         NEW verdict \in {"complete", "partial"}, CloseTarget(r, t, verdict)
  PROVE  TypeOK'
<1>1. PlannerTypeOK'
  <2>1. pstate' \in [Robot -> PState]
    BY GoToType DEF CloseTarget, TypeOK, PState
  <2>2. MarkActiveDone(Planned(r, t)) \in Queue
    BY PlannedType, SetActiveStatusType DEF MarkActiveDone, TypeOK, Status
  <2> QED
    BY <2>1, <2>2 DEF CloseTarget, TypeOK, PlannerTypeOK
<1>2. ClaimTypeOK' /\ ChannelTypeOK'
  BY ReleaseType, PruneClaimsType DEF CloseTarget, TypeOK, ClaimTypeOK
<1> QED
  BY <1>1, <1>2 DEF CloseTarget, TypeOK, BodyTypeOK, bodyVars

LEMMA PlannedMaskType ==
  ASSUME TypeOK, NEW r \in Robot, NEW t \in Target
  PROVE  Planned(r, t).rec[t].mask \in SUBSET Angle
BY PlannedType DEF TypeOK, Queue, Entry

LEMMA StartExploitNavigateType ==
  ASSUME TypeOK, NEW r \in Robot, NEW t \in Target, NEW g \in Place,
         PruneClaims(r), StartExploitNavigate(r, t, g)
  PROVE  TypeOK'
<1>1. PlannerTypeOK'
  <2>1. pstate' \in [Robot -> PState]
    BY GoToType DEF StartExploitNavigate, TypeOK, PState
  <2> QED
    BY <2>1, PlannedType DEF StartExploitNavigate, TypeOK, PlannerTypeOK
<1>2. BodyTypeOK'
  BY DEF StartExploitNavigate, TypeOK, BodyTypeOK
<1>3. BuildIntent(g, loc[r], TRUE, t, Planned(r, t).rec[t].mask, FALSE) \in Intent
  BY PlannedMaskType DEF BuildIntent, Intent, TypeOK, BodyTypeOK
<1>4. ClaimTypeOK' /\ ChannelTypeOK'
  BY <1>3, AnnounceType, PruneClaimsType DEF StartExploitNavigate, TypeOK, ClaimTypeOK
<1> QED
  BY <1>1, <1>2, <1>4 DEF StartExploitNavigate, TypeOK

LEMMA HoldType ==
  ASSUME TypeOK, NEW r \in Robot, Hold(r)
  PROVE  TypeOK'
<1> PICK t \in Target : 
      /\ PlanTick(r, t)
      /\ RingCovered(r, t)
      /\ queue' = [queue EXCEPT ![r] = Planned(r, t)]
      /\ nav' = IF loc[r] = held[r] THEN nav ELSE [nav EXCEPT ![r] = held[r]]
      /\ LET mask == Planned(r, t).rec[t].mask
         IN  IF ~ have[r] \/ ~ mine[r].staged \/ mine[r].target # t
               THEN Announce(r, BuildIntent(held[r], loc[r], TRUE, t, mask, TRUE))
               ELSE /\ mine' = [mine EXCEPT ![r].mask = mask]
                    /\ UNCHANGED << have, chan >>
      /\ UNCHANGED << pstate, goal, held, barrier, outcome, loc, captured, spent >>
  BY DEF Hold
<1> DEFINE mask == Planned(r, t).rec[t].mask
<1>1. held[r] \in Place
  BY DEF RingCovered, Place, Spot
<1>2. mask \in SUBSET Angle
  BY PlannedMaskType
<1>3. PlannerTypeOK'
  BY PlannedType DEF TypeOK, PlannerTypeOK
<1>4. BodyTypeOK'
  BY <1>1 DEF TypeOK, BodyTypeOK
<1>5. claims' \in [Robot -> [Robot -> Claim]]
  BY PruneClaimsType DEF PlanTick, TypeOK
<1>6. CASE ~ have[r] \/ ~ mine[r].staged \/ mine[r].target # t
  <2>1. BuildIntent(held[r], loc[r], TRUE, t, mask, TRUE) \in Intent
    BY <1>1, <1>2 DEF BuildIntent, Intent, TypeOK, BodyTypeOK
  <2>2. ClaimTypeOK' /\ ChannelTypeOK'
    BY <1>5, <1>6, <2>1, AnnounceType DEF ClaimTypeOK
  <2> QED
    BY <1>3, <1>4, <2>2 DEF TypeOK
<1>7. CASE ~ (~ have[r] \/ ~ mine[r].staged \/ mine[r].target # t)
  <2>1. [mine[r] EXCEPT !.mask = mask] \in Intent
    BY <1>2 DEF TypeOK, ClaimTypeOK, Intent
  <2>2. mine' = [mine EXCEPT ![r] = [mine[r] EXCEPT !.mask = mask]]
    BY <1>7
  <2>3. ClaimTypeOK' /\ ChannelTypeOK'
    BY <1>5, <1>7, <2>1, <2>2 DEF TypeOK, ClaimTypeOK, ChannelTypeOK
  <2> QED
    BY <1>3, <1>4, <2>3 DEF TypeOK
<1> QED
  BY <1>6, <1>7

----------------------------------------------------------------------------
LEMMA ExploreType ==
  ASSUME TypeOK, NEW r \in Robot, Explore(r)
  PROVE  TypeOK'
<1>1. CASE StartExploreHop(r)
  <2> PICK w \in Waypoint \ {loc[r]} :
        /\ goal' = [goal EXCEPT ![r] = w]
        /\ nav' = [nav EXCEPT ![r] = w]
        /\ Announce(r, PlainIntent(w, loc[r]))
    BY <1>1 DEF StartExploreHop
  <2>1. w \in Place
    BY DEF Place
  <2>2. PlainIntent(w, loc[r]) \in Intent
    BY <2>1, PlainIntentType DEF TypeOK, BodyTypeOK
  <2>3. ClaimTypeOK' /\ ChannelTypeOK'
    BY <1>1, <2>2, AnnounceType, PruneClaimsType DEF StartExploreHop, TypeOK, ClaimTypeOK
  <2>4. PlannerTypeOK' /\ BodyTypeOK'
    BY <1>1, <2>1 DEF StartExploreHop, TypeOK, PlannerTypeOK, BodyTypeOK
  <2> QED
    BY <1>1, <2>3, <2>4, HappensType DEF StartExploreHop, TypeOK
<1>2. CASE EndExploreHop(r)
  <2>1. ClaimTypeOK' /\ ChannelTypeOK' /\ BodyTypeOK'
    BY <1>2, ReleaseType, BrakeType DEF EndExploreHop, TypeOK, ClaimTypeOK
  <2> QED
    BY <1>2, <2>1 DEF EndExploreHop, TypeOK, PlannerTypeOK, planVars
<1>3. CASE Engage(r)
  <2>1. pstate' \in [Robot -> PState]
    BY <1>3, GoToType DEF Engage, TypeOK, PState
  <2>2. \A t \in Target : Activate(queue[r], t) \in Queue
    BY ActivateType DEF TypeOK, PlannerTypeOK
  <2>3. PlannerTypeOK'
    BY <1>3, <2>1, <2>2 DEF Engage, TypeOK, PlannerTypeOK
  <2>4. claims' \in [Robot -> [Robot -> Claim]]
    BY <1>3, PruneClaimsType DEF Engage, TypeOK, ClaimTypeOK
  <2>5. CASE pstate[r] = "EXPLORE" /\ have[r]
    <3>1. ClaimTypeOK' /\ ChannelTypeOK' /\ BodyTypeOK'
      BY <1>3, <2>4, <2>5, ReleaseType, BrakeType DEF Engage, TypeOK, ClaimTypeOK
    <3> QED
      BY <1>3, <2>3, <3>1 DEF Engage, TypeOK
  <2>6. CASE ~ (pstate[r] = "EXPLORE" /\ have[r])
    <3>1. ClaimTypeOK' /\ ChannelTypeOK' /\ BodyTypeOK'
      BY <1>3, <2>4, <2>6
      DEF Engage, TypeOK, ClaimTypeOK, ChannelTypeOK, BodyTypeOK, bodyVars
    <3> QED
      BY <1>3, <2>3, <3>1 DEF Engage, TypeOK
  <2> QED
    BY <2>5, <2>6
<1>4. CASE FinishExploring(r)
  <2>1. claims' \in [Robot -> [Robot -> Claim]]
    BY <1>4, PruneClaimsType DEF FinishExploring, TypeOK, ClaimTypeOK
  <2> QED
    BY <1>4, <2>1, StartReturnType, FinishDoneType, HappensType
    DEF FinishExploring, TypeOK
<1> QED
  BY <1>1, <1>2, <1>3, <1>4 DEF Explore

LEMMA PlanType ==
  ASSUME TypeOK, NEW r \in Robot, Plan(r) \/ ClosePartial(r)
  PROVE  TypeOK'
<1>1. CASE CloseComplete(r)
  BY <1>1, CloseTargetType DEF CloseComplete, PlanTick
<1>2. CASE ClosePartial(r)
  BY <1>2, CloseTargetType DEF ClosePartial, PlanTick
<1>3. CASE Hold(r)
  BY <1>3, HoldType
<1>4. CASE SelectVantage(r)
  <2>1. \A t \in Target : \A k \in Selectable(r, t) : << t, k >> \in Place
    BY DEF Selectable, Place, Spot
  <2> QED
    BY <1>4, <2>1, StartExploitNavigateType DEF SelectVantage, PlanTick
<1>5. CASE SelectApproach(r)
  <2>1. \A t \in Target : \A w \in ApproachPoints[loc[r]][t] : w \in Place
    BY WorldAssumption DEF Place, TypeOK, BodyTypeOK
  <2> QED
    BY <1>5, <2>1, StartExploitNavigateType DEF SelectApproach, PlanTick
<1>6. CASE RetryPlan(r)
  <2>1. claims' \in [Robot -> [Robot -> Claim]]
    BY <1>6, PruneClaimsType DEF RetryPlan, PlanTick, TypeOK
  <2>2. PlannerTypeOK'
    BY <1>6, PlannedType DEF RetryPlan, TypeOK, PlannerTypeOK
  <2> QED
    BY <1>6, <2>1, <2>2
    DEF RetryPlan, TypeOK, BodyTypeOK, bodyVars, ClaimTypeOK, ChannelTypeOK
<1> QED
  BY <1>1, <1>2, <1>3, <1>4, <1>5, <1>6 DEF Plan

LEMMA NavigateType ==
  ASSUME TypeOK, NEW r \in Robot, Navigate(r)
  PROVE  TypeOK'
<1>1. CASE GoalBlocked(r)
  BY <1>1, GoToType, ReleaseType, BrakeType, HappensType
  DEF GoalBlocked, TypeOK, PlannerTypeOK, ClaimTypeOK, PState
<1>2. CASE YieldVantage(r)
  BY <1>2, GoToType, ReleaseType, BrakeType
  DEF YieldVantage, TypeOK, PlannerTypeOK, ClaimTypeOK, PState
<1>3. CASE ArriveApproach(r)
  BY <1>3, GoToType
  DEF ArriveApproach, TypeOK, PlannerTypeOK, BodyTypeOK, bodyVars, ClaimTypeOK,
      ChannelTypeOK, claimVars, PState
<1>4. CASE ArriveVantage(r)
  <2>1. [mine[r] EXCEPT !.staged = TRUE] \in Intent
    BY DEF TypeOK, ClaimTypeOK, Intent
  <2>2. ClaimTypeOK' /\ ChannelTypeOK'
    <3>1. CASE have[r]
      BY <1>4, <2>1, <3>1, AnnounceType DEF ArriveVantage, TypeOK, ClaimTypeOK
    <3>2. CASE ~ have[r]
      BY <1>4, <3>2 DEF ArriveVantage, TypeOK, ClaimTypeOK, ChannelTypeOK
    <3> QED
      BY <3>1, <3>2
  <2>3. PlannerTypeOK'
    BY <1>4, GoToType DEF ArriveVantage, TypeOK, PlannerTypeOK, PState
  <2> QED
    BY <1>4, <2>2, <2>3 DEF ArriveVantage, TypeOK, BodyTypeOK, bodyVars
<1>5. CASE FailGoal(r)
  BY <1>5, GoToType, ReleaseType, BrakeType, HappensType
  DEF FailGoal, TypeOK, PlannerTypeOK, ClaimTypeOK, PState
<1> QED
  BY <1>1, <1>2, <1>3, <1>4, <1>5 DEF Navigate

LEMMA DwellType ==
  ASSUME TypeOK, GoalIsActive, NEW r \in Robot, Dwell(r)
  PROVE  TypeOK'
<1>1. CASE BarrierOpens(r)
  BY <1>1
  DEF BarrierOpens, TypeOK, PlannerTypeOK, BodyTypeOK, bodyVars, ClaimTypeOK,
      ChannelTypeOK, claimVars
<1>2. CASE BarrierTimesOut(r)
  BY <1>2
  DEF BarrierTimesOut, TypeOK, PlannerTypeOK, BodyTypeOK, bodyVars, ClaimTypeOK,
      ChannelTypeOK, claimVars
<1>3. CASE CompleteDwell(r)
  <2> DEFINE t == goal[r][1]
             k == goal[r][2]
  <2> PICK clear \in BOOLEAN :
        LET q == RecordVantageDwell(queue[r], k, clear)
        IN  /\ pstate[r] = "EXPLOIT_DWELL"
            /\ queue' = [queue EXCEPT ![r] = q]
            /\ captured' = [captured EXCEPT ![t] =
                              IF clear THEN captured[t] \cup {k} ELSE captured[t]]
            /\ held' = [held EXCEPT ![r] = goal[r]]
            /\ IF have[r]
                 THEN Announce(r, [mine[r] EXCEPT !.mask = q.rec[t].mask])
                 ELSE UNCHANGED << mine, have, chan >>
            /\ GoTo(r, "LOG_STEP")
            /\ UNCHANGED << goal, barrier, outcome, bodyVars, claims, spent >>
    BY <1>3 DEF CompleteDwell
  <2> DEFINE q == RecordVantageDwell(queue[r], k, clear)
  <2>1. goal[r] \in Spot /\ t \in Target /\ k \in Angle
    BY DEF GoalIsActive, Spot
  <2>2. q \in Queue
    BY <2>1, RecordVantageDwellType DEF TypeOK, PlannerTypeOK
  <2>3. q.rec[t].mask \in SUBSET Angle
    BY <2>1, <2>2 DEF Queue, Entry
  <2> HIDE DEF q
  <2>4. queue' = [queue EXCEPT ![r] = q]
    BY DEF q
  <2>5. PlannerTypeOK'
    BY <2>1, <2>2, <2>4, GoToType DEF TypeOK, PlannerTypeOK, PState
  <2>6. captured' \in [Target -> SUBSET Angle]
    BY <2>1 DEF TypeOK
  <2>7. [mine[r] EXCEPT !.mask = q.rec[t].mask] \in Intent
    BY <2>3 DEF TypeOK, ClaimTypeOK, Intent
  <2>8. ClaimTypeOK' /\ ChannelTypeOK'
    <3>1. CASE have[r]
      <4>1. Announce(r, [mine[r] EXCEPT !.mask = q.rec[t].mask])
        BY <3>1 DEF q
      <4> QED
        BY <2>7, <4>1, AnnounceType DEF TypeOK, ClaimTypeOK
    <3>2. CASE ~ have[r]
      BY <3>2 DEF TypeOK, ClaimTypeOK, ChannelTypeOK
    <3> QED
      BY <3>1, <3>2
  <2> QED
    BY <2>5, <2>6, <2>8 DEF TypeOK, BodyTypeOK, bodyVars
<1> QED
  BY <1>1, <1>2, <1>3 DEF Dwell

LEMMA FinishType ==
  ASSUME TypeOK, NEW r \in Robot, Finish(r)
  PROVE  TypeOK'
<1>1. CASE LogStep(r)
  BY <1>1, GoToType
  DEF LogStep, TypeOK, PlannerTypeOK, BodyTypeOK, bodyVars, ClaimTypeOK,
      ChannelTypeOK, claimVars, PState
<1>2. CASE SpendBudget(r)
  BY <1>2, StartReturnType, FinishDoneType, HappensType
  DEF SpendBudget, TypeOK, ClaimTypeOK
<1>3. CASE TeamReconnects(r)
  BY <1>3, GoToType, ReleaseType
  DEF TeamReconnects, TypeOK, PlannerTypeOK, BodyTypeOK, bodyVars, ClaimTypeOK, PState
<1>4. CASE RendezvousExpires(r)
  BY <1>4, GoToType, ReleaseType
  DEF RendezvousExpires, TypeOK, PlannerTypeOK, BodyTypeOK, bodyVars, ClaimTypeOK, PState
<1> QED
  BY <1>1, <1>2, <1>3, <1>4 DEF Finish

\* The world: targets, messages, clocks, platforms and crashes.
World(r) ==
  \/ \E t \in Target : IngestTarget(r, t)
  \/ Heartbeat(r) \/ Drive(r) \/ Restart(r)
  \/ \E p \in Robot \ {r} : Deliver(p, r) \/ Lose(p, r) \/ ClaimAges(r, p)

LEMMA WorldType ==
  ASSUME TypeOK, NEW r \in Robot, World(r)
  PROVE  TypeOK'
<1>1. CASE \E t \in Target : IngestTarget(r, t)
  <2>1. \A t \in Target : Ingest(queue[r], t) \in Queue
    BY IngestType DEF TypeOK, PlannerTypeOK
  <2> QED
    BY <1>1, <2>1
    DEF IngestTarget, TypeOK, PlannerTypeOK, BodyTypeOK, bodyVars, ClaimTypeOK,
        ChannelTypeOK, claimVars
<1>2. CASE Heartbeat(r)
  <2>1. [mine[r] EXCEPT !.pos = loc[r]] \in Intent
    BY DEF TypeOK, BodyTypeOK, ClaimTypeOK, Intent
  <2>2. ClaimTypeOK' /\ ChannelTypeOK'
    BY <1>2, <2>1, AnnounceType DEF Heartbeat, TypeOK, ClaimTypeOK
  <2> QED
    BY <1>2, <2>2
    DEF Heartbeat, TypeOK, PlannerTypeOK, planVars, BodyTypeOK, bodyVars
<1>3. CASE Drive(r)
  BY <1>3, WorldAssumption
  DEF Drive, TypeOK, PlannerTypeOK, planVars, BodyTypeOK, ClaimTypeOK, ChannelTypeOK,
      claimVars
<1>4. CASE Restart(r)
  <2>1. PlannerTypeOK'
    BY <1>4, GoToType, EmptyQueueType, HomePlace
    DEF Restart, TypeOK, PlannerTypeOK, PState
  <2>2. ClaimTypeOK'
    BY <1>4, HomePlace, PlainIntentType, NoClaimType DEF Restart, TypeOK, ClaimTypeOK
  <2>3. ChannelTypeOK'
    BY <1>4, ParameterAssumption DEF Restart, TypeOK, ChannelTypeOK
  <2> QED
    BY <1>4, <2>1, <2>2, <2>3, HappensType DEF Restart, TypeOK, BodyTypeOK, bodyVars
<1>5. ASSUME NEW p \in Robot \ {r}, Deliver(p, r)
      PROVE  TypeOK'
  <2> DEFINE m == Head(chan[p][r])
  <2>1. chan[p][r] \in Seq(Intent) /\ chan[p][r] # << >> /\ Len(chan[p][r]) =< Depth
    BY <1>5 DEF Deliver, TypeOK, ChannelTypeOK
  <2>2. m \in Intent /\ m.mask \in SUBSET Angle
    BY <2>1, HeadType DEF Intent
  <2>3. Tail(chan[p][r]) \in Seq(Intent) /\ Len(Tail(chan[p][r])) =< Depth
    BY <2>1, ParameterAssumption
  <2>4. ChannelTypeOK'
    BY <1>5, <2>3 DEF Deliver, TypeOK, ChannelTypeOK
  <2>5. OnIntent(claims[r], p, m) \in [Robot -> Claim]
    BY <2>2, OnIntentType DEF TypeOK, ClaimTypeOK
  <2>6. ClaimTypeOK'
    BY <1>5, <2>5 DEF Deliver, TypeOK, ClaimTypeOK
  <2>7. MergePeerDwells(queue[r], m.target, m.mask) \in Queue
    BY <2>2, MergePeerDwellsType DEF TypeOK, PlannerTypeOK
  <2>8. PlannerTypeOK'
    BY <1>5, <2>7 DEF Deliver, TypeOK, PlannerTypeOK
  <2> QED
    BY <1>5, <2>4, <2>6, <2>8 DEF Deliver, TypeOK, BodyTypeOK, bodyVars
<1>6. ASSUME NEW p \in Robot \ {r}, Lose(p, r)
      PROVE  TypeOK'
  <2>1. chan[p][r] \in Seq(Intent) /\ chan[p][r] # << >> /\ Len(chan[p][r]) =< Depth
    BY <1>6 DEF Lose, TypeOK, ChannelTypeOK
  <2>2. Tail(chan[p][r]) \in Seq(Intent) /\ Len(Tail(chan[p][r])) =< Depth
    BY <2>1, ParameterAssumption
  <2>3. ChannelTypeOK'
    BY <1>6, <2>2 DEF Lose, TypeOK, ChannelTypeOK
  <2> QED
    BY <1>6, <2>3, HappensType
    DEF Lose, TypeOK, PlannerTypeOK, planVars, BodyTypeOK, bodyVars, ClaimTypeOK
<1>7. ASSUME NEW p \in Robot \ {r}, ClaimAges(r, p)
      PROVE  TypeOK'
  <2>1. Older(claims[r][p]) \in Claim
    BY OlderType DEF TypeOK, ClaimTypeOK
  <2>2. ClaimTypeOK'
    BY <1>7, <2>1 DEF ClaimAges, TypeOK, ClaimTypeOK
  <2>3. spent' \in Nat
    BY <1>7, HappensType DEF ClaimAges, TypeOK
  <2> QED
    BY <1>7, <2>2, <2>3
    DEF ClaimAges, TypeOK, PlannerTypeOK, planVars, BodyTypeOK, bodyVars, ChannelTypeOK
<1> QED
  BY <1>1, <1>2, <1>3, <1>4, <1>5, <1>6, <1>7 DEF World

LEMMA StepType ==
  ASSUME TypeOK, GoalIsActive, [Next]_vars
  PROVE  TypeOK'
<1>1. CASE UNCHANGED vars
  BY <1>1
  DEF vars, TypeOK, PlannerTypeOK, planVars, BodyTypeOK, bodyVars, ClaimTypeOK,
      ChannelTypeOK, claimVars
<1>2. ASSUME NEW r \in Robot, Tick(r) \/ ClosePartial(r) \/ World(r)
      PROVE  TypeOK'
  BY <1>2, ExploreType, PlanType, NavigateType, DwellType, FinishType, WorldType DEF Tick
<1> QED
  BY <1>1, <1>2 DEF Next, World

----------------------------------------------------------------------------
\* A step of one robot leaves every other robot as it is, claims about it aside.
SameRobot(x) ==
  /\ pstate'[x] = pstate[x] /\ queue'[x] = queue[x] /\ goal'[x] = goal[x]
  /\ outcome'[x] = outcome[x] /\ nav'[x] = nav[x] /\ loc'[x] = loc[x]
  /\ mine'[x] = mine[x] /\ have'[x] = have[x]

LEMMA OthersKeep ==
  ASSUME TypeOK, NEW r \in Robot, Tick(r) \/ ClosePartial(r) \/ World(r),
         NEW x \in Robot \ {r}
  PROVE  SameRobot(x)
<1> USE DEF TypeOK, PlannerTypeOK, BodyTypeOK, ClaimTypeOK, SameRobot, GoTo, planVars,
            bodyVars, claimVars
<1>a. ASSUME NEW m, Announce(r, m)
      PROVE  mine'[x] = mine[x] /\ have'[x] = have[x]
  BY <1>a DEF Announce
<1>b. Release(r) => mine'[x] = mine[x] /\ have'[x] = have[x]
  BY DEF Release
<1>c. Brake(r) => nav'[x] = nav[x] /\ loc'[x] = loc[x]
  BY DEF Brake
<1>1. CASE Explore(r)
  BY <1>1, <1>a, <1>b, <1>c
  DEF Explore, StartExploreHop, EndExploreHop, Engage, FinishExploring,
      StartReturnToAnchor, FinishDone
<1>2. CASE CloseComplete(r) \/ ClosePartial(r)
  BY <1>2, <1>b DEF CloseComplete, ClosePartial, CloseTarget
<1>3. CASE Hold(r)
  <2>1. mine'[x] = mine[x] /\ have'[x] = have[x]
    BY <1>3, <1>a DEF Hold
  <2>2. nav'[x] = nav[x]
    BY <1>3 DEF Hold
  <2> QED
    BY <1>3, <2>1, <2>2 DEF Hold
<1>4. CASE SelectVantage(r) \/ SelectApproach(r)
  BY <1>4, <1>a DEF SelectVantage, SelectApproach, StartExploitNavigate
<1>5. CASE RetryPlan(r)
  BY <1>5 DEF RetryPlan
<1>6. CASE Navigate(r)
  BY <1>6, <1>a, <1>b, <1>c
  DEF Navigate, GoalBlocked, YieldVantage, ArriveApproach, ArriveVantage, FailGoal
<1>7. CASE Dwell(r)
  BY <1>7, <1>a DEF Dwell, BarrierOpens, BarrierTimesOut, CompleteDwell
<1>8. CASE Finish(r)
  BY <1>8, <1>a, <1>b
  DEF Finish, LogStep, SpendBudget, StartReturnToAnchor, FinishDone, TeamReconnects,
      RendezvousExpires
<1>9. CASE World(r)
  BY <1>9, <1>a
  DEF World, IngestTarget, Heartbeat, Drive, Restart, Deliver, Lose, ClaimAges
<1> QED
  BY <1>1, <1>2, <1>3, <1>4, <1>5, <1>6, <1>7, <1>8, <1>9 DEF Tick, Plan

----------------------------------------------------------------------------
\* GoalIsActive, of one robot's queue, state and goal.
GoalOK(q, s, g) ==
  LET t == ActiveTarget(q)
  IN  /\ OneActive(q)
      /\ s = "EXPLOIT_PLAN" => Open(q) # {}
      /\ s \in {"NAVIGATE", "EXPLOIT_DWELL", "LOG_STEP"} => t # NoTarget
      /\ s \in {"NAVIGATE", "EXPLOIT_DWELL"} /\ g \in Spot => g[1] = t
      /\ s = "EXPLOIT_DWELL" => g \in Spot

LEMMA GoalOKDef ==
  GoalIsActive <=> \A r \in Robot : GoalOK(queue[r], pstate[r], goal[r])
BY DEF GoalIsActive, GoalOK

LEMMA PlannedActive ==
  ASSUME TypeOK, GoalIsActive, NEW r \in Robot, NEW t \in Target, PlanTick(r, t)
  PROVE  OneActive(Planned(r, t)) /\ ActiveTarget(Planned(r, t)) = t
<1> DEFINE q1 == Activate(queue[r], t)
<1>1. queue[r] \in Queue /\ OneActive(queue[r]) /\ Promotes(queue[r], t)
  BY DEF TypeOK, PlannerTypeOK, GoalIsActive, PlanTick
<1>2. q1 \in Queue /\ OneActive(q1) /\ ActiveTarget(q1) = t
  BY <1>1, ActivateType, ActivateActive
<1> HIDE DEF q1
<1>3. PeerDwellUnion(Prune(claims[r]), t) \in SUBSET Angle
  BY PruneType, PeerDwellUnionType DEF TypeOK, ClaimTypeOK
<1>4. SameStatus(q1, Planned(r, t))
  BY <1>2, <1>3, MergePeerDwellsStatus DEF Planned, q1
<1> QED
  BY <1>2, <1>4, SameStatusActive

\* What is left of GoalIsActive in a state outside the vantage sub-loop.
LEMMA IdleGoalOK ==
  ASSUME NEW q, OneActive(q), NEW s \in {"EXPLORE", "RETURN", "DONE"}, NEW g
  PROVE  GoalOK(q, s, g)
BY DEF GoalOK

LEMMA StandDownGoalOK ==
  ASSUME TypeOK, GoalIsActive, NEW r \in Robot,
         StartReturnToAnchor(r) \/ FinishDone(r)
  PROVE  GoalOK(queue'[r], pstate'[r], goal'[r])
<1>1. queue[r] \in Queue /\ OneActive(queue[r])
  BY DEF TypeOK, PlannerTypeOK, GoalIsActive
<1>2. CASE StartReturnToAnchor(r)
  <2>1. queue'[r] = Deactivate(queue[r]) /\ pstate'[r] = "RETURN"
    BY <1>2 DEF StartReturnToAnchor, GoTo, TypeOK, PlannerTypeOK
  <2>2. OneActive(Deactivate(queue[r]))
    BY <1>1, SetActiveStatusActive DEF Deactivate, Status
  <2> QED
    BY <2>1, <2>2, IdleGoalOK
<1>3. CASE FinishDone(r)
  <2>1. queue'[r] = queue[r] /\ pstate'[r] = "DONE"
    BY <1>3 DEF FinishDone, GoTo, TypeOK, PlannerTypeOK
  <2> QED
    BY <1>1, <2>1, IdleGoalOK
<1> QED
  BY <1>2, <1>3

LEMMA ExploreGoalOK ==
  ASSUME TypeOK, GoalIsActive, NEW r \in Robot, Explore(r)
  PROVE  GoalOK(queue'[r], pstate'[r], goal'[r])
<1>1. queue[r] \in Queue /\ OneActive(queue[r])
  BY DEF TypeOK, PlannerTypeOK, GoalIsActive
<1>2. CASE StartExploreHop(r) \/ EndExploreHop(r)
  <2>1. queue'[r] = queue[r] /\ pstate'[r] = "EXPLORE"
    BY <1>2 DEF StartExploreHop, EndExploreHop, planVars
  <2> QED
    BY <1>1, <2>1, IdleGoalOK
<1>3. CASE Engage(r)
  <2> PICK t \in Target : Promotes(queue[r], t) /\ queue'[r] = Activate(queue[r], t)
    BY <1>3 DEF Engage, TypeOK, PlannerTypeOK
  <2>1. OneActive(queue'[r]) /\ ActiveTarget(queue'[r]) = t
    BY <1>1, ActivateActive
  <2>2. Open(queue'[r]) # {}
    BY <2>1, ActiveIsOpen, TargetAssumption
  <2>3. pstate'[r] = "EXPLOIT_PLAN"
    BY <1>3 DEF Engage, GoTo, TypeOK, PlannerTypeOK
  <2> QED
    BY <2>1, <2>2, <2>3 DEF GoalOK
<1>4. CASE FinishExploring(r)
  BY <1>4, StandDownGoalOK DEF FinishExploring
<1> QED
  BY <1>2, <1>3, <1>4 DEF Explore

LEMMA PlanGoalOK ==
  ASSUME TypeOK, GoalIsActive, NEW r \in Robot, Plan(r) \/ ClosePartial(r)
  PROVE  GoalOK(queue'[r], pstate'[r], goal'[r])
<1>1. ASSUME NEW t \in Target, NEW v, PlanTick(r, t), CloseTarget(r, t, v)
      PROVE  GoalOK(queue'[r], pstate'[r], goal'[r])
  <2>1. queue'[r] = MarkActiveDone(Planned(r, t))
    BY <1>1 DEF CloseTarget, TypeOK, PlannerTypeOK
  <2>2. OneActive(queue'[r])
    BY <1>1, <2>1, PlannedType, PlannedActive, SetActiveStatusActive
    DEF MarkActiveDone, Status, TypeOK
  <2>3. pstate'[r] = IF HasPending(queue'[r]) THEN "EXPLOIT_PLAN" ELSE "EXPLORE"
    BY <1>1 DEF CloseTarget, GoTo, TypeOK, PlannerTypeOK
  <2> QED
    BY <2>2, <2>3 DEF GoalOK, HasPending
<1>2. ASSUME NEW t \in Target, PlanTick(r, t), queue'[r] = Planned(r, t),
             \/ pstate'[r] = "EXPLOIT_PLAN"
             \/ pstate'[r] = "NAVIGATE" /\ (goal'[r] \in Spot => goal'[r][1] = t)
      PROVE  GoalOK(queue'[r], pstate'[r], goal'[r])
  <2>1. OneActive(queue'[r]) /\ ActiveTarget(queue'[r]) = t /\ t # NoTarget
    BY <1>2, PlannedActive, TargetAssumption
  <2> QED
    BY <1>2, <2>1, ActiveIsOpen DEF GoalOK
<1>3. CASE CloseComplete(r) \/ ClosePartial(r)
  BY <1>1, <1>3 DEF CloseComplete, ClosePartial
<1>4. CASE Hold(r) \/ RetryPlan(r)
  BY <1>2, <1>4 DEF Hold, RetryPlan, PlanTick, TypeOK, PlannerTypeOK
<1>5. CASE SelectVantage(r)
  <2> PICK t \in Target : \E k \in Selectable(r, t) :
        PlanTick(r, t) /\ StartExploitNavigate(r, t, << t, k >>)
    BY <1>5 DEF SelectVantage
  <2> PICK k \in Selectable(r, t) : StartExploitNavigate(r, t, << t, k >>)
    OBVIOUS
  <2>1. /\ queue'[r] = Planned(r, t) /\ pstate'[r] = "NAVIGATE"
        /\ goal'[r] = << t, k >>
    BY DEF StartExploitNavigate, GoTo, TypeOK, PlannerTypeOK
  <2> QED
    BY <1>2, <2>1
<1>6. CASE SelectApproach(r)
  <2> PICK t \in Target : \E w \in ApproachPoints[loc[r]][t] :
        PlanTick(r, t) /\ StartExploitNavigate(r, t, w)
    BY <1>6 DEF SelectApproach
  <2> PICK w \in ApproachPoints[loc[r]][t] : StartExploitNavigate(r, t, w)
    OBVIOUS
  <2>1. queue'[r] = Planned(r, t) /\ pstate'[r] = "NAVIGATE" /\ goal'[r] = w
    BY DEF StartExploitNavigate, GoTo, TypeOK, PlannerTypeOK
  <2>2. w \in Waypoint
    BY WorldAssumption DEF TypeOK, BodyTypeOK
  <2> QED
    BY <1>2, <2>1, <2>2, PlaceAssumption
<1> QED
  BY <1>3, <1>4, <1>5, <1>6 DEF Plan

LEMMA DriveGoalOK ==
  ASSUME TypeOK, GoalIsActive, NEW r \in Robot, Navigate(r) \/ Dwell(r) \/ Finish(r)
  PROVE  GoalOK(queue'[r], pstate'[r], goal'[r])
<1>1. queue[r] \in Queue /\ OneActive(queue[r]) /\ GoalOK(queue[r], pstate[r], goal[r])
  BY GoalOKDef DEF TypeOK, PlannerTypeOK, GoalIsActive
<1>2. ActiveTarget(queue[r]) # NoTarget => Open(queue[r]) # {}
  BY ActiveIsOpen
<1>3. CASE Navigate(r)
  <2>1. pstate[r] = "NAVIGATE" /\ queue'[r] = queue[r] /\ goal'[r] = goal[r]
    BY <1>3 DEF Navigate, GoalBlocked, YieldVantage, ArriveApproach, ArriveVantage, FailGoal
  <2>2. \/ pstate'[r] \in {"EXPLORE", "EXPLOIT_PLAN", "LOG_STEP"}
        \/ pstate'[r] = "EXPLOIT_DWELL" /\ goal[r] \in Spot
    BY <1>3 DEF Navigate, GoalBlocked, YieldVantage, ArriveApproach, ArriveVantage,
                FailGoal, GoTo, TypeOK, PlannerTypeOK
  <2> QED
    BY <1>1, <1>2, <2>1, <2>2 DEF GoalOK
<1>4. CASE BarrierOpens(r) \/ BarrierTimesOut(r)
  BY <1>1, <1>4 DEF BarrierOpens, BarrierTimesOut
<1>5. CASE CompleteDwell(r)
  <2> PICK clear \in BOOLEAN :
        queue' = [queue EXCEPT ![r] = RecordVantageDwell(queue[r], goal[r][2], clear)]
    BY <1>5 DEF CompleteDwell
  <2>1. pstate[r] = "EXPLOIT_DWELL" /\ goal'[r] = goal[r] /\ pstate'[r] = "LOG_STEP"
    BY <1>5 DEF CompleteDwell, GoTo, TypeOK, PlannerTypeOK
  <2>2. goal[r][2] \in Angle
    BY <1>1, <2>1 DEF GoalOK, Spot
  <2>3. SameStatus(queue[r], queue'[r])
    BY <1>1, <2>2, RecordVantageDwellStatus DEF TypeOK, PlannerTypeOK
  <2> QED
    BY <1>1, <2>1, <2>3, SameStatusActive DEF GoalOK
<1>6. CASE LogStep(r)
  <2>1. /\ pstate[r] = "LOG_STEP" /\ pstate'[r] = "EXPLOIT_PLAN"
        /\ queue'[r] = queue[r] /\ goal'[r] = goal[r]
    BY <1>6 DEF LogStep, GoTo, TypeOK, PlannerTypeOK
  <2> QED
    BY <1>1, <1>2, <2>1 DEF GoalOK
<1>7. CASE SpendBudget(r)
  BY <1>7, StandDownGoalOK DEF SpendBudget
<1>8. CASE TeamReconnects(r) \/ RendezvousExpires(r)
  <2>1. queue'[r] = queue[r] /\ pstate'[r] \in {"EXPLORE", "DONE"}
    BY <1>8 DEF TeamReconnects, RendezvousExpires, GoTo, TypeOK, PlannerTypeOK
  <2> QED
    BY <1>1, <2>1, IdleGoalOK
<1> QED
  BY <1>3, <1>4, <1>5, <1>6, <1>7, <1>8 DEF Dwell, Finish

LEMMA WorldGoalOK ==
  ASSUME TypeOK, GoalIsActive, NEW r \in Robot, World(r)
  PROVE  GoalOK(queue'[r], pstate'[r], goal'[r])
<1>1. queue[r] \in Queue /\ OneActive(queue[r]) /\ GoalOK(queue[r], pstate[r], goal[r])
  BY GoalOKDef DEF TypeOK, PlannerTypeOK, GoalIsActive
<1>2. ASSUME NEW t \in Target, IngestTarget(r, t)
      PROVE  GoalOK(queue'[r], pstate'[r], goal'[r])
  <2>1. /\ queue'[r] = Ingest(queue[r], t)
        /\ pstate'[r] = pstate[r] /\ goal'[r] = goal[r]
    BY <1>2 DEF IngestTarget, TypeOK, PlannerTypeOK
  <2> QED
    BY <1>1, <2>1, IngestActive DEF GoalOK
<1>3. CASE Restart(r)
  <2>1. queue'[r] = EmptyQueue /\ pstate'[r] = "EXPLORE"
    BY <1>3 DEF Restart, GoTo, TypeOK, PlannerTypeOK
  <2> QED
    BY <2>1, EmptyQueueActive, IdleGoalOK
<1>4. ASSUME NEW p \in Robot \ {r}, Deliver(p, r)
      PROVE  GoalOK(queue'[r], pstate'[r], goal'[r])
  <2> DEFINE m == Head(chan[p][r])
  <2>1. m \in Intent /\ m.mask \in SUBSET Angle
    BY <1>4, HeadType DEF Deliver, TypeOK, ChannelTypeOK, Intent
  <2>2. SameStatus(queue[r], MergePeerDwells(queue[r], m.target, m.mask))
    BY <1>1, <2>1, MergePeerDwellsStatus
  <2>3. /\ queue'[r] \in {queue[r], MergePeerDwells(queue[r], m.target, m.mask)}
        /\ pstate'[r] = pstate[r] /\ goal'[r] = goal[r]
    BY <1>4 DEF Deliver, TypeOK, PlannerTypeOK
  <2> QED
    BY <1>1, <2>2, <2>3, SameStatusActive DEF GoalOK
<1>5. CASE Heartbeat(r) \/ Drive(r) \/ \E p \in Robot \ {r} : Lose(p, r) \/ ClaimAges(r, p)
  BY <1>1, <1>5 DEF Heartbeat, Drive, Lose, ClaimAges, planVars
<1> QED
  BY <1>2, <1>3, <1>4, <1>5 DEF World

LEMMA StepGoal ==
  ASSUME TypeOK, GoalIsActive, [Next]_vars
  PROVE  GoalIsActive'
<1>1. CASE UNCHANGED vars
  BY <1>1 DEF vars, planVars, GoalIsActive
<1>2. ASSUME NEW r \in Robot, Tick(r) \/ ClosePartial(r) \/ World(r)
      PROVE  GoalIsActive'
  <2>1. GoalOK(queue'[r], pstate'[r], goal'[r])
    BY <1>2, ExploreGoalOK, PlanGoalOK, DriveGoalOK, WorldGoalOK DEF Tick
  <2>2. \A x \in Robot \ {r} : GoalOK(queue'[x], pstate'[x], goal'[x])
    BY <1>2, OthersKeep, GoalOKDef DEF SameRobot
  <2> QED
    BY <2>1, <2>2 DEF GoalIsActive, GoalOK
<1> QED
  BY <1>1, <1>2 DEF Next, World

LEMMA InitGoal == Init => GoalIsActive
BY EmptyQueueActive DEF Init, GoalIsActive

(***************************************************************************)
(* Types hold in every reachable state: every queue, claim and message is  *)
(* well formed and no topic history outgrows its depth.  Inductive only    *)
(* together with GoalIsActive: the credit written at the end of a dwell is *)
(* indexed by the goal, which must then be a spot.                         *)
(***************************************************************************)
THEOREM TypeCorrect == Spec => []TypeOK
<1>1. Init => TypeOK /\ GoalIsActive
  BY InitType, InitGoal
<1>2. TypeOK /\ GoalIsActive /\ [Next]_vars => TypeOK' /\ GoalIsActive'
  BY StepType, StepGoal
<1> QED
  BY <1>1, <1>2, PTL DEF Spec

(***************************************************************************)
(* A vantage hop and its dwell belong to the one ACTIVE target, and the    *)
(* vantage sub-loop is never entered with a drained queue.                 *)
(***************************************************************************)
THEOREM GoalAlwaysActive == Spec => []GoalIsActive
<1>1. Init => TypeOK /\ GoalIsActive
  BY InitType, InitGoal
<1>2. TypeOK /\ GoalIsActive /\ [Next]_vars => TypeOK' /\ GoalIsActive'
  BY StepType, StepGoal
<1> QED
  BY <1>1, <1>2, PTL DEF Spec

----------------------------------------------------------------------------
\* Every way a step may change the acting robot's queue, its outcomes and the
\* angles captured so far.
QueueStep(r) ==
  \/ queue'[r] \in {queue[r], Deactivate(queue[r])}
  \/ \E t \in Target : queue'[r] = Ingest(queue[r], t)
  \/ \E t \in Target : Promotes(queue[r], t) /\ queue'[r] = Activate(queue[r], t)
  \/ \E t \in Target : PlanTick(r, t) /\ queue'[r] = Planned(r, t)
  \/ \E p \in Robot : /\ chan[p][r] # << >>
                      /\ queue'[r] = MergePeerDwells(queue[r], Head(chan[p][r]).target,
                                                     Head(chan[p][r]).mask)

DwellStep(r, clear) ==
  /\ goal[r] \in Spot /\ goal[r][1] = ActiveTarget(queue[r])
  /\ queue'[r] = RecordVantageDwell(queue[r], goal[r][2], clear)
  /\ captured' = [captured EXCEPT ![goal[r][1]] =
                    IF clear THEN @ \cup {goal[r][2]} ELSE @]

CloseStep(r, t, verdict) ==
  /\ PlanTick(r, t)
  /\ verdict = IF QuotaMet(r, t) THEN "complete" ELSE "partial"
  /\ queue'[r] = MarkActiveDone(Planned(r, t))
  /\ outcome' = [outcome EXCEPT ![r][t] = verdict]

LEMMA StepKinds ==
  ASSUME TypeOK, GoalIsActive, NEW r \in Robot, Tick(r) \/ ClosePartial(r) \/ World(r)
  PROVE  \/ QueueStep(r) /\ outcome' = outcome /\ captured' = captured
         \/ \E clear \in BOOLEAN : DwellStep(r, clear) /\ outcome' = outcome
         \/ \E t \in Target, v \in {"complete", "partial"} :
              CloseStep(r, t, v) /\ captured' = captured
         \/ Restart(r) /\ queue'[r] = EmptyQueue /\ captured' = captured
<1> USE DEF TypeOK, PlannerTypeOK, QueueStep
<1>1. CASE Explore(r)
  BY <1>1 DEF Explore, StartExploreHop, EndExploreHop, Engage, FinishExploring,
              StartReturnToAnchor, FinishDone, planVars
<1>2. CASE CloseComplete(r) \/ ClosePartial(r)
  BY <1>2 DEF CloseComplete, ClosePartial, CloseTarget, CloseStep
<1>3. CASE Hold(r) \/ SelectVantage(r) \/ SelectApproach(r) \/ RetryPlan(r)
  BY <1>3 DEF Hold, SelectVantage, SelectApproach, StartExploitNavigate, RetryPlan
<1>4. CASE Navigate(r)
  BY <1>4 DEF Navigate, GoalBlocked, YieldVantage, ArriveApproach, ArriveVantage, FailGoal
<1>5. CASE BarrierOpens(r) \/ BarrierTimesOut(r)
  BY <1>5 DEF BarrierOpens, BarrierTimesOut
<1>6. CASE CompleteDwell(r)
  <2>1. goal[r] \in Spot /\ goal[r][1] = ActiveTarget(queue[r])
    BY <1>6 DEF CompleteDwell, GoalIsActive
  <2> QED
    BY <1>6, <2>1 DEF CompleteDwell, DwellStep
<1>7. CASE Finish(r)
  BY <1>7 DEF Finish, LogStep, SpendBudget, StartReturnToAnchor, FinishDone,
              TeamReconnects, RendezvousExpires
<1>8. CASE World(r)
  BY <1>8 DEF World, IngestTarget, Heartbeat, Drive, Restart, Deliver, Lose, ClaimAges,
              planVars
<1> QED
  BY <1>1, <1>2, <1>3, <1>4, <1>5, <1>6, <1>7, <1>8 DEF Tick, Plan, Dwell

LEMMA PlannedCounted ==
  ASSUME TypeOK, NEW r \in Robot, NEW t \in Target, QueueCounted(queue[r])
  PROVE  QueueCounted(Planned(r, t))
<1> DEFINE q1 == Activate(queue[r], t)
<1>1. q1 \in Queue /\ QueueCounted(q1)
  BY ActivateType, ActivateCredit, SameCreditCounted DEF TypeOK, PlannerTypeOK
<1>2. PeerDwellUnion(Prune(claims[r]), t) \in SUBSET Angle
  BY PruneType, PeerDwellUnionType DEF TypeOK, ClaimTypeOK
<1> HIDE DEF q1
<1> QED
  BY <1>1, <1>2, MergePeerDwellsCounted DEF Planned, q1

LEMMA StepCounted ==
  ASSUME TypeOK, GoalIsActive, CreditCounted, [Next]_vars
  PROVE  CreditCounted'
<1> DEFINE Counted == \A x \in Robot : QueueCounted(queue[x])
<1>1. Counted <=> CreditCounted
  BY DEF CreditCounted, QueueCounted, EntryCounted
<1>2. CASE UNCHANGED vars
  BY <1>2 DEF vars, planVars, CreditCounted
<1>3. ASSUME NEW r \in Robot, Tick(r) \/ ClosePartial(r) \/ World(r)
      PROVE  CreditCounted'
  <2>1. queue[r] \in Queue /\ QueueCounted(queue[r])
    BY <1>1 DEF TypeOK, PlannerTypeOK
  <2>2. QueueCounted(Deactivate(queue[r])) /\ QueueCounted(EmptyQueue)
    BY <2>1, SetActiveStatusCredit, SameCreditCounted, EmptyQueueCounted
    DEF Deactivate, Status
  <2>3. ASSUME NEW t \in Target
        PROVE  /\ QueueCounted(Ingest(queue[r], t)) /\ QueueCounted(Activate(queue[r], t))
               /\ QueueCounted(Planned(r, t))
               /\ QueueCounted(MarkActiveDone(Planned(r, t)))
    <3>1. QueueCounted(Planned(r, t)) /\ Planned(r, t) \in Queue
      BY <2>1, PlannedCounted, PlannedType DEF TypeOK
    <3>2. QueueCounted(MarkActiveDone(Planned(r, t)))
      BY <3>1, SetActiveStatusCredit, SameCreditCounted DEF MarkActiveDone, Status
    <3>3. QueueCounted(Ingest(queue[r], t)) /\ QueueCounted(Activate(queue[r], t))
      BY <2>1, IngestCounted, ActivateCredit, SameCreditCounted
    <3> QED
      BY <3>1, <3>2, <3>3
  <2>4. \A clear \in BOOLEAN : goal[r] \in Spot =>
          QueueCounted(RecordVantageDwell(queue[r], goal[r][2], clear))
    BY <2>1, RecordVantageDwellCounted DEF Spot
  <2>5. \A p \in Robot : chan[p][r] # << >> =>
          QueueCounted(MergePeerDwells(queue[r], Head(chan[p][r]).target,
                                       Head(chan[p][r]).mask))
    <3>1. \A p \in Robot : chan[p][r] # << >> => Head(chan[p][r]).mask \in SUBSET Angle
      BY HeadType DEF TypeOK, ChannelTypeOK, Intent
    <3> QED
      BY <2>1, <3>1, MergePeerDwellsCounted
  <2>6. QueueCounted(queue'[r])
    BY <1>3, <2>1, <2>2, <2>3, <2>4, <2>5, StepKinds DEF QueueStep, DwellStep, CloseStep
  <2>7. \A x \in Robot \ {r} : QueueCounted(queue'[x])
    BY <1>1, <1>3, OthersKeep DEF SameRobot
  <2> QED
    BY <2>6, <2>7 DEF CreditCounted, QueueCounted, EntryCounted
<1> QED
  BY <1>2, <1>3 DEF Next, World

(***************************************************************************)
(* However often a mask is heard, each angle counts once: the counter the  *)
(* quota is tested on is the number of distinct credited angles.           *)
(***************************************************************************)
THEOREM CreditAlwaysCounted == Spec => []CreditCounted
<1>1. Init => CreditCounted
  BY EmptyQueueCounted DEF Init, CreditCounted, QueueCounted, EntryCounted
<1>2. CreditCounted /\ TypeOK /\ GoalIsActive /\ [Next]_vars => CreditCounted'
  BY StepCounted
<1> QED
  BY <1>1, <1>2, TypeCorrect, GoalAlwaysActive, PTL DEF Spec

----------------------------------------------------------------------------
\* The ACTIVE target changes only where a robot plans or stands down.
LEMMA ActiveKept ==
  ASSUME TypeOK, GoalIsActive, NEW r \in Robot,
         \/ \E t \in Target : IngestTarget(r, t)
         \/ \E p \in Robot \ {r} : Deliver(p, r)
  PROVE  ActiveTarget(queue'[r]) = ActiveTarget(queue[r])
<1>1. queue[r] \in Queue /\ OneActive(queue[r])
  BY DEF TypeOK, PlannerTypeOK, GoalIsActive
<1>2. CASE \E t \in Target : IngestTarget(r, t)
  BY <1>1, <1>2, IngestActive DEF IngestTarget, TypeOK, PlannerTypeOK
<1>3. ASSUME NEW p \in Robot \ {r}, Deliver(p, r)
      PROVE  ActiveTarget(queue'[r]) = ActiveTarget(queue[r])
  <2> DEFINE m == Head(chan[p][r])
  <2>1. m \in Intent /\ m.mask \in SUBSET Angle
    <3>1. chan[p][r] \in Seq(Intent) /\ chan[p][r] # << >>
      BY <1>3 DEF Deliver, TypeOK, ChannelTypeOK
    <3> QED
      BY <3>1, HeadType DEF Intent
  <2>2. SameStatus(queue[r], MergePeerDwells(queue[r], m.target, m.mask))
    BY <1>1, <2>1, MergePeerDwellsStatus
  <2>3. queue'[r] \in {queue[r], MergePeerDwells(queue[r], m.target, m.mask)}
    BY <1>3 DEF Deliver, TypeOK, PlannerTypeOK
  <2> QED
    BY <2>2, <2>3, SameStatusActive
<1> QED
  BY <1>2, <1>3

\* The claim on the anchor is an ordinary one.
LEMMA ReturnClaim ==
  ASSUME TypeOK, NEW r \in Robot, StartReturnToAnchor(r)
  PROVE  TrueClaim(r)'
<1> USE DEF TypeOK, PlannerTypeOK, ClaimTypeOK
<1>1. pstate'[r] = "RETURN"
  BY DEF StartReturnToAnchor, GoTo
<1>2. ~ mine'[r].staged
  <2> PICK anchor \in Place : Announce(r, PlainIntent(anchor, loc[r]))
    BY DEF StartReturnToAnchor
  <2> QED
    BY DEF Announce, PlainIntent, BuildIntent
<1> QED
  BY <1>1, <1>2 DEF TrueClaim

LEMMA TickClaim ==
  ASSUME TypeOK, GoalIsActive, ClaimIsTrue, NEW r \in Robot, Tick(r) \/ ClosePartial(r)
  PROVE  TrueClaim(r)'
<1> USE DEF TypeOK, PlannerTypeOK, BodyTypeOK, ClaimTypeOK, GoTo, planVars, bodyVars,
            claimVars
<1>1. TrueClaim(r)
  BY DEF ClaimIsTrue
<1>2. CASE Explore(r)
  <2>1. CASE StartExploreHop(r)
    BY <1>1, <2>1
    DEF StartExploreHop, Announce, PlainIntent, BuildIntent, TrueClaim
  <2>2. CASE EndExploreHop(r)
    BY <1>1, <2>2 DEF EndExploreHop, Release, TrueClaim
  <2>3. CASE Engage(r)
    BY <2>3 DEF Engage, TrueClaim
  <2>4. CASE FinishExploring(r)
    BY <2>4, ReturnClaim DEF FinishExploring, FinishDone, TrueClaim
  <2> QED
    BY <1>2, <2>1, <2>2, <2>3, <2>4 DEF Explore
<1>3. CASE CloseComplete(r) \/ ClosePartial(r)
  BY <1>3 DEF CloseComplete, ClosePartial, CloseTarget, Release, TrueClaim
<1>4. CASE Hold(r) \/ RetryPlan(r)
  BY <1>4 DEF Hold, RetryPlan, PlanTick, TrueClaim
<1>5. ASSUME NEW t \in Target, NEW g, PlanTick(r, t), StartExploitNavigate(r, t, g)
      PROVE  TrueClaim(r)'
  <2>1. ActiveTarget(Planned(r, t)) = t
    BY <1>5, PlannedActive
  <2>2. queue'[r] = Planned(r, t) /\ pstate'[r] = "NAVIGATE" /\ goal'[r] = g /\ nav'[r] = g
    BY <1>5 DEF StartExploitNavigate
  <2>3. /\ mine'[r].exploit = TRUE /\ mine'[r].target = t /\ mine'[r].goal = g
        /\ mine'[r].staged = FALSE /\ have'[r] = TRUE
    BY <1>5 DEF StartExploitNavigate, Announce, BuildIntent
  <2> QED
    BY <2>1, <2>2, <2>3 DEF TrueClaim
<1>6. CASE SelectVantage(r) \/ SelectApproach(r)
  BY <1>5, <1>6 DEF SelectVantage, SelectApproach
<1>7. CASE GoalBlocked(r) \/ YieldVantage(r) \/ FailGoal(r)
  BY <1>7 DEF GoalBlocked, YieldVantage, FailGoal, Release, TrueClaim
<1>8. CASE ArriveApproach(r)
  BY <1>8 DEF ArriveApproach, TrueClaim
<1>9. CASE ArriveVantage(r)
  <2>1. /\ pstate[r] = "NAVIGATE" /\ loc[r] = goal[r] /\ pstate'[r] = "EXPLOIT_DWELL"
        /\ queue' = queue /\ goal' = goal /\ nav' = nav /\ loc' = loc
    BY <1>9 DEF ArriveVantage
  <2>2. have[r] /\ mine'[r] = [mine[r] EXCEPT !.staged = TRUE] /\ have'[r] = TRUE
    BY <1>1, <1>9, <2>1 DEF ArriveVantage, Announce, TrueClaim
  <2>3. /\ mine'[r].exploit = mine[r].exploit /\ mine'[r].target = mine[r].target
        /\ mine'[r].goal = mine[r].goal /\ mine'[r].staged = TRUE
    BY <2>2 DEF Intent
  <2> QED
    BY <1>1, <2>1, <2>2, <2>3 DEF TrueClaim
<1>10. CASE BarrierOpens(r) \/ BarrierTimesOut(r)
  BY <1>1, <1>10 DEF BarrierOpens, BarrierTimesOut, TrueClaim
<1>11. CASE CompleteDwell(r) \/ LogStep(r) \/ RendezvousExpires(r)
  BY <1>11 DEF CompleteDwell, LogStep, RendezvousExpires, TrueClaim
<1>12. CASE SpendBudget(r)
  BY <1>12, ReturnClaim DEF SpendBudget, FinishDone, TrueClaim
<1>13. CASE TeamReconnects(r)
  BY <1>13 DEF TeamReconnects, Release, TrueClaim
<1> QED
  BY <1>2, <1>3, <1>4, <1>6, <1>7, <1>8, <1>9, <1>10, <1>11, <1>12, <1>13
  DEF Tick, Plan, Navigate, Dwell, Finish

LEMMA WorldClaim ==
  ASSUME TypeOK, GoalIsActive, ClaimIsTrue, NEW r \in Robot, World(r)
  PROVE  TrueClaim(r)'
<1> USE DEF TypeOK, PlannerTypeOK, BodyTypeOK, ClaimTypeOK, GoTo, planVars, bodyVars,
            claimVars
<1>1. TrueClaim(r)
  BY DEF ClaimIsTrue
<1>2. CASE \/ \E t \in Target : IngestTarget(r, t)
           \/ \E p \in Robot \ {r} : Deliver(p, r)
  <2>1. ActiveTarget(queue'[r]) = ActiveTarget(queue[r])
    BY <1>2, ActiveKept
  <2> QED
    BY <1>1, <1>2, <2>1 DEF IngestTarget, Deliver, TrueClaim
<1>3. CASE Heartbeat(r)
  <2>1. mine'[r] = [mine[r] EXCEPT !.pos = loc[r]] /\ have'[r] = have[r]
    BY <1>3 DEF Heartbeat, Announce, Beating
  <2>2. /\ mine'[r].exploit = mine[r].exploit /\ mine'[r].target = mine[r].target
        /\ mine'[r].goal = mine[r].goal /\ mine'[r].staged = mine[r].staged
    BY <2>1 DEF Intent
  <2> QED
    BY <1>1, <1>3, <2>1, <2>2 DEF Heartbeat, TrueClaim
<1>4. CASE Drive(r)
  BY <1>1, <1>4 DEF Drive, TrueClaim
<1>5. CASE Restart(r)
  BY <1>5 DEF Restart, TrueClaim
<1>6. CASE \E p \in Robot \ {r} : Lose(p, r) \/ ClaimAges(r, p)
  BY <1>1, <1>6 DEF Lose, ClaimAges, TrueClaim
<1> QED
  BY <1>2, <1>3, <1>4, <1>5, <1>6 DEF World

(***************************************************************************)
(* What a robot claims is what it does: the staged flag, the goal and the  *)
(* target of every claim made in a drive or a dwell.                       *)
(***************************************************************************)
THEOREM ClaimAlwaysTrue == Spec => []ClaimIsTrue
<1>1. Init => ClaimIsTrue
  BY DEF Init, ClaimIsTrue, TrueClaim
<1>2. ASSUME ClaimIsTrue, TypeOK, GoalIsActive, [Next]_vars
      PROVE  ClaimIsTrue'
  <2>1. CASE UNCHANGED vars
    BY <1>2, <2>1 DEF vars, planVars, bodyVars, claimVars, ClaimIsTrue, TrueClaim
  <2>2. ASSUME NEW r \in Robot, Tick(r) \/ ClosePartial(r) \/ World(r)
        PROVE  ClaimIsTrue'
    <3>1. TrueClaim(r)'
      BY <1>2, <2>2, TickClaim, WorldClaim
    <3>2. \A x \in Robot \ {r} : TrueClaim(x)'
      BY <1>2, <2>2, OthersKeep DEF SameRobot, ClaimIsTrue, TrueClaim
    <3> QED
      BY <3>1, <3>2 DEF ClaimIsTrue
  <2> QED
    BY <1>2, <2>1, <2>2 DEF Next, World
<1> QED
  BY <1>1, <1>2, TypeCorrect, GoalAlwaysActive, PTL DEF Spec

----------------------------------------------------------------------------
\* Where the claims, the messages and the history of a step come from.
LEMMA CapturedGrows ==
  ASSUME TypeOK, GoalIsActive, NEW r \in Robot, Tick(r) \/ ClosePartial(r) \/ World(r)
  PROVE  \A t \in Target : captured[t] \subseteq captured'[t]
<1>1. ASSUME NEW clear \in BOOLEAN, DwellStep(r, clear)
      PROVE  \A t \in Target : captured[t] \subseteq captured'[t]
  BY <1>1 DEF DwellStep, TypeOK
<1>2. captured' = captured \/ \E clear \in BOOLEAN : DwellStep(r, clear)
  BY StepKinds
<1> QED
  BY <1>1, <1>2

\* A claim carries the credit it already had, that of the queue, or none.
MineStep(r) ==
  \/ mine'[r].target = NoTarget
  \/ mine'[r].target = mine[r].target /\ mine'[r].mask = mine[r].mask
  \/ mine'[r].mask = queue'[r].rec[mine'[r].target].mask

LEMMA MineComesFrom ==
  ASSUME TypeOK, GoalIsActive, ClaimIsTrue, NEW r \in Robot,
         Tick(r) \/ ClosePartial(r) \/ World(r)
  PROVE  MineStep(r)
<1> USE DEF TypeOK, PlannerTypeOK, ClaimTypeOK, MineStep
<1>a. ASSUME NEW m, Announce(r, m)
      PROVE  mine'[r] = m
  BY <1>a DEF Announce
<1>b. Release(r) => mine'[r].target = NoTarget
  BY DEF Release, PlainIntent, BuildIntent
<1>c. \A g, p : PlainIntent(g, p).target = NoTarget
  BY DEF PlainIntent, BuildIntent
<1>1. CASE Explore(r) \/ Finish(r)
  BY <1>1, <1>a, <1>b, <1>c
  DEF Explore, StartExploreHop, EndExploreHop, Engage, FinishExploring, Finish, LogStep,
      SpendBudget, StartReturnToAnchor, FinishDone, TeamReconnects, RendezvousExpires,
      claimVars
<1>2. CASE CloseComplete(r) \/ ClosePartial(r)
  BY <1>2, <1>b DEF CloseComplete, ClosePartial, CloseTarget
<1>3. CASE Hold(r)
  <2> PICK t \in Target :
        /\ queue' = [queue EXCEPT ![r] = Planned(r, t)]
        /\ LET mask == Planned(r, t).rec[t].mask
           IN  IF ~ have[r] \/ ~ mine[r].staged \/ mine[r].target # t
                 THEN Announce(r, BuildIntent(held[r], loc[r], TRUE, t, mask, TRUE))
                 ELSE mine' = [mine EXCEPT ![r].mask = mask]
    BY <1>3 DEF Hold
  <2>1. queue'[r].rec[t].mask = Planned(r, t).rec[t].mask
    OBVIOUS
  <2>2. CASE ~ have[r] \/ ~ mine[r].staged \/ mine[r].target # t
    BY <1>a, <2>1, <2>2 DEF BuildIntent
  <2>3. CASE ~ (~ have[r] \/ ~ mine[r].staged \/ mine[r].target # t)
    <3>1. mine'[r] = [mine[r] EXCEPT !.mask = Planned(r, t).rec[t].mask]
      BY <2>3
    <3>2. mine'[r].target = t /\ mine'[r].mask = Planned(r, t).rec[t].mask
      BY <2>3, <3>1 DEF Intent
    <3> QED
      BY <2>1, <3>2
  <2> QED
    BY <2>2, <2>3
<1>4. ASSUME NEW t \in Target, NEW g, StartExploitNavigate(r, t, g)
      PROVE  MineStep(r)
  BY <1>4, <1>a DEF StartExploitNavigate, BuildIntent
<1>5. CASE SelectVantage(r) \/ SelectApproach(r)
  BY <1>4, <1>5 DEF SelectVantage, SelectApproach
<1>6. CASE RetryPlan(r) \/ BarrierOpens(r) \/ BarrierTimesOut(r)
  BY <1>6 DEF RetryPlan, BarrierOpens, BarrierTimesOut, claimVars
<1>7. CASE Navigate(r)
  <2>1. /\ [mine[r] EXCEPT !.staged = TRUE].target = mine[r].target
        /\ [mine[r] EXCEPT !.staged = TRUE].mask = mine[r].mask
    BY DEF Intent
  <2> QED
    BY <1>7, <1>a, <1>b, <2>1
    DEF Navigate, GoalBlocked, YieldVantage, ArriveApproach, ArriveVantage, FailGoal,
        claimVars
<1>8. CASE CompleteDwell(r)
  <2> PICK clear \in BOOLEAN :
        LET q == RecordVantageDwell(queue[r], goal[r][2], clear)
        IN  /\ queue' = [queue EXCEPT ![r] = q]
            /\ IF have[r]
                 THEN Announce(r, [mine[r] EXCEPT !.mask = q.rec[goal[r][1]].mask])
                 ELSE UNCHANGED << mine, have, chan >>
    BY <1>8 DEF CompleteDwell
  <2>1. /\ have[r] /\ mine[r].target = ActiveTarget(queue[r])
        /\ goal[r][1] = ActiveTarget(queue[r])
    BY <1>8 DEF CompleteDwell, ClaimIsTrue, TrueClaim, GoalIsActive
  <2>2. mine'[r] = [mine[r] EXCEPT !.mask = queue'[r].rec[goal[r][1]].mask]
    BY <1>a, <2>1
  <2>3. /\ mine'[r].target = mine[r].target
        /\ mine'[r].mask = queue'[r].rec[goal[r][1]].mask
    BY <2>2 DEF Intent
  <2> QED
    BY <2>1, <2>3
<1>9. CASE World(r)
  <2>1. /\ [mine[r] EXCEPT !.pos = loc[r]].target = mine[r].target
        /\ [mine[r] EXCEPT !.pos = loc[r]].mask = mine[r].mask
    BY DEF Intent
  <2>2. Restart(r) => mine'[r].target = NoTarget
    BY <1>c DEF Restart
  <2> QED
    BY <1>9, <1>a, <2>1, <2>2
    DEF World, IngestTarget, Heartbeat, Drive, Deliver, Lose, ClaimAges, claimVars
<1> QED
  BY <1>1, <1>2, <1>3, <1>5, <1>6, <1>7, <1>8, <1>9 DEF Tick, Plan, Dwell

\* A claim table holds what it held, nothing, or the message just received.
LEMMA ClaimsComeFrom ==
  ASSUME TypeOK, NEW r \in Robot, Tick(r) \/ ClosePartial(r) \/ World(r),
         NEW x \in Robot, NEW p \in Robot
  PROVE  \/ claims'[x][p].msg = claims[x][p].msg
         \/ claims'[x][p].msg.target = NoTarget
         \/ chan[p][x] # << >> /\ claims'[x][p].msg = Head(chan[p][x])
<1> USE DEF TypeOK, ClaimTypeOK
<1>a. NoClaim.msg.target = NoTarget
  BY DEF NoClaim, PlainIntent, BuildIntent
<1>b. CASE claims' = claims
  BY <1>b
<1>c. CASE PruneClaims(r)
  BY <1>a, <1>c DEF PruneClaims, Prune
<1>1. CASE Explore(r)
  BY <1>1, <1>b, <1>c
  DEF Explore, StartExploreHop, EndExploreHop, Engage, FinishExploring
<1>2. CASE Plan(r) \/ ClosePartial(r)
  BY <1>2, <1>c
  DEF Plan, CloseComplete, ClosePartial, Hold, SelectVantage, SelectApproach, RetryPlan,
      PlanTick
<1>3. CASE Navigate(r) \/ Dwell(r) \/ Finish(r)
  BY <1>3, <1>b
  DEF Navigate, GoalBlocked, YieldVantage, ArriveApproach, ArriveVantage, FailGoal, Dwell,
      BarrierOpens, BarrierTimesOut, CompleteDwell, Finish, LogStep, SpendBudget,
      TeamReconnects, RendezvousExpires, claimVars
<1>4. CASE Restart(r)
  BY <1>4, <1>a DEF Restart, NoClaims
<1>5. ASSUME NEW q \in Robot \ {r}, Deliver(q, r)
      PROVE  \/ claims'[x][p].msg = claims[x][p].msg
             \/ chan[p][x] # << >> /\ claims'[x][p].msg = Head(chan[p][x])
  BY <1>5 DEF Deliver, OnIntent
<1>6. ASSUME NEW q \in Robot \ {r}, ClaimAges(r, q)
      PROVE  claims'[x][p].msg = claims[x][p].msg
  BY <1>6 DEF ClaimAges, Older, Claim
<1>7. CASE \/ \E t \in Target : IngestTarget(r, t)
           \/ Heartbeat(r) \/ Drive(r) \/ \E q \in Robot \ {r} : Lose(q, r)
  BY <1>7, <1>b DEF IngestTarget, Heartbeat, Drive, Lose, claimVars
<1> QED
  BY <1>1, <1>2, <1>3, <1>4, <1>5, <1>6, <1>7 DEF Tick, World

LEMMA KeepLastElements ==
  ASSUME NEW s \in Seq(Intent), NEW m \in Intent,
         NEW i \in DOMAIN KeepLast(Append(s, m))
  PROVE  \/ KeepLast(Append(s, m))[i] = m
         \/ \E j \in DOMAIN s : KeepLast(Append(s, m))[i] = s[j]
<1> DEFINE a == Append(s, m)
<1>1. /\ a \in Seq(Intent) /\ Len(a) = Len(s) + 1 /\ a # << >>
      /\ \A j \in 1 .. Len(a) : a[j] = m \/ (j \in DOMAIN s /\ a[j] = s[j])
  OBVIOUS
<1> HIDE DEF a
<1>2. \A j \in DOMAIN Tail(a) : j + 1 \in 1 .. Len(a) /\ Tail(a)[j] = a[j + 1]
  BY <1>1
<1>3. DOMAIN a = 1 .. Len(a)
  BY <1>1
<1> QED
  BY <1>1, <1>2, <1>3 DEF KeepLast, a

\* The four ways a step may change the channels.
LEMMA ChannelStep ==
  ASSUME NEW r \in Robot, Tick(r) \/ ClosePartial(r) \/ World(r), TypeOK
  PROVE  \/ chan' = chan
         \/ Publish(r, mine'[r])
         \/ \E p \in Robot : chan[p][r] # << >> /\ chan' = [chan EXCEPT ![p][r] = Tail(@)]
         \/ chan' = [p \in Robot |-> [chan[p] EXCEPT ![r] = << >>]]
<1> USE DEF TypeOK, ClaimTypeOK, claimVars
<1>a. ASSUME NEW m, Announce(r, m)
      PROVE  Publish(r, mine'[r])
  BY <1>a DEF Announce
<1>b. Release(r) => chan' = chan
  BY DEF Release
<1>1. CASE Explore(r) \/ Finish(r)
  BY <1>1, <1>a, <1>b
  DEF Explore, StartExploreHop, EndExploreHop, Engage, FinishExploring, Finish, LogStep,
      SpendBudget, StartReturnToAnchor, FinishDone, TeamReconnects, RendezvousExpires
<1>2. CASE Plan(r) \/ ClosePartial(r)
  <2>1. CASE CloseComplete(r) \/ ClosePartial(r) \/ RetryPlan(r)
    BY <2>1, <1>b DEF CloseComplete, ClosePartial, CloseTarget, RetryPlan
  <2>2. CASE Hold(r)
    BY <2>2, <1>a DEF Hold
  <2>3. CASE SelectVantage(r) \/ SelectApproach(r)
    BY <2>3, <1>a DEF SelectVantage, SelectApproach, StartExploitNavigate
  <2> QED
    BY <1>2, <2>1, <2>2, <2>3 DEF Plan
<1>3. CASE Navigate(r)
  BY <1>3, <1>a, <1>b
  DEF Navigate, GoalBlocked, YieldVantage, ArriveApproach, ArriveVantage, FailGoal
<1>4. CASE Dwell(r)
  BY <1>4, <1>a DEF Dwell, BarrierOpens, BarrierTimesOut, CompleteDwell
<1>5. CASE World(r)
  BY <1>5, <1>a
  DEF World, IngestTarget, Heartbeat, Drive, Restart, Deliver, Lose, ClaimAges
<1> QED
  BY <1>1, <1>2, <1>3, <1>4, <1>5 DEF Tick

\* A message on the wire was on the wire before, or is its producer's claim.
LEMMA ChannelComesFrom ==
  ASSUME TypeOK, TypeOK', NEW r \in Robot, Tick(r) \/ ClosePartial(r) \/ World(r),
         NEW p \in Robot, NEW x \in Robot, NEW i \in DOMAIN chan'[p][x]
  PROVE  \/ chan'[p][x][i] = mine'[p]
         \/ \E j \in DOMAIN chan[p][x] : chan'[p][x][i] = chan[p][x][j]
<1>0. chan[p][x] \in Seq(Intent) /\ mine'[p] \in Intent /\ chan[p] \in [Robot -> Seq(Intent)]
  BY DEF TypeOK, ClaimTypeOK, ChannelTypeOK
<1>1. CASE chan' = chan
  BY <1>1
<1>2. CASE Publish(r, mine'[r])
  <2>1. CASE p = r /\ x # r
    <3>1. chan'[p][x] = KeepLast(Append(chan[p][x], mine'[p]))
      BY <1>2, <2>1 DEF Publish, TypeOK, ChannelTypeOK
    <3> QED
      BY <1>0, <3>1, KeepLastElements
  <2>2. CASE p = r /\ x = r
    <3>1. chan'[p][x] = << >>
      BY <1>2, <2>2 DEF Publish, TypeOK, ChannelTypeOK
    <3> QED
      BY <3>1
  <2>3. CASE p # r
    BY <1>2, <2>3 DEF Publish, TypeOK, ChannelTypeOK
  <2> QED
    BY <2>1, <2>2, <2>3
<1>3. ASSUME NEW q \in Robot, chan[q][r] # << >>, chan' = [chan EXCEPT ![q][r] = Tail(@)]
      PROVE  \E j \in DOMAIN chan[p][x] : chan'[p][x][i] = chan[p][x][j]
  <2>1. CASE p = q /\ x = r
    <3>1. chan'[p][x] = Tail(chan[p][x]) /\ chan[p][x] # << >>
      BY <1>3, <2>1 DEF TypeOK, ChannelTypeOK
    <3>2. i + 1 \in DOMAIN chan[p][x] /\ Tail(chan[p][x])[i] = chan[p][x][i + 1]
      BY <1>0, <3>1
    <3> QED
      BY <3>1, <3>2
  <2>2. CASE ~ (p = q /\ x = r)
    BY <1>3, <2>2 DEF TypeOK, ChannelTypeOK
  <2> QED
    BY <2>1, <2>2
<1>4. CASE chan' = [o \in Robot |-> [chan[o] EXCEPT ![r] = << >>]]
  <2>1. chan'[p][x] = IF x = r THEN << >> ELSE chan[p][x]
    BY <1>0, <1>4
  <2> QED
    BY <2>1
<1> QED
  BY <1>1, <1>2, <1>3, <1>4, ChannelStep

----------------------------------------------------------------------------
QueueSound(q) == \A t \in Target : q.rec[t].mask \subseteq captured[t]

LEMMA MergeSound ==
  ASSUME NEW q \in Queue, QueueSound(q), NEW t, NEW S \in SUBSET Angle,
         t \in Target => S \subseteq captured[t]
  PROVE  QueueSound(MergePeerDwells(q, t, S))
<1>1. \A u \in Target : q.rec[u] \in Entry
  BY DEF Queue
<1> QED
  BY <1>1, MergePeerDwellsEntry, CreditedMask DEF QueueSound, Open

LEMMA PlannedSound ==
  ASSUME TypeOK, CreditSound, NEW r \in Robot, NEW t \in Target
  PROVE  QueueSound(Planned(r, t))
<1> DEFINE q1 == Activate(queue[r], t)
           S  == PeerDwellUnion(Prune(claims[r]), t)
<1>1. q1 \in Queue /\ QueueSound(q1)
  <2>1. queue[r] \in Queue /\ QueueSound(queue[r])
    BY DEF TypeOK, PlannerTypeOK, CreditSound, QueueSound
  <2>2. q1 \in Queue /\ SameCredit(queue[r], q1)
    BY <2>1, ActivateType, ActivateCredit
  <2> QED
    BY <2>1, <2>2 DEF QueueSound, SameCredit
<1>2. S \in SUBSET Angle
  BY PruneType, PeerDwellUnionType DEF TypeOK, ClaimTypeOK
<1>3. S \subseteq captured[t]
  <2>1. \A p \in Robot : MaskSound(Prune(claims[r])[p].msg)
    BY TargetAssumption
    DEF Prune, NoClaim, PlainIntent, BuildIntent, CreditSound, MaskSound
  <2> QED
    BY <2>1 DEF PeerDwellUnion, ExploitPeers, MaskSound
<1> HIDE DEF q1, S
<1>4. Planned(r, t) = MergePeerDwells(q1, t, S)
  BY DEF Planned, q1, S
<1> QED
  BY <1>1, <1>2, <1>3, <1>4, MergeSound

LEMMA QueueStaysSound ==
  ASSUME TypeOK, GoalIsActive, CreditSound, NEW r \in Robot,
         Tick(r) \/ ClosePartial(r) \/ World(r)
  PROVE  QueueSound(queue[r])'
<1>1. queue[r] \in Queue /\ QueueSound(queue[r])
  BY DEF TypeOK, PlannerTypeOK, CreditSound, QueueSound
<1>2. ASSUME NEW q, QueueSound(q), queue'[r] = q
      PROVE  QueueSound(queue[r])'
  BY <1>2, CapturedGrows DEF QueueSound
<1>3. QueueSound(Deactivate(queue[r])) /\ QueueSound(EmptyQueue)
  <2>1. SameCredit(queue[r], Deactivate(queue[r]))
    BY <1>1, SetActiveStatusCredit DEF Deactivate, Status
  <2>2. QueueSound(EmptyQueue)
    BY DEF QueueSound, EmptyQueue, FreshEntry
  <2> QED
    BY <1>1, <2>1, <2>2 DEF QueueSound, SameCredit
<1>4. ASSUME NEW t \in Target
      PROVE  /\ QueueSound(Ingest(queue[r], t)) /\ QueueSound(Activate(queue[r], t))
             /\ QueueSound(Planned(r, t)) /\ QueueSound(MarkActiveDone(Planned(r, t)))
  <2>1. QueueSound(Ingest(queue[r], t))
    BY <1>1, IngestCredit DEF QueueSound, FreshEntry
  <2>2. QueueSound(Activate(queue[r], t))
    BY <1>1, ActivateCredit DEF QueueSound, SameCredit
  <2>3. QueueSound(Planned(r, t)) /\ Planned(r, t) \in Queue
    BY PlannedSound, PlannedType DEF TypeOK
  <2>4. SameCredit(Planned(r, t), MarkActiveDone(Planned(r, t)))
    BY <2>3, SetActiveStatusCredit DEF MarkActiveDone, Status
  <2> QED
    BY <2>1, <2>2, <2>3, <2>4 DEF QueueSound, SameCredit
<1>5. ASSUME NEW clear \in BOOLEAN, goal[r] \in Spot,
             goal[r][1] = ActiveTarget(queue[r]),
             queue'[r] = RecordVantageDwell(queue[r], goal[r][2], clear),
             captured' = [captured EXCEPT ![goal[r][1]] =
                           IF clear THEN @ \cup {goal[r][2]} ELSE @]
      PROVE  QueueSound(queue[r])'
  <2> DEFINE t == goal[r][1]
             k == goal[r][2]
  <2>1. t \in Target /\ k \in Angle
    BY <1>5 DEF Spot
  <2>2. \A u \in Target : queue'[r].rec[u].mask =
          IF u = t /\ clear THEN queue[r].rec[u].mask \cup {k} ELSE queue[r].rec[u].mask
    <3> TAKE u \in Target
    <3>1. queue[r].rec[u] \in Entry
      BY <1>1 DEF Queue
    <3>2. queue'[r].rec[u] =
            IF u = t THEN Dwelled(queue[r].rec[u], k, clear) ELSE queue[r].rec[u]
      BY <1>1, <1>5, <2>1, RecordVantageDwellEntry
    <3>3. Dwelled(queue[r].rec[u], k, clear).mask =
            IF clear THEN queue[r].rec[u].mask \cup {k} ELSE queue[r].rec[u].mask
      BY <2>1, <3>1, DwelledMask
    <3> QED
      BY <3>2, <3>3
  <2>3. clear => k \in captured'[t]
    BY <1>5, <2>1 DEF TypeOK
  <2>4. \A u \in Target : queue[r].rec[u].mask \subseteq captured'[u]
    BY <1>1, CapturedGrows DEF QueueSound
  <2> HIDE DEF t, k
  <2> QED
    BY <2>2, <2>3, <2>4 DEF QueueSound
<1>6. ASSUME NEW p \in Robot, chan[p][r] # << >>
      PROVE  QueueSound(MergePeerDwells(queue[r], Head(chan[p][r]).target,
                                        Head(chan[p][r]).mask))
  <2>1. Head(chan[p][r]) \in Intent /\ Head(chan[p][r]).mask \in SUBSET Angle
    BY <1>6, HeadType DEF TypeOK, ChannelTypeOK, Intent
  <2>2. MaskSound(Head(chan[p][r]))
    <3>1. 1 \in DOMAIN chan[p][r] /\ Head(chan[p][r]) = chan[p][r][1]
      BY <1>6 DEF TypeOK, ChannelTypeOK
    <3> QED
      BY <3>1 DEF CreditSound
  <2> QED
    BY <1>1, <2>1, <2>2, MergeSound DEF MaskSound
<1> QED
  BY <1>1, <1>2, <1>3, <1>4, <1>5, <1>6, StepKinds DEF QueueStep, DwellStep, CloseStep

LEMMA StepSound ==
  ASSUME TypeOK, TypeOK', GoalIsActive, ClaimIsTrue, CreditSound, [Next]_vars
  PROVE  CreditSound'
<1>1. CASE UNCHANGED vars
  BY <1>1 DEF vars, planVars, claimVars, CreditSound, MaskSound
<1>2. ASSUME NEW r \in Robot, Tick(r) \/ ClosePartial(r) \/ World(r)
      PROVE  CreditSound'
  <2>1. \A t \in Target : captured[t] \subseteq captured'[t]
    BY <1>2, CapturedGrows
  <2>2. ASSUME NEW m, NEW m2, MaskSound(m), m2 = m
        PROVE  MaskSound(m2)'
    BY <2>1, <2>2 DEF MaskSound
  <2>3. \A x \in Robot : QueueSound(queue[x])'
    <3>1. QueueSound(queue[r])'
      BY <1>2, QueueStaysSound
    <3>2. \A x \in Robot \ {r} : QueueSound(queue[x])'
      BY <1>2, <2>1, OthersKeep DEF SameRobot, QueueSound, CreditSound
    <3> QED
      BY <3>1, <3>2
  <2>4. \A x \in Robot : MaskSound(mine[x])'
    <3>1. MaskSound(mine[r])'
      BY <1>2, <2>1, <2>3, MineComesFrom, TargetAssumption
      DEF MineStep, MaskSound, CreditSound, QueueSound
    <3>2. \A x \in Robot \ {r} : MaskSound(mine[x])'
      BY <1>2, <2>1, OthersKeep DEF SameRobot, MaskSound, CreditSound
    <3> QED
      BY <3>1, <3>2
  <2>5. \A p, x \in Robot : \A i \in DOMAIN chan'[p][x] : MaskSound(chan[p][x][i])'
    <3> SUFFICES ASSUME NEW p \in Robot, NEW x \in Robot, NEW i \in DOMAIN chan'[p][x]
                 PROVE  MaskSound(chan[p][x][i])'
      OBVIOUS
    <3>1. CASE chan'[p][x][i] = mine'[p]
      BY <2>4, <3>1 DEF MaskSound
    <3>2. CASE \E j \in DOMAIN chan[p][x] : chan'[p][x][i] = chan[p][x][j]
      BY <2>1, <3>2 DEF MaskSound, CreditSound
    <3> QED
      BY <1>2, <3>1, <3>2, ChannelComesFrom
  <2>6. \A p, x \in Robot : MaskSound(claims[x][p].msg)'
    <3> SUFFICES ASSUME NEW p \in Robot, NEW x \in Robot
                 PROVE  MaskSound(claims[x][p].msg)'
      OBVIOUS
    <3>1. CASE claims'[x][p].msg = claims[x][p].msg
      BY <2>1, <3>1 DEF MaskSound, CreditSound
    <3>2. CASE claims'[x][p].msg.target = NoTarget
      BY <3>2, TargetAssumption DEF MaskSound
    <3>3. CASE chan[p][x] # << >> /\ claims'[x][p].msg = Head(chan[p][x])
      <4>1. 1 \in DOMAIN chan[p][x] /\ Head(chan[p][x]) = chan[p][x][1]
        BY <3>3 DEF TypeOK, ChannelTypeOK
      <4> QED
        BY <2>1, <3>3, <4>1 DEF MaskSound, CreditSound
    <3> QED
      BY <1>2, <3>1, <3>2, <3>3, ClaimsComeFrom
  <2> QED
    BY <2>3, <2>4, <2>5, <2>6 DEF CreditSound, QueueSound
<1> QED
  BY <1>1, <1>2 DEF Next, World

(***************************************************************************)
(* Credit is never made up: whatever is lost, repeated, delayed or merged, *)
(* and whoever restarts, each angle credited for a target in a queue, a    *)
(* claim, a message or a claim table was seen clearly by some robot.       *)
(***************************************************************************)
THEOREM CreditAlwaysSound == Spec => []CreditSound
<1>1. Init => CreditSound
  <2> SUFFICES ASSUME Init PROVE CreditSound
    OBVIOUS
  <2>1. \A r \in Robot, t \in Target : queue[r].rec[t].mask = {}
    BY DEF Init, EmptyQueue, FreshEntry
  <2>2. \A r \in Robot : mine[r].mask = {}
    BY DEF Init, PlainIntent, BuildIntent
  <2>3. \A r, p \in Robot : claims[r][p].msg.mask = {} /\ chan[r][p] = << >>
    BY DEF Init, NoClaims, NoClaim, PlainIntent, BuildIntent
  <2> QED
    BY <2>1, <2>2, <2>3 DEF CreditSound, MaskSound
<1>2. CreditSound /\ TypeOK /\ TypeOK' /\ GoalIsActive /\ ClaimIsTrue /\ [Next]_vars
        => CreditSound'
  BY StepSound
<1> QED
  BY <1>1, <1>2, TypeCorrect, GoalAlwaysActive, ClaimAlwaysTrue, PTL DEF Spec

----------------------------------------------------------------------------
\* The counter tested against the quota, in terms of the credited angles.
LEMMA QuotaCounts ==
  ASSUME TypeOK, CreditCounted, NEW r \in Robot, NEW t \in Target
  PROVE  QuotaMet(r, t) <=> Cardinality(Planned(r, t).rec[t].mask) >= MinVantages
BY PlannedCounted DEF CreditCounted, QueueCounted, EntryCounted, QuotaMet

LEMMA StepHonest ==
  ASSUME TypeOK, TypeOK', GoalIsActive, CreditCounted, CreditSound, CompleteHonest,
         [Next]_vars
  PROVE  CompleteHonest'
<1>1. CASE UNCHANGED vars
  BY <1>1 DEF vars, planVars, CompleteHonest
<1>2. ASSUME NEW r \in Robot, Tick(r) \/ ClosePartial(r) \/ World(r)
      PROVE  CompleteHonest'
  <2> SUFFICES ASSUME NEW x \in Robot, NEW t \in Target, outcome'[x][t] = "complete"
               PROVE  Cardinality(captured'[t]) >= MinVantages
    BY DEF CompleteHonest
  <2>1. captured[t] \subseteq captured'[t] /\ captured[t] \subseteq Angle
    BY <1>2, CapturedGrows DEF TypeOK
  <2>2. /\ Cardinality(captured[t]) =< Cardinality(captured'[t])
        /\ Cardinality(captured[t]) \in Nat /\ Cardinality(captured'[t]) \in Nat
        /\ IsFiniteSet(captured[t])
    <3>1. captured'[t] \subseteq Angle
      BY DEF TypeOK
    <3> QED
      BY <2>1, <3>1, AngleAssumption, FS_Subset, FS_CardinalityType
  <2>3. CASE outcome[x][t] = "complete"
    BY <2>2, <2>3, QuotaAssumption DEF CompleteHonest
  <2>4. CASE outcome[x][t] # "complete"
    <3>1. Restart(r) => outcome'[x][t] \in {outcome[x][t], "open"}
      BY DEF Restart, TypeOK, PlannerTypeOK
    <3>2. \E u \in Target, v \in {"complete", "partial"} : CloseStep(r, u, v)
      BY <1>2, <2>4, <3>1, StepKinds
    <3> PICK u \in Target, v \in {"complete", "partial"} : CloseStep(r, u, v)
      BY <3>2
    <3>6. u = t /\ QuotaMet(r, t)
      BY <2>4 DEF CloseStep, TypeOK, PlannerTypeOK
    <3>3. Planned(r, t).rec[t].mask \subseteq captured[t]
      BY PlannedSound DEF QueueSound
    <3>4. /\ Cardinality(Planned(r, t).rec[t].mask) =< Cardinality(captured[t])
          /\ Cardinality(Planned(r, t).rec[t].mask) \in Nat
      BY <2>2, <3>3, FS_Subset, FS_CardinalityType
    <3>5. Cardinality(Planned(r, t).rec[t].mask) >= MinVantages
      BY <3>6, QuotaCounts
    <3> QED
      BY <2>2, <3>4, <3>5, QuotaAssumption
  <2> QED
    BY <2>3, <2>4
<1> QED
  BY <1>1, <1>2 DEF Next, World

(***************************************************************************)
(* A target logged COMPLETE has been seen from as many different angles as *)
(* the quota asks: the count is sound (CreditAlwaysSound) and counts each  *)
(* angle once (CreditAlwaysCounted), so neither loss nor repetition nor a  *)
(* restart of a teammate can complete a target early.                      *)
(***************************************************************************)
THEOREM CompleteAlwaysHonest == Spec => []CompleteHonest
<1>1. Init => CompleteHonest
  BY DEF Init, CompleteHonest
<1>2. CompleteHonest /\ CreditSound /\ CreditCounted /\ TypeOK /\ TypeOK' /\ GoalIsActive
        /\ [Next]_vars => CompleteHonest'
  BY StepHonest
<1> QED
  BY <1>1, <1>2, TypeCorrect, GoalAlwaysActive, CreditAlwaysCounted, CreditAlwaysSound,
     PTL DEF Spec

----------------------------------------------------------------------------
\* What ties the lifecycle of a queue entry to its outcome: only a DONE entry
\* has one, and an entry not queued yet has no credit.
Lifecycle ==
  \A r \in Robot, t \in Target :
    /\ queue[r].rec[t].status # "DONE" => outcome[r][t] = "open"
    /\ queue[r].rec[t].status = "ABSENT" => queue[r].rec[t].mask = {}

EntryLifecycle(e, o) ==
  (e.status # "DONE" => o = "open") /\ (e.status = "ABSENT" => e.mask = {})

LEMMA LifecycleDef ==
  Lifecycle <=> \A r \in Robot, t \in Target : EntryLifecycle(queue[r].rec[t], outcome[r][t])
BY DEF Lifecycle, EntryLifecycle

LEMMA PlannedEntry ==
  ASSUME TypeOK, NEW r \in Robot, NEW t \in Target, NEW u \in Target
  PROVE  /\ Planned(r, t).rec[u].status = IF u = t THEN "ACTIVE" ELSE queue[r].rec[u].status
         /\ u # t => Planned(r, t).rec[u].mask = queue[r].rec[u].mask
         /\ Planned(r, t).rec[t].mask
              = queue[r].rec[t].mask \cup PeerDwellUnion(Prune(claims[r]), t)
<1> DEFINE q1 == Activate(queue[r], t)
           S  == PeerDwellUnion(Prune(claims[r]), t)
<1>1. queue[r] \in Queue
  BY DEF TypeOK, PlannerTypeOK
<1>2. /\ q1 \in Queue /\ SameCredit(queue[r], q1)
      /\ q1.rec[u].status = IF u = t THEN "ACTIVE" ELSE queue[r].rec[u].status
      /\ q1.rec[t].status = "ACTIVE"
  <2>1. \A v \in Target : q1.rec[v].status = IF v = t THEN "ACTIVE" ELSE queue[r].rec[v].status
    BY <1>1 DEF Activate, Queue, Entry
  <2> QED
    BY <1>1, <2>1, ActivateType, ActivateCredit
<1>3. S \in SUBSET Angle
  BY PruneType, PeerDwellUnionType DEF TypeOK, ClaimTypeOK
<1> HIDE DEF q1, S
<1>4. Planned(r, t) = MergePeerDwells(q1, t, S)
  BY DEF Planned, q1, S
<1>5. SameStatus(q1, MergePeerDwells(q1, t, S))
  BY <1>2, <1>3, MergePeerDwellsStatus
<1>6. t \in Open(q1) /\ q1.rec[t] \in Entry
  BY <1>2 DEF Open, Queue
<1>7. MergePeerDwells(q1, t, S).rec[t].mask = q1.rec[t].mask \cup S
  BY <1>2, <1>3, <1>6, MergePeerDwellsEntry, CreditedMask
<1>8. u # t => MergePeerDwells(q1, t, S).rec[u].mask = q1.rec[u].mask
  BY <1>2, <1>3, MergePeerDwellsEntry
<1> QED
  BY <1>2, <1>4, <1>5, <1>7, <1>8 DEF SameStatus, SameCredit, S

LEMMA StepLifecycle ==
  ASSUME TypeOK, GoalIsActive, Lifecycle, [Next]_vars
  PROVE  Lifecycle'
<1>1. CASE UNCHANGED vars
  BY <1>1 DEF vars, planVars, Lifecycle
<1>2. ASSUME NEW r \in Robot, Tick(r) \/ ClosePartial(r) \/ World(r)
      PROVE  Lifecycle'
  <2> DEFINE OK(t) == EntryLifecycle(queue'[r].rec[t], outcome'[r][t])
  <2>0. /\ queue[r] \in Queue /\ OneActive(queue[r]) /\ ActiveTarget(queue[r]) \in Target \cup {NoTarget}
        /\ \A t \in Target : /\ queue[r].rec[t] \in Entry
                             /\ EntryLifecycle(queue[r].rec[t], outcome[r][t])
    BY LifecycleDef, ActiveTargetType DEF TypeOK, PlannerTypeOK, GoalIsActive, Queue
  <2>1. ASSUME NEW q \in Queue, SameStatus(queue[r], q), queue'[r] = q, outcome' = outcome,
               \A t \in Target : queue[r].rec[t].status = "ABSENT" => q.rec[t].mask = {}
        PROVE  \A t \in Target : OK(t)
    BY <2>0, <2>1 DEF SameStatus, EntryLifecycle
  <2>2. ASSUME queue'[r] = Deactivate(queue[r]), outcome' = outcome
        PROVE  \A t \in Target : OK(t)
    <3> TAKE t \in Target
    <3>1. /\ queue'[r].rec[t].mask = queue[r].rec[t].mask
          /\ \/ queue'[r].rec[t].status = queue[r].rec[t].status
             \/ queue[r].rec[t].status = "ACTIVE" /\ queue'[r].rec[t].status = "PENDING"
      BY <2>0, <2>2 DEF Deactivate, SetActiveStatus, ActiveTarget, Queue, Entry
    <3> QED
      BY <2>0, <2>2, <3>1 DEF EntryLifecycle
  <2>3. ASSUME NEW t \in Target, queue'[r] = Ingest(queue[r], t), outcome' = outcome
        PROVE  \A u \in Target : OK(u)
    <3> TAKE u \in Target
    <3>1. \/ queue'[r].rec[u] = queue[r].rec[u]
          \/ queue[r].rec[u].status = "ABSENT" /\ queue'[r].rec[u] = FreshEntry("PENDING")
      <4>1. CASE Duplicate(queue[r], t)
        BY <2>3, <4>1 DEF Ingest
      <4>2. CASE ~ Duplicate(queue[r], t)
        <5>1. queue[r].rec[t].status = "ABSENT"
          BY <4>2 DEF Duplicate, Known
        <5>2. queue'[r].rec = [queue[r].rec EXCEPT ![t] = FreshEntry("PENDING")]
          BY <2>0, <2>3, <4>2 DEF Ingest, Queue
        <5> QED
          BY <2>0, <5>1, <5>2 DEF Queue
      <4> QED
        BY <4>1, <4>2
    <3> QED
      BY <2>0, <2>3, <3>1 DEF EntryLifecycle, FreshEntry
  <2>4. ASSUME NEW t \in Target, Promotes(queue[r], t), outcome' = outcome,
               \A u \in Target : /\ queue'[r].rec[u].status =
                                    IF u = t THEN "ACTIVE" ELSE queue[r].rec[u].status
                                 /\ u # t => queue'[r].rec[u].mask = queue[r].rec[u].mask
        PROVE  \A u \in Target : OK(u)
    <3>1. queue[r].rec[t].status \in {"PENDING", "ACTIVE"}
      BY <2>4, TargetAssumption DEF Promotes, FirstPending, ActiveTarget
    <3> TAKE u \in Target
    <3>2. /\ queue'[r].rec[u].status = IF u = t THEN "ACTIVE" ELSE queue[r].rec[u].status
          /\ u # t => queue'[r].rec[u].mask = queue[r].rec[u].mask
          /\ outcome'[r][u] = outcome[r][u]
      BY <2>4
    <3>3. EntryLifecycle(queue[r].rec[u], outcome[r][u])
      BY <2>0
    <3>4. CASE u = t
      BY <3>1, <3>2, <3>3, <3>4 DEF EntryLifecycle
    <3>5. CASE u # t
      BY <3>2, <3>3, <3>5 DEF EntryLifecycle
    <3> QED
      BY <3>4, <3>5
  <2>5. ASSUME NEW t \in Target, NEW v, CloseStep(r, t, v)
        PROVE  \A u \in Target : OK(u)
    <3>1. Planned(r, t) \in Queue /\ ActiveTarget(Planned(r, t)) = t /\ t # NoTarget
      BY <2>5, PlannedType, PlannedActive, TargetAssumption DEF CloseStep, TypeOK
    <3>2. \A u \in Target :
            /\ queue'[r].rec[u].status = IF u = t THEN "DONE" ELSE Planned(r, t).rec[u].status
            /\ queue'[r].rec[u].mask = Planned(r, t).rec[u].mask
      BY <2>5, <3>1 DEF CloseStep, MarkActiveDone, SetActiveStatus, Queue, Entry
    <3>3. \A u \in Target \ {t} : outcome'[r][u] = outcome[r][u]
      BY <2>5 DEF CloseStep, TypeOK, PlannerTypeOK
    <3> QED
      BY <2>0, <3>2, <3>3, PlannedEntry DEF EntryLifecycle
  <2>6. ASSUME QueueStep(r), outcome' = outcome
        PROVE  \A t \in Target : OK(t)
    <3>1. ASSUME NEW t \in Target, Promotes(queue[r], t), queue'[r] = Activate(queue[r], t)
          PROVE  \A u \in Target : OK(u)
      <4>1. \A u \in Target : /\ queue'[r].rec[u].status =
                                   IF u = t THEN "ACTIVE" ELSE queue[r].rec[u].status
                              /\ u # t => queue'[r].rec[u].mask = queue[r].rec[u].mask
        BY <2>0, <3>1 DEF Activate, Queue, Entry
      <4> QED
        BY <2>4, <2>6, <3>1, <4>1
    <3>2. ASSUME NEW t \in Target, PlanTick(r, t), queue'[r] = Planned(r, t)
          PROVE  \A u \in Target : OK(u)
      BY <2>4, <2>6, <3>2, PlannedEntry DEF PlanTick
    <3>3. ASSUME NEW p \in Robot, chan[p][r] # << >>,
                 queue'[r] = MergePeerDwells(queue[r], Head(chan[p][r]).target,
                                             Head(chan[p][r]).mask)
          PROVE  \A u \in Target : OK(u)
      <4> DEFINE m == Head(chan[p][r])
      <4>1. m \in Intent /\ m.mask \in SUBSET Angle
        BY <3>3, HeadType DEF TypeOK, ChannelTypeOK, Intent
      <4>2. MergePeerDwells(queue[r], m.target, m.mask) \in Queue
        BY <2>0, <4>1, MergePeerDwellsType
      <4>3. SameStatus(queue[r], MergePeerDwells(queue[r], m.target, m.mask))
        BY <2>0, <4>1, MergePeerDwellsStatus
      <4>4. \A u \in Target : queue[r].rec[u].status = "ABSENT" =>
              MergePeerDwells(queue[r], m.target, m.mask).rec[u].mask = {}
        BY <2>0, <4>1, MergePeerDwellsEntry DEF Open, EntryLifecycle
      <4> QED
        BY <2>1, <2>6, <3>3, <4>2, <4>3, <4>4
    <3>4. CASE queue'[r] = queue[r]
      BY <2>0, <2>6, <3>4
    <3> QED
      BY <2>2, <2>3, <2>6, <3>1, <3>2, <3>3, <3>4 DEF QueueStep
  <2>7. ASSUME NEW clear \in BOOLEAN, DwellStep(r, clear), outcome' = outcome
        PROVE  \A t \in Target : OK(t)
    <3> DEFINE q == RecordVantageDwell(queue[r], goal[r][2], clear)
    <3>1. goal[r][2] \in Angle
      BY <2>7 DEF DwellStep, Spot
    <3>2. q \in Queue /\ SameStatus(queue[r], q)
      BY <2>0, <3>1, RecordVantageDwellType, RecordVantageDwellStatus
    <3>3. \A t \in Target : queue[r].rec[t].status = "ABSENT" => q.rec[t].mask = {}
      <4> TAKE t \in Target
      <4> HAVE queue[r].rec[t].status = "ABSENT"
      <4>1. t # ActiveTarget(queue[r])
        BY TargetAssumption DEF ActiveTarget
      <4>2. q.rec[t] = queue[r].rec[t]
        BY <2>0, <3>1, <4>1, RecordVantageDwellEntry
      <4> QED
        BY <2>0, <4>2 DEF EntryLifecycle
    <3> QED
      BY <2>1, <2>7, <3>2, <3>3 DEF DwellStep
  <2>8. ASSUME Restart(r), queue'[r] = EmptyQueue
        PROVE  \A t \in Target : OK(t)
    <3>1. \A t \in Target : outcome'[r][t] = "open"
      BY <2>8 DEF Restart, TypeOK, PlannerTypeOK
    <3> QED
      BY <2>8, <3>1 DEF EmptyQueue, FreshEntry, EntryLifecycle
  <2>9. \A t \in Target : OK(t)
    BY <1>2, <2>5, <2>6, <2>7, <2>8, StepKinds
  <2>10. \A x \in Robot \ {r}, t \in Target :
           EntryLifecycle(queue'[x].rec[t], outcome'[x][t])
    BY <1>2, OthersKeep, LifecycleDef DEF SameRobot
  <2> QED
    BY <2>9, <2>10 DEF Lifecycle, EntryLifecycle
<1> QED
  BY <1>1, <1>2 DEF Next, World

LEMMA InitLifecycle == Init => Lifecycle
BY DEF Init, Lifecycle, EmptyQueue, FreshEntry

----------------------------------------------------------------------------
\* How the team's credit, as TeamCapture sees it, changes with one queue.
LEMMA CreditSame ==
  ASSUME \A x \in Robot, u \in Target : queue'[x].rec[u].mask = queue[x].rec[u].mask
  PROVE  TeamCredit' = TeamCredit
BY DEF TeamCredit

CreditGrows(r, t, S) ==
  /\ \A x \in Robot \ {r} : queue'[x] = queue[x]
  /\ \A u \in Target \ {t} : queue'[r].rec[u].mask = queue[r].rec[u].mask
  /\ queue'[r].rec[t].mask = queue[r].rec[t].mask \cup S

LEMMA CreditUpdate ==
  ASSUME NEW r \in Robot, NEW t \in Target, NEW S, CreditGrows(r, t, S)
  PROVE  TeamCredit' = [TeamCredit EXCEPT ![r][t] = @ \cup S]
<1> DEFINE old(x) == [u \in Target |-> queue[x].rec[u].mask]
           new(x) == [u \in Target |-> queue'[x].rec[u].mask]
<1>1. TeamCredit = [x \in Robot |-> old(x)] /\ TeamCredit' = [x \in Robot |-> new(x)]
  BY DEF TeamCredit
<1>2. \A x \in Robot \ {r} : new(x) = old(x)
  BY DEF CreditGrows
<1>3. new(r) = [old(r) EXCEPT ![t] = @ \cup S]
  BY DEF CreditGrows
<1> HIDE DEF old, new
<1>4. TeamCredit' = [TeamCredit EXCEPT ![r] = [old(r) EXCEPT ![t] = @ \cup S]]
  BY <1>1, <1>2, <1>3
<1> QED
  BY <1>1, <1>4

\* What a tick of EXPLOIT_PLAN learns, and that its target is still open.
LEMMA PlannedLearns ==
  ASSUME TypeOK, CreditSound, Lifecycle, NEW r \in Robot, NEW t \in Target,
         PlanTick(r, t)
  PROVE  /\ outcome[r][t] = "open"
         /\ PeerDwellUnion(Prune(claims[r]), t) \in SUBSET captured[t]
<1>1. queue[r].rec[t].status # "DONE"
  BY TargetAssumption DEF PlanTick, Promotes, FirstPending, ActiveTarget
<1>2. Planned(r, t).rec[t].mask \subseteq captured[t]
  BY PlannedSound DEF QueueSound
<1> QED
  BY <1>1, <1>2, PlannedEntry DEF Lifecycle

LEMMA RefineQueueStep ==
  ASSUME TypeOK, GoalIsActive, CreditSound, Lifecycle, NEW r \in Robot, QueueStep(r),
         \A x \in Robot \ {r} : queue'[x] = queue[x], outcome' = outcome,
         captured' = captured
  PROVE  TeamCredit' = TeamCredit \/ \E t \in Target : Team!Learn(r, t)
<1>0. queue[r] \in Queue /\ \A u \in Target : queue[r].rec[u] \in Entry
  BY DEF TypeOK, PlannerTypeOK, Queue
<1>1. ASSUME NEW q, SameCredit(queue[r], q), queue'[r] = q
      PROVE  TeamCredit' = TeamCredit
  BY <1>1, CreditSame DEF SameCredit
<1>2. CASE queue'[r] = queue[r]
  BY <1>2, CreditSame
<1>3. CASE queue'[r] = Deactivate(queue[r])
  BY <1>0, <1>1, <1>3, SetActiveStatusCredit DEF Deactivate, Status
<1>4. ASSUME NEW t \in Target, queue'[r] = Activate(queue[r], t)
      PROVE  TeamCredit' = TeamCredit
  BY <1>0, <1>1, <1>4, ActivateCredit
<1>5. ASSUME NEW t \in Target, queue'[r] = Ingest(queue[r], t)
      PROVE  TeamCredit' = TeamCredit
  <2>1. CASE Duplicate(queue[r], t)
    BY <1>5, <2>1, CreditSame DEF Ingest
  <2>2. CASE ~ Duplicate(queue[r], t)
    <3>1. queue[r].rec[t].mask = {}
      BY <2>2 DEF Duplicate, Known, Lifecycle
    <3>2. queue'[r].rec = [queue[r].rec EXCEPT ![t] = FreshEntry("PENDING")]
      BY <1>0, <1>5, <2>2 DEF Ingest, Queue
    <3>3. FreshEntry("PENDING").mask = {}
      BY DEF FreshEntry
    <3>4. \A u \in Target : queue'[r].rec[u] =
            IF u = t THEN FreshEntry("PENDING") ELSE queue[r].rec[u]
      BY <1>0, <3>2 DEF Queue
    <3>5. \A u \in Target : queue'[r].rec[u].mask = queue[r].rec[u].mask
      BY <3>1, <3>3, <3>4
    <3> QED
      BY <3>5, CreditSame
  <2> QED
    BY <2>1, <2>2
<1>6. ASSUME NEW t \in Target, PlanTick(r, t), queue'[r] = Planned(r, t)
      PROVE  Team!Learn(r, t)
  <2> DEFINE S == PeerDwellUnion(Prune(claims[r]), t)
  <2>1. outcome[r][t] = "open" /\ S \in SUBSET captured[t]
    BY <1>6, PlannedLearns
  <2>2. /\ queue'[r].rec[t].mask = queue[r].rec[t].mask \cup S
        /\ \A u \in Target \ {t} : queue'[r].rec[u].mask = queue[r].rec[u].mask
    BY <1>6, PlannedEntry
  <2> HIDE DEF S
  <2>3. TeamCredit' = [TeamCredit EXCEPT ![r][t] = @ \cup S]
    BY <2>2, CreditUpdate DEF CreditGrows
  <2> QED
    BY <2>1, <2>3 DEF Team!Learn
<1>7. ASSUME NEW p \in Robot, chan[p][r] # << >>,
             queue'[r] = MergePeerDwells(queue[r], Head(chan[p][r]).target,
                                         Head(chan[p][r]).mask)
      PROVE  TeamCredit' = TeamCredit \/ \E t \in Target : Team!Learn(r, t)
  <2> DEFINE m == Head(chan[p][r])
  <2>1. m \in Intent /\ m.mask \in SUBSET Angle
    BY <1>7, HeadType DEF TypeOK, ChannelTypeOK, Intent
  <2>2. MaskSound(m)
    <3>1. 1 \in DOMAIN chan[p][r] /\ m = chan[p][r][1]
      BY <1>7 DEF TypeOK, ChannelTypeOK
    <3> QED
      BY <3>1 DEF CreditSound
  <2>3. CASE m.target \notin Open(queue[r])
    BY <1>2, <1>7, <2>3 DEF MergePeerDwells
  <2>4. CASE m.target \in Open(queue[r])
    <3> DEFINE t == m.target
    <3>1. t \in Target /\ outcome[r][t] = "open" /\ m.mask \in SUBSET captured[t]
      BY <2>2, <2>4 DEF Open, Lifecycle, MaskSound
    <3>2. queue'[r].rec[t].mask = queue[r].rec[t].mask \cup m.mask
      <4>1. queue'[r].rec[t] = Credited(queue[r].rec[t], m.mask)
        BY <1>0, <1>7, <2>1, <2>4, <3>1, MergePeerDwellsEntry
      <4>2. queue[r].rec[t] \in Entry
        BY <1>0, <3>1
      <4> HIDE DEF t, m
      <4>3. Credited(queue[r].rec[t], m.mask).mask = queue[r].rec[t].mask \cup m.mask
        BY <2>1, <4>2, CreditedMask
      <4> QED
        BY <4>1, <4>3
    <3>3. \A u \in Target \ {t} : queue'[r].rec[u].mask = queue[r].rec[u].mask
      BY <1>0, <1>7, <2>1, MergePeerDwellsEntry
    <3>4. CreditGrows(r, t, m.mask)
      BY <3>2, <3>3 DEF CreditGrows
    <3> HIDE DEF t, m
    <3>5. TeamCredit' = [TeamCredit EXCEPT ![r][t] = @ \cup m.mask]
      BY <3>1, <3>4, CreditUpdate
    <3> QED
      BY <3>1, <3>5 DEF Team!Learn
  <2> QED
    BY <2>3, <2>4
<1> QED
  BY <1>2, <1>3, <1>4, <1>5, <1>6, <1>7 DEF QueueStep

LEMMA RefineDwellStep ==
  ASSUME TypeOK, GoalIsActive, Lifecycle, NEW r \in Robot, NEW clear \in BOOLEAN,
         DwellStep(r, clear), \A x \in Robot \ {r} : queue'[x] = queue[x],
         outcome' = outcome
  PROVE  \/ TeamCredit' = TeamCredit /\ captured' = captured
         \/ \E t \in Target, k \in Angle : Team!Capture(r, t, k)
<1> DEFINE t == goal[r][1]
           k == goal[r][2]
<1>1. t \in Target /\ k \in Angle /\ t = ActiveTarget(queue[r])
  BY DEF DwellStep, Spot
<1>2. queue[r] \in Queue /\ \A u \in Target : queue[r].rec[u] \in Entry
  BY DEF TypeOK, PlannerTypeOK, Queue
<1>3. outcome[r][t] = "open"
  BY <1>1, TargetAssumption DEF Lifecycle, ActiveTarget
<1>4. \A u \in Target : queue'[r].rec[u] =
        IF u = t THEN Dwelled(queue[r].rec[u], k, clear) ELSE queue[r].rec[u]
  BY <1>1, <1>2, RecordVantageDwellEntry DEF DwellStep
<1>5. queue'[r].rec[t].mask =
        IF clear THEN queue[r].rec[t].mask \cup {k} ELSE queue[r].rec[t].mask
  <2> HIDE DEF t, k
  <2>1. queue'[r].rec[t] = Dwelled(queue[r].rec[t], k, clear)
    BY <1>1, <1>4
  <2>2. queue[r].rec[t] \in Entry
    BY <1>1, <1>2
  <2>3. Dwelled(queue[r].rec[t], k, clear).mask =
          IF clear THEN queue[r].rec[t].mask \cup {k} ELSE queue[r].rec[t].mask
    BY <1>1, <2>2, DwelledMask
  <2> QED
    BY <2>1, <2>3
<1>6. \A u \in Target \ {t} : queue'[r].rec[u].mask = queue[r].rec[u].mask
  BY <1>4
<1>7. captured' = [captured EXCEPT ![t] = IF clear THEN @ \cup {k} ELSE @]
  BY DEF DwellStep
<1> HIDE DEF t, k
<1>8. CASE clear
  <2>0. CreditGrows(r, t, {k})
    BY <1>5, <1>6, <1>8 DEF CreditGrows
  <2>1. TeamCredit' = [TeamCredit EXCEPT ![r][t] = @ \cup {k}]
    BY <1>1, <2>0, CreditUpdate
  <2>2. captured' = [captured EXCEPT ![t] = @ \cup {k}]
    BY <1>7, <1>8
  <2> QED
    BY <1>1, <1>3, <2>1, <2>2 DEF Team!Capture
<1>9. CASE ~ clear
  <2>1. captured' = captured
    BY <1>7, <1>9 DEF TypeOK
  <2>2. \A u \in Target : queue'[r].rec[u].mask = queue[r].rec[u].mask
    BY <1>5, <1>6, <1>9
  <2>3. TeamCredit' = TeamCredit
    BY <2>2, CreditSame
  <2> QED
    BY <2>1, <2>3
<1> QED
  BY <1>8, <1>9

LEMMA RefineCloseStep ==
  ASSUME TypeOK, GoalIsActive, CreditCounted, CreditSound, Lifecycle, NEW r \in Robot,
         NEW t \in Target, NEW v, CloseStep(r, t, v),
         \A x \in Robot \ {r} : queue'[x] = queue[x], captured' = captured
  PROVE  Team!Close(r, t)
<1> DEFINE S == PeerDwellUnion(Prune(claims[r]), t)
<1>1. outcome[r][t] = "open" /\ S \in SUBSET captured[t]
  BY PlannedLearns DEF CloseStep
<1>2. \A u \in Target : queue'[r].rec[u].mask = Planned(r, t).rec[u].mask
  BY PlannedType, SetActiveStatusCredit
  DEF CloseStep, MarkActiveDone, Status, SameCredit, TypeOK
<1>3. /\ queue'[r].rec[t].mask = queue[r].rec[t].mask \cup S
      /\ \A u \in Target \ {t} : queue'[r].rec[u].mask = queue[r].rec[u].mask
  BY <1>2, PlannedEntry
<1> HIDE DEF S
<1>4. TeamCredit' = [TeamCredit EXCEPT ![r][t] = @ \cup S]
  <2>1. CreditGrows(r, t, S)
    BY <1>3 DEF CreditGrows
  <2> QED
    BY <2>1, CreditUpdate
<1>5. Team!Learn(r, t)
  BY <1>1, <1>4 DEF Team!Learn
<1>6. TeamCredit'[r][t] = Planned(r, t).rec[t].mask
  BY <1>2 DEF TeamCredit
<1>7. v = IF TeamCredit'[r][t] \in Enough THEN "complete" ELSE "partial"
  <2>1. Planned(r, t).rec[t].mask \in SUBSET Angle
    BY PlannedMaskType
  <2> QED
    BY <1>6, <2>1, QuotaCounts DEF CloseStep, Enough
<1> QED
  BY <1>5, <1>7 DEF Team!Close, CloseStep

LEMMA RefineRestart ==
  ASSUME TypeOK, NEW r \in Robot, Restart(r), queue'[r] = EmptyQueue,
         \A x \in Robot \ {r} : queue'[x] = queue[x], captured' = captured
  PROVE  Team!Forget(r)
<1>1. outcome' = [outcome EXCEPT ![r] = [t \in Target |-> "open"]]
  BY DEF Restart
<1>2. \A t \in Target : queue'[r].rec[t].mask = {}
  BY DEF EmptyQueue, FreshEntry
<1>3. TeamCredit' = [TeamCredit EXCEPT ![r] = [t \in Target |-> {}]]
  BY <1>2 DEF TeamCredit
<1> QED
  BY <1>1, <1>3 DEF Team!Forget

LEMMA StepRefines ==
  ASSUME TypeOK, GoalIsActive, CreditCounted, CreditSound, Lifecycle, [Next]_vars
  PROVE  [Team!Next]_(Team!vars)
<1>1. CASE UNCHANGED vars
  BY <1>1 DEF vars, planVars, Team!vars, TeamCredit
<1>2. ASSUME NEW r \in Robot, Tick(r) \/ ClosePartial(r) \/ World(r)
      PROVE  [Team!Next]_(Team!vars)
  <2>1. \A x \in Robot \ {r} : queue'[x] = queue[x]
    BY <1>2, OthersKeep DEF SameRobot
  <2>2. CASE QueueStep(r) /\ outcome' = outcome /\ captured' = captured
    BY <2>1, <2>2, RefineQueueStep DEF Team!Next, Team!vars
  <2>3. CASE \E clear \in BOOLEAN : DwellStep(r, clear) /\ outcome' = outcome
    BY <2>1, <2>3, RefineDwellStep DEF Team!Next, Team!vars
  <2>4. CASE \E t \in Target, v \in {"complete", "partial"} :
               CloseStep(r, t, v) /\ captured' = captured
    BY <2>1, <2>4, RefineCloseStep DEF Team!Next
  <2>5. CASE Restart(r) /\ queue'[r] = EmptyQueue /\ captured' = captured
    BY <2>1, <2>5, RefineRestart DEF Team!Next
  <2> QED
    BY <1>2, <2>2, <2>3, <2>4, <2>5, StepKinds
<1> QED
  BY <1>1, <1>2 DEF Next, World

(***************************************************************************)
(* The planners, with their claims, merges, hand-overs and closings,       *)
(* implement TeamCapture for every team, ring and queue: credit comes from *)
(* a view or from a teammate's true report, a target is closed once, with  *)
(* the verdict its credit earns, and only a restart forgets.               *)
(***************************************************************************)
THEOREM PlannersImplementTeamCapture == Spec => ImplementsTeamCapture
<1>1. Init => Team!Init
  BY DEF Init, Team!Init, TeamCredit, EmptyQueue, FreshEntry
<1>2. Init => Lifecycle
  BY InitLifecycle
<1>3. TypeOK /\ GoalIsActive /\ Lifecycle /\ [Next]_vars => Lifecycle'
  BY StepLifecycle
<1>4. TypeOK /\ GoalIsActive /\ CreditCounted /\ CreditSound /\ Lifecycle /\ [Next]_vars
        => [Team!Next]_(Team!vars)
  BY StepRefines
<1> QED
  BY <1>1, <1>2, <1>3, <1>4, TypeCorrect, GoalAlwaysActive, CreditAlwaysCounted,
     CreditAlwaysSound, PTL
  DEF Spec, ImplementsTeamCapture, Team!Spec

----------------------------------------------------------------------------
(***************************************************************************)
(* What follows from TeamCapture alone holds of the planners.              *)
(***************************************************************************)

\* r has lost its memory, all of it.
Forgotten(r) == \A t \in Target : outcome'[r][t] = "open" /\ TeamCredit'[r][t] = {}

\* Once a robot has closed a target, no claim, late credit or republished target
\* changes its verdict or its credit; only a restart does, which forgets them all.
VerdictFinal ==
  [][\A r \in Robot, t \in Target :
       outcome[r][t] # "open" =>
         \/ outcome'[r][t] = outcome[r][t] /\ TeamCredit'[r][t] = TeamCredit[r][t]
         \/ Forgotten(r)]_vars

\* The robot that logged COMPLETE has the credit for it, angle by angle, in the
\* very entry it closed.
VerdictEarned ==
  \A r \in Robot, t \in Target : outcome[r][t] = "complete" => TeamCredit[r][t] \in Enough

LEMMA TeamType ==
  ASSUME TypeOK
  PROVE  Team!TypeOK
<1>1. \A r \in Robot, t \in Target : queue[r].rec[t].mask \in SUBSET Angle
  BY DEF TypeOK, PlannerTypeOK, Queue, Entry
<1> QED
  BY <1>1 DEF TypeOK, PlannerTypeOK, Team!TypeOK, TeamCredit

LEMMA TeamStepFinal ==
  ASSUME Team!TypeOK, [Team!Next]_(Team!vars), NEW x \in Robot, NEW u \in Target,
         outcome[x][u] # "open"
  PROVE  \/ outcome'[x][u] = outcome[x][u] /\ TeamCredit'[x][u] = TeamCredit[x][u]
         \/ Forgotten(x)
<1> DEFINE credit == TeamCredit
<1> USE DEF Team!TypeOK
<1>1. CASE UNCHANGED Team!vars
  BY <1>1 DEF Team!vars
<1>2. ASSUME NEW r \in Robot, Team!Forget(r)
      PROVE  \/ outcome'[x][u] = outcome[x][u] /\ credit'[x][u] = credit[x][u]
             \/ Forgotten(x)
  <2>1. /\ credit' = [credit EXCEPT ![r] = [t \in Target |-> {}]]
        /\ outcome' = [outcome EXCEPT ![r] = [t \in Target |-> "open"]]
    BY <1>2 DEF Team!Forget
  <2> HIDE DEF credit
  <2>2. credit \in [Robot -> [Target -> SUBSET Angle]]
    BY DEF credit
  <2>3. CASE x = r
    <3>1. \A t \in Target : outcome'[x][t] = "open" /\ credit'[x][t] = {}
      BY <2>1, <2>2, <2>3
    <3> QED BY <3>1 DEF Forgotten, credit
  <2>4. CASE x # r
    BY <2>1, <2>2, <2>4
  <2> QED
    BY <2>3, <2>4
<1>3. ASSUME NEW r \in Robot, NEW t \in Target, NEW k \in Angle, Team!Capture(r, t, k)
      PROVE  outcome'[x][u] = outcome[x][u] /\ credit'[x][u] = credit[x][u]
  <2>1. /\ outcome[r][t] = "open" /\ outcome' = outcome
        /\ credit' = [credit EXCEPT ![r][t] = @ \cup {k}]
    BY <1>3 DEF Team!Capture
  <2> HIDE DEF credit
  <2>2. credit \in [Robot -> [Target -> SUBSET Angle]] /\ ~ (x = r /\ u = t)
    BY <2>1 DEF credit
  <2> QED
    BY <2>1, <2>2
<1>4. ASSUME NEW r \in Robot, NEW t \in Target, Team!Learn(r, t)
      PROVE  credit'[x][u] = credit[x][u]
  <2>1. outcome[r][t] = "open" /\ \E S : credit' = [credit EXCEPT ![r][t] = @ \cup S]
    BY <1>4 DEF Team!Learn
  <2> HIDE DEF credit
  <2>2. credit \in [Robot -> [Target -> SUBSET Angle]] /\ ~ (x = r /\ u = t)
    BY <2>1 DEF credit
  <2> QED
    BY <2>1, <2>2
<1>5. ASSUME NEW r \in Robot, NEW t \in Target,
             (Team!Learn(r, t) /\ UNCHANGED outcome) \/ Team!Close(r, t)
      PROVE  outcome'[x][u] = outcome[x][u]
  BY <1>5 DEF Team!Learn, Team!Close
<1>6. \A r \in Robot, t \in Target : Team!Close(r, t) => Team!Learn(r, t)
  BY DEF Team!Close
<1> QED
  BY <1>1, <1>2, <1>3, <1>4, <1>5, <1>6 DEF Team!Next

LEMMA TeamStepEarned ==
  ASSUME Team!TypeOK, [Team!Next]_(Team!vars), VerdictEarned
  PROVE  VerdictEarned'
<1> SUFFICES ASSUME NEW x \in Robot, NEW u \in Target, outcome'[x][u] = "complete"
             PROVE  TeamCredit'[x][u] \in Enough
  BY DEF VerdictEarned
<1>1. CASE outcome[x][u] # "open"
  BY <1>1, TeamStepFinal DEF VerdictEarned, Forgotten
<1>2. CASE outcome[x][u] = "open"
  <2>1. PICK r \in Robot, t \in Target : Team!Close(r, t)
    BY <1>2 DEF Team!Next, Team!vars, Team!Forget, Team!Capture, Team!Learn, Team!Close,
                Team!TypeOK
  <2>2. outcome' = [outcome EXCEPT ![r][t] =
                      IF TeamCredit'[r][t] \in Enough THEN "complete" ELSE "partial"]
    BY <2>1 DEF Team!Close
  <2> QED
    BY <1>2, <2>2 DEF Team!TypeOK
<1> QED
  BY <1>1, <1>2

\* A verdict is earned when it is logged and final from then on.
THEOREM VerdictsStand == Spec => []VerdictEarned /\ VerdictFinal
<1>1. Init => VerdictEarned
  BY DEF Init, VerdictEarned
<1>2. TypeOK /\ [Team!Next]_(Team!vars) /\ VerdictEarned => VerdictEarned'
  BY TeamType, TeamStepEarned
<1>3. TypeOK /\ [Team!Next]_(Team!vars)
        => [\A r \in Robot, t \in Target :
              outcome[r][t] # "open" =>
                \/ outcome'[r][t] = outcome[r][t] /\ TeamCredit'[r][t] = TeamCredit[r][t]
                \/ Forgotten(r)]_vars
  BY TeamType, TeamStepFinal
<1>4. Spec => [][Team!Next]_(Team!vars)
  BY PlannersImplementTeamCapture, PTL DEF ImplementsTeamCapture, Team!Spec
<1>5. Spec => []VerdictEarned
  BY <1>1, <1>2, <1>4, TypeCorrect, PTL DEF Spec
<1>6. Spec => VerdictFinal
  BY <1>3, <1>4, TypeCorrect, PTL DEF VerdictFinal
<1> QED
  BY <1>5, <1>6, PTL

=============================================================================
