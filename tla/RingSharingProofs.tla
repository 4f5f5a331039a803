-------------------------- MODULE RingSharingProofs -------------------------
(***************************************************************************)
(* How robots share one ring without a leader: of the rivals for an angle  *)
(* the nearest keeps it, and robots parked on a ring split what is left.   *)
(* Both rest on MinPos being a strict order on the robots, whatever the    *)
(* geometry, the first on the order of the claim table as well.            *)
(***************************************************************************)
EXTENDS VantageRingProofs, WellFoundedInduction

----------------------------------------------------------------------------
\* A strict order on a finite set has a first element.
LEMMA FirstElement ==
  ASSUME NEW S, IsFiniteSet(S), S # {}, NEW Less,
         \A x \in S : << x, x >> \notin Less,
         \A x, y, z \in S : << x, y >> \in Less /\ << y, z >> \in Less => << x, z >> \in Less
  PROVE  \E x \in S : \A y \in S : << y, x >> \notin Less
<1> DEFINE down == [x \in S |-> {y \in S : << y, x >> \in Less}]
           T == {down[x] : x \in S}
<1>1. \A x, y \in S : y \in down[x] <=> << y, x >> \in Less
  OBVIOUS
<1>2. \A x \in S : down[x] \in SUBSET S
  OBVIOUS
<1> HIDE DEF down
<1>3. T \subseteq FiniteSubsetsOf(S) /\ T # {}
  BY <1>2, FS_FiniteSubsetsOfFinite
<1>4. PICK D \in T : \A E \in T : << E, D >> \notin StrictSubsetOrdering(S)
  <2> HIDE DEF T
  <2> QED BY <1>3, WFMin, FS_StrictSubsetOrderingWellFounded
<1>5. PICK x \in S : D = down[x]
  OBVIOUS
<1>6. ASSUME NEW y \in S, << y, x >> \in Less
      PROVE  FALSE
  <2>1. down[y] \subseteq down[x] /\ y \in down[x] /\ y \notin down[y]
    BY <1>1, <1>2, <1>6
  <2>2. << down[y], down[x] >> \in StrictSubsetOrdering(S)
    BY <1>2, <2>1 DEF StrictSubsetOrdering
  <2> QED BY <1>4, <1>5, <2>2
<1> QED BY <1>6

\* r stands ahead of p for spot s.
Ahead(s, r, p) == SelfWinsAgainst(r, loc[r], s, p, [pos |-> loc[p]])

LEMMA AheadIsOrder ==
  ASSUME TypeOK, NEW s \in Spot
  PROVE  /\ \A r \in Robot : ~ Ahead(s, r, r)
         /\ \A r, p \in Robot : r # p => (Ahead(s, r, p) <=> ~ Ahead(s, p, r))
         /\ \A r, p, q \in Robot : Ahead(s, r, p) /\ Ahead(s, p, q) => Ahead(s, r, q)
<1> DEFINE d(r) == Dist[loc[r]][s]
<1>1. \A r \in Robot : d(r) \in Nat /\ r \in Nat
  BY GeometryAssumption, RobotAssumption DEF TypeOK, BodyTypeOK
<1>2. \A r, p \in Robot : Ahead(s, r, p) <=> d(r) < d(p) \/ (d(r) = d(p) /\ r < p)
  BY DEF Ahead, SelfWinsAgainst
<1> HIDE DEF d
<1>3. \A r \in Robot : ~ Ahead(s, r, r)
  BY <1>1, <1>2
<1>4. \A r, p \in Robot : r # p => (Ahead(s, r, p) <=> ~ Ahead(s, p, r))
  BY <1>1, <1>2
<1>5. \A r, p, q \in Robot : Ahead(s, r, p) /\ Ahead(s, p, q) => Ahead(s, r, q)
  BY <1>1, <1>2
<1> QED BY <1>3, <1>4, <1>5

\* Some member of a team of rivals stands ahead of all the others.
LEMMA OneIsFirst ==
  ASSUME TypeOK, NEW s \in Spot, NEW R \in SUBSET Robot, R # {}
  PROVE  \E r \in R : \A p \in R \ {r} : Ahead(s, r, p)
<1> DEFINE Less == {x \in R \X R : Ahead(s, x[1], x[2])}
<1>1. IsFiniteSet(R)
  BY RobotAssumption, FS_Subset
<1>2. /\ \A x \in R : << x, x >> \notin Less
      /\ \A x, y, z \in R :
           << x, y >> \in Less /\ << y, z >> \in Less => << x, z >> \in Less
  BY AheadIsOrder
<1>3. \A x, y \in R : << y, x >> \notin Less => ~ Ahead(s, y, x)
  OBVIOUS
<1> HIDE DEF Less
<1>4. PICK r \in R : \A p \in R : << p, r >> \notin Less
  BY <1>1, <1>2, FirstElement
<1>5. \A p \in R \ {r} : Ahead(s, r, p)
  BY <1>3, <1>4, AheadIsOrder
<1> QED BY <1>5

\* What an entry says that matches the claim its producer holds.
LEMMA KnownClaim ==
  ASSUME TypeOK, NEW r \in Robot, NEW p \in Robot, KnowsPose(r, p)
  PROVE  LET c == claims[r][p]
         IN  /\ c.age = "live" /\ have[p]
             /\ c.msg.exploit = mine[p].exploit /\ c.msg.target = mine[p].target
             /\ c.msg.goal = mine[p].goal /\ c.msg.staged = mine[p].staged
             /\ c.msg.pos = loc[p]
<1> DEFINE m == claims[r][p].msg
<1>1. m \in Intent /\ mine[p] \in Intent
  BY DEF TypeOK, ClaimTypeOK, Claim
<1>2. [m EXCEPT !.mask = {}] = [mine[p] EXCEPT !.mask = {}]
  BY DEF KnowsPose, Knows
<1> HIDE DEF m
<1>3. \A f \in {"exploit", "target", "goal", "staged", "pos"} : m[f] = mine[p][f]
  BY <1>1, <1>2 DEF Intent
<1> QED BY <1>3 DEF KnowsPose, Knows, m

----------------------------------------------------------------------------
\* A staged claim is an exploit claim.
StagedIsExploit == \A r \in Robot : mine[r].staged => mine[r].exploit

Honest(r) == mine'[r].staged => mine'[r].exploit

\* Every claim a robot puts up is built, patched or dropped by its own step.
LEMMA OwnStaged ==
  ASSUME TypeOK, ClaimIsTrue, StagedIsExploit, NEW r \in Robot,
         Tick(r) \/ ClosePartial(r) \/ World(r)
  PROVE  Honest(r)
<1> USE DEF TypeOK, PlannerTypeOK, ClaimTypeOK, Honest
<1>a. ASSUME NEW m, Announce(r, m)
      PROVE  mine'[r] = m
  BY <1>a DEF Announce
<1>b. Release(r) => ~ mine'[r].staged
  BY DEF Release, PlainIntent, BuildIntent
<1>c. \A g, p : ~ PlainIntent(g, p).staged
  BY DEF PlainIntent, BuildIntent
<1>d. UNCHANGED mine => Honest(r)
  BY DEF StagedIsExploit
<1>e. \A S : /\ [mine[r] EXCEPT !.mask = S].staged = mine[r].staged
             /\ [mine[r] EXCEPT !.mask = S].exploit = mine[r].exploit
             /\ [mine[r] EXCEPT !.pos = S].staged = mine[r].staged
             /\ [mine[r] EXCEPT !.pos = S].exploit = mine[r].exploit
  BY DEF Intent
<1>1. CASE Explore(r) \/ Finish(r)
  BY <1>1, <1>a, <1>b, <1>c, <1>d
  DEF Explore, StartExploreHop, EndExploreHop, Engage, FinishExploring, Finish, LogStep,
      SpendBudget, StartReturnToAnchor, FinishDone, TeamReconnects, RendezvousExpires,
      claimVars
<1>2. CASE CloseComplete(r) \/ ClosePartial(r)
  BY <1>2, <1>b DEF CloseComplete, ClosePartial, CloseTarget
<1>3. CASE Hold(r)
  <2> PICK t \in Target :
        LET mask == Planned(r, t).rec[t].mask
        IN  IF ~ have[r] \/ ~ mine[r].staged \/ mine[r].target # t
              THEN Announce(r, BuildIntent(held[r], loc[r], TRUE, t, mask, TRUE))
              ELSE mine' = [mine EXCEPT ![r].mask = mask]
    BY <1>3 DEF Hold
  <2>1. CASE ~ have[r] \/ ~ mine[r].staged \/ mine[r].target # t
    BY <1>a, <2>1 DEF BuildIntent
  <2>2. CASE ~ (~ have[r] \/ ~ mine[r].staged \/ mine[r].target # t)
    <3>1. mine'[r] = [mine[r] EXCEPT !.mask = Planned(r, t).rec[t].mask]
      BY <2>2
    <3> QED BY <1>e, <3>1 DEF StagedIsExploit
  <2> QED BY <2>1, <2>2
<1>4. ASSUME NEW t \in Target, NEW g, StartExploitNavigate(r, t, g)
      PROVE  Honest(r)
  BY <1>4, <1>a DEF StartExploitNavigate, BuildIntent
<1>5. CASE SelectVantage(r) \/ SelectApproach(r)
  BY <1>4, <1>5 DEF SelectVantage, SelectApproach
<1>6. CASE RetryPlan(r) \/ BarrierOpens(r) \/ BarrierTimesOut(r)
  BY <1>6, <1>d DEF RetryPlan, BarrierOpens, BarrierTimesOut, claimVars
<1>7. CASE GoalBlocked(r) \/ YieldVantage(r) \/ ArriveApproach(r) \/ FailGoal(r)
  BY <1>7, <1>b, <1>d
  DEF GoalBlocked, YieldVantage, ArriveApproach, FailGoal, claimVars
<1>8. CASE ArriveVantage(r)
  <2>1. have[r] /\ mine[r].exploit
    BY <1>8 DEF ArriveVantage, ClaimIsTrue, TrueClaim
  <2>2. mine'[r] = [mine[r] EXCEPT !.staged = TRUE]
    BY <1>8, <1>a, <2>1 DEF ArriveVantage
  <2> QED BY <2>1, <2>2 DEF Intent
<1>9. CASE CompleteDwell(r)
  <2> PICK S : IF have[r] THEN Announce(r, [mine[r] EXCEPT !.mask = S])
                          ELSE UNCHANGED << mine, have, chan >>
    BY <1>9 DEF CompleteDwell
  <2> QED BY <1>a, <1>d, <1>e DEF StagedIsExploit
<1>10. CASE Heartbeat(r)
  BY <1>10, <1>a, <1>e DEF Heartbeat, StagedIsExploit
<1>11. CASE Restart(r)
  BY <1>11, <1>c DEF Restart
<1>12. CASE World(r) /\ ~ Heartbeat(r) /\ ~ Restart(r)
  BY <1>12, <1>d DEF World, IngestTarget, Drive, Deliver, Lose, ClaimAges, claimVars
<1> QED
  BY <1>1, <1>2, <1>3, <1>5, <1>6, <1>7, <1>8, <1>9, <1>10, <1>11, <1>12
  DEF Tick, Plan, Navigate, Dwell

LEMMA StagedStep ==
  ASSUME TypeOK, ClaimIsTrue, StagedIsExploit, [Next]_vars
  PROVE  StagedIsExploit'
<1>1. CASE UNCHANGED vars
  BY <1>1 DEF vars, claimVars, StagedIsExploit
<1>2. ASSUME NEW r \in Robot, Tick(r) \/ ClosePartial(r) \/ World(r)
      PROVE  StagedIsExploit'
  <2>1. mine'[r].staged => mine'[r].exploit
    BY <1>2, OwnStaged DEF Honest
  <2>2. \A x \in Robot \ {r} : mine'[x] = mine[x]
    BY <1>2, OthersKeep DEF SameRobot
  <2> QED BY <2>1, <2>2 DEF StagedIsExploit
<1> QED BY <1>1, <1>2 DEF Next, World

----------------------------------------------------------------------------
(* The table is a list: the claims in it are ordered by when their peers were *)
(* first heard, whatever was replaced or pruned since.                        *)

\* before is a strict total order on the claims a table holds.
Ordered(table) ==
  /\ \A p \in Robot : /\ table[p].before \subseteq {q \in Robot : Stored(table[q])}
                      /\ p \notin table[p].before
  /\ \A p, q \in Robot :
       p # q /\ Stored(table[p]) /\ Stored(table[q])
         => (p \in table[q].before <=> q \notin table[p].before)
  /\ \A p, q, x \in Robot :
       p \in table[q].before /\ q \in table[x].before => p \in table[x].before

TablesOrdered == \A r \in Robot : Ordered(claims[r])

LEMMA NoClaimsOrdered == Ordered(NoClaims)
BY DEF Ordered, NoClaims, NoClaim, Stored

LEMMA PruneOrdered ==
  ASSUME NEW table \in [Robot -> Claim], Ordered(table)
  PROVE  Ordered(Prune(table))
<1> DEFINE kept == {p \in Robot : Retained(table[p])}
           pruned == Prune(table)
<1>1. \A p \in Robot :
        /\ p \in kept => /\ pruned[p].before = table[p].before \cap kept
                         /\ Stored(pruned[p]) /\ Stored(table[p])
        /\ p \notin kept => pruned[p].before = {} /\ ~ Stored(pruned[p])
  BY DEF Prune, Claim, NoClaim, Stored, Retained
<1> HIDE DEF kept, pruned
<1>2. kept \subseteq Robot
  BY DEF kept
<1>3. \A p \in Robot : /\ pruned[p].before \subseteq {q \in Robot : Stored(pruned[q])}
                       /\ p \notin pruned[p].before
  BY <1>1, <1>2 DEF Ordered
<1>4. \A p, q \in Robot :
        p # q /\ Stored(pruned[p]) /\ Stored(pruned[q])
          => (p \in pruned[q].before <=> q \notin pruned[p].before)
  BY <1>1 DEF Ordered
<1>5. \A p, q, x \in Robot :
        p \in pruned[q].before /\ q \in pruned[x].before => p \in pruned[x].before
  BY <1>1 DEF Ordered
<1> QED BY <1>3, <1>4, <1>5 DEF Ordered, pruned

LEMMA OnIntentOrdered ==
  ASSUME NEW table \in [Robot -> Claim], Ordered(table), NEW p \in Robot, NEW m \in Intent
  PROVE  Ordered(OnIntent(table, p, m))
<1> DEFINE known == {q \in Robot : Stored(table[q])}
           after == OnIntent(table, p, m)
<1>1. /\ Stored(after[p])
      /\ after[p].before = IF p \in known THEN table[p].before ELSE known
      /\ \A q \in Robot \ {p} : after[q] = table[q]
  BY DEF OnIntent, Stored
<1>2. /\ \A q \in Robot : table[q].before \subseteq known /\ q \notin table[q].before
      /\ \A q \in Robot : q \in known <=> Stored(table[q])
  BY DEF Ordered
<1> HIDE DEF known, after
<1>3. \A q \in Robot : after[q].before \subseteq known /\ q \notin after[q].before
  BY <1>1, <1>2
<1>4. known \subseteq Robot /\ \A q \in known : Stored(after[q])
  BY <1>1, <1>2 DEF known
<1>5. ASSUME NEW x \in Robot, NEW y \in Robot, x # y, Stored(after[x]), Stored(after[y])
      PROVE  x \in after[y].before <=> y \notin after[x].before
  <2>1. CASE p \in known \/ (x # p /\ y # p)
    BY <1>1, <1>2, <1>5, <2>1 DEF Ordered
  <2>2. CASE p \notin known /\ (x = p \/ y = p)
    BY <1>1, <1>2, <1>3, <1>5, <2>2
  <2> QED BY <2>1, <2>2
<1>6. ASSUME NEW x \in Robot, NEW y \in Robot, NEW z \in Robot,
             x \in after[y].before, y \in after[z].before
      PROVE  x \in after[z].before
  <2>1. CASE p \in known
    BY <1>1, <1>6, <2>1 DEF Ordered
  <2>2. CASE p \notin known
    <3>1. x \in known /\ y \in known
      BY <1>3, <1>6
    <3> QED BY <1>1, <1>6, <2>2, <3>1 DEF Ordered
  <2> QED BY <2>1, <2>2
<1> QED BY <1>3, <1>4, <1>5, <1>6 DEF Ordered, after

LEMMA OlderOrdered ==
  ASSUME NEW table \in [Robot -> Claim], Ordered(table), NEW p \in Robot,
         table[p].age \in {"live", "graced"}
  PROVE  Ordered([table EXCEPT ![p] = Older(@)])
<1> DEFINE after == [table EXCEPT ![p] = Older(@)]
<1>1. \A q \in Robot : /\ after[q].before = table[q].before
                       /\ Stored(after[q]) <=> Stored(table[q])
  BY DEF Older, Claim, Stored
<1> HIDE DEF after
<1>2. Ordered(after)
  BY <1>1 DEF Ordered
<1> QED BY <1>2 DEF after

\* What a step makes of the table of x.
TableStep(x) ==
  \/ claims'[x] = claims[x] \/ claims'[x] = Prune(claims[x]) \/ claims'[x] = NoClaims
  \/ \E p \in Robot, m \in Intent : claims'[x] = OnIntent(claims[x], p, m)
  \/ \E p \in Robot : /\ claims[x][p].age \in {"live", "graced"}
                      /\ claims'[x] = [claims[x] EXCEPT ![p] = Older(@)]

LEMMA TableKept ==
  ASSUME TypeOK, NEW r \in Robot, Tick(r) \/ ClosePartial(r) \/ World(r), NEW x \in Robot
  PROVE  TableStep(x)
<1> USE DEF TypeOK, ClaimTypeOK, ChannelTypeOK, claimVars
<1>a. claims' = claims \/ PruneClaims(r) => TableStep(x)
  BY DEF PruneClaims, TableStep
<1>1. CASE Explore(r) \/ Finish(r)
  BY <1>1, <1>a
  DEF Explore, StartExploreHop, EndExploreHop, Engage, FinishExploring, Finish, LogStep,
      SpendBudget, TeamReconnects, RendezvousExpires
<1>2. CASE Plan(r) \/ ClosePartial(r)
  BY <1>2, <1>a
  DEF Plan, CloseComplete, ClosePartial, Hold, SelectVantage, SelectApproach, RetryPlan,
      PlanTick
<1>3. CASE Navigate(r) \/ Dwell(r)
  BY <1>3, <1>a
  DEF Navigate, GoalBlocked, YieldVantage, ArriveApproach, ArriveVantage, FailGoal,
      Dwell, BarrierOpens, BarrierTimesOut, CompleteDwell
<1>4. CASE \/ \E t \in Target : IngestTarget(r, t)
           \/ Heartbeat(r) \/ Drive(r)
           \/ \E p \in Robot \ {r} : Lose(p, r)
  BY <1>4, <1>a DEF IngestTarget, Heartbeat, Drive, Lose
<1>5. CASE Restart(r)
  BY <1>5 DEF Restart, TableStep
<1>6. ASSUME NEW p \in Robot \ {r}, Deliver(p, r)
      PROVE  TableStep(x)
  <2>1. Head(chan[p][r]) \in Intent
    BY <1>6, HeadType DEF Deliver
  <2>2. claims' = [claims EXCEPT ![r] = OnIntent(@, p, Head(chan[p][r]))]
    BY <1>6 DEF Deliver
  <2> QED BY <2>1, <2>2 DEF TableStep
<1>7. ASSUME NEW p \in Robot \ {r}, ClaimAges(r, p)
      PROVE  TableStep(x)
  <2>1. /\ claims[r][p].age \in {"live", "graced"}
        /\ claims' = [claims EXCEPT ![r][p] = Older(@)]
    BY <1>7 DEF ClaimAges
  <2>2. claims' = [claims EXCEPT ![r] = [claims[r] EXCEPT ![p] = Older(@)]]
    BY <2>1
  <2> QED BY <2>1, <2>2 DEF TableStep
<1> QED BY <1>1, <1>2, <1>3, <1>4, <1>5, <1>6, <1>7 DEF Tick, World

LEMMA OrderStep ==
  ASSUME TypeOK, TablesOrdered, [Next]_vars
  PROVE  TablesOrdered'
<1>1. CASE UNCHANGED vars
  BY <1>1 DEF vars, claimVars, TablesOrdered
<1>2. ASSUME NEW r \in Robot, Tick(r) \/ ClosePartial(r) \/ World(r),
             NEW x \in Robot
      PROVE  Ordered(claims'[x])
  <2>1. TableStep(x)
    BY <1>2, TableKept
  <2>2. claims[x] \in [Robot -> Claim] /\ Ordered(claims[x])
    BY DEF TypeOK, ClaimTypeOK, TablesOrdered
  <2> QED
    BY <2>1, <2>2, NoClaimsOrdered, PruneOrdered, OnIntentOrdered, OlderOrdered DEF TableStep
<1>3. ASSUME NEW r \in Robot, Tick(r) \/ ClosePartial(r) \/ World(r)
      PROVE  TablesOrdered'
  BY <1>2, <1>3 DEF TablesOrdered
<1> QED BY <1>1, <1>3 DEF Next, World

----------------------------------------------------------------------------
\* Whoever contests a spot, one of the contestants is consulted.
LEMMA SomeoneMatches ==
  ASSUME TypeOK, NEW r \in Robot, Ordered(claims[r]), NEW s \in Spot,
         Contesting(claims[r], s) # {}
  PROVE  \E p \in Robot : ClaimMatching(claims[r], s, p)
<1> DEFINE C == Contesting(claims[r], s)
           d(p) == Dist[claims[r][p].msg.pos][s]
           Less == {x \in C \X C :
                      \/ d(x[1]) < d(x[2])
                      \/ d(x[1]) = d(x[2]) /\ x[1] \in claims[r][x[2]].before}
<1>1. C \subseteq Robot /\ IsFiniteSet(C)
  BY RobotAssumption, FS_Subset DEF Contesting
<1>2. \A p \in C : d(p) \in Nat /\ Stored(claims[r][p])
  BY GeometryAssumption DEF Contesting, TypeOK, ClaimTypeOK, Claim, Intent
<1>3. \A x, y \in C : << x, y >> \in Less <=>
        d(x) < d(y) \/ (d(x) = d(y) /\ x \in claims[r][y].before)
  OBVIOUS
<1> HIDE DEF C, d, Less
<1>4. \A x \in C : << x, x >> \notin Less
  BY <1>1, <1>2, <1>3 DEF Ordered
<1>5. ASSUME NEW x \in C, NEW y \in C, NEW z \in C,
             << x, y >> \in Less, << y, z >> \in Less
      PROVE  << x, z >> \in Less
  <2>1. x \in claims[r][y].before /\ y \in claims[r][z].before => x \in claims[r][z].before
    BY <1>1 DEF Ordered
  <2>2. d(x) \in Nat /\ d(y) \in Nat /\ d(z) \in Nat
    BY <1>2
  <2> QED BY <1>3, <1>5, <2>1, <2>2
<1>6. PICK p \in C : \A y \in C : << y, p >> \notin Less
  <2>1. C # {}
    BY DEF C
  <2> QED BY <1>1, <1>4, <1>5, <2>1, FirstElement
<1>7. ASSUME NEW q \in C \ {p}
      PROVE  d(p) < d(q) \/ (d(p) = d(q) /\ p \in claims[r][q].before)
  <2>1. ~ (d(q) < d(p) \/ (d(q) = d(p) /\ q \in claims[r][p].before))
    BY <1>3, <1>6
  <2>2. q \notin claims[r][p].before => p \in claims[r][q].before
    BY <1>1, <1>2, <1>7 DEF Ordered
  <2>3. d(p) \in Nat /\ d(q) \in Nat
    BY <1>2
  <2> QED BY <2>1, <2>2, <2>3
<1>8. ClaimMatching(claims[r], s, p)
  BY <1>7 DEF ClaimMatching, C, d
<1> QED BY <1>1, <1>8

LEMMA MatchedIsNearest ==
  ASSUME TypeOK, NEW r \in Robot, NEW s \in Spot, NEW p, ClaimMatching(claims[r], s, p)
  PROVE  /\ p \in Contesting(claims[r], s)
         /\ \A q \in Contesting(claims[r], s) :
              Dist[claims[r][p].msg.pos][s] =< Dist[claims[r][q].msg.pos][s]
<1>1. \A q \in Contesting(claims[r], s) : Dist[claims[r][q].msg.pos][s] \in Nat
  BY GeometryAssumption DEF Contesting, TypeOK, ClaimTypeOK, Claim, Intent
<1> QED BY <1>1 DEF ClaimMatching

\* Who drives to s has claimed s for the trunk of s.
LEMMA RivalClaims ==
  ASSUME TypeOK, GoalIsActive, ClaimIsTrue, NEW s \in Spot, NEW p \in Robot,
         pstate[p] = "NAVIGATE", goal[p] = s
  PROVE  mine[p].exploit /\ mine[p].target = s[1]
BY DEF GoalIsActive, ClaimIsTrue, TrueClaim

LEMMA ThreeApart ==
  ASSUME NEW S, IsFiniteSet(S), NEW x \in S, NEW y \in S, NEW z \in S, x # y, y # z, x # z
  PROVE  Cardinality(S) > 2
<1>1. IsFiniteSet({x}) /\ Cardinality({x}) = 1
  BY FS_Singleton
<1>2. IsFiniteSet({x} \cup {y}) /\ Cardinality({x} \cup {y}) = 2
  <2>1. y \notin {x}
    OBVIOUS
  <2>2. IsFiniteSet({x} \cup {y}) /\ Cardinality({x} \cup {y}) = Cardinality({x}) + 1
    BY <1>1, <2>1, FS_AddElement
  <2> QED BY <1>1, <2>2
<1>3. Cardinality({x} \cup {y} \cup {z}) = 3
  <2>1. z \notin {x} \cup {y}
    OBVIOUS
  <2> QED BY <1>2, <2>1, FS_AddElement
<1>4. Cardinality({x} \cup {y} \cup {z}) =< Cardinality(S) /\ Cardinality(S) \in Nat
  BY FS_Subset, FS_CardinalityType
<1> QED BY <1>3, <1>4

LEMMA NearestKeeps ==
  ASSUME TypeOK, GoalIsActive, ClaimIsTrue, TablesOrdered
  PROVE  NearestKeepsAngle
<1> SUFFICES ASSUME NEW s \in Spot, s[1] \notin WideId, Rivals(s) # {}, KnowEachOther(s)
             PROVE  /\ Keepers(s) # {} /\ Keepers(s) \subseteq Front(s)
                    /\ Cardinality(Front(s)) =< 2 => Cardinality(Keepers(s)) = 1
  BY DEF NearestKeepsAngle
<1> DEFINE R == Rivals(s)
           D(r) == Dist[loc[r]][s]
<1>1. /\ R \subseteq Robot
      /\ \A r \in R : /\ pstate[r] = "NAVIGATE" /\ goal[r] = s
                      /\ Contesting(claims[r], s) = R \ {r}
                      /\ \A p \in R \ {r} : KnowsPose(r, p)
  BY DEF Rivals, KnowEachOther
<1>2. \A r \in R : D(r) \in Nat /\ r \in Nat
  <2>1. \A r \in Robot : loc[r] \in Place /\ r \in Nat
    BY RobotAssumption DEF TypeOK, BodyTypeOK
  <2>2. \A p \in Place : Dist[p][s] \in Nat
    BY GeometryAssumption
  <2> QED BY <1>1, <2>1, <2>2
<1>3. \A r, p \in R : Ahead(s, r, p) <=> D(r) < D(p) \/ (D(r) = D(p) /\ r < p)
  BY DEF Ahead, SelfWinsAgainst
<1>4. Front(s) = {r \in R : \A p \in R : D(r) =< D(p)}
  BY DEF Front
<1>5. Keepers(s) = {r \in R : ~ LosesAngle(r)}
  BY DEF Keepers
<1> HIDE DEF R, D
<1>6. \A r \in R : \A p \in R \ {r} :
        /\ claims[r][p].msg.pos = loc[p]
        /\ claims[r][p].msg.exploit /\ claims[r][p].msg.target = s[1]
  BY <1>1, KnownClaim, RivalClaims
<1>7. \A r \in R : \A p \in Robot :
        ClaimMatching(claims[r], s, p) => p \in R \ {r} /\ \A q \in R \ {r} : D(p) =< D(q)
  <2> TAKE r \in R
  <2> TAKE p \in Robot
  <2> HAVE ClaimMatching(claims[r], s, p)
  <2>1. Contesting(claims[r], s) = R \ {r} /\ r \in Robot
    BY <1>1
  <2>2. /\ p \in Contesting(claims[r], s)
        /\ \A q \in Contesting(claims[r], s) :
             Dist[claims[r][p].msg.pos][s] =< Dist[claims[r][q].msg.pos][s]
    BY <2>1, MatchedIsNearest
  <2> QED BY <1>6, <2>1, <2>2 DEF D
<1>8. \A r \in R : R \ {r} # {} => \E p \in Robot : ClaimMatching(claims[r], s, p)
  BY <1>1, SomeoneMatches DEF TablesOrdered
<1>9. \A r \in R : LosesAngle(r) <=>
        \E p \in Robot : ClaimMatching(claims[r], s, p) /\ ~ Ahead(s, r, p)
  <2> TAKE r \in R
  <2>1. goal[r] = s
    BY <1>1
  <2>2. \A p \in R \ {r} :
          SelfWinsAgainst(r, loc[r], s, p, claims[r][p].msg) <=> Ahead(s, r, p)
    BY <1>6 DEF SelfWinsAgainst, Ahead
  <2> QED BY <1>6, <1>7, <2>1, <2>2 DEF LosesAngle
<1>10. PICK f \in R : \A p \in R \ {f} : Ahead(s, f, p)
  BY <1>1, OneIsFirst DEF R
<1>11. f \in Front(s)
  BY <1>2, <1>3, <1>4, <1>10
<1>12. f \in Keepers(s)
  BY <1>5, <1>7, <1>9, <1>10
<1>13. Keepers(s) \subseteq Front(s)
  <2> SUFFICES ASSUME NEW r \in R, NEW q \in R, D(q) < D(r)
               PROVE  LosesAngle(r)
    BY <1>2, <1>4, <1>5
  <2>1. q # r /\ r \in Robot
    BY <1>1, <1>2
  <2>2. PICK p \in Robot : ClaimMatching(claims[r], s, p)
    BY <1>8, <2>1
  <2>3. p \in R /\ D(p) < D(r)
    BY <1>2, <1>7, <2>1, <2>2
  <2>4. ~ Ahead(s, r, p)
    BY <1>2, <1>3, <2>3
  <2> QED BY <1>9, <2>2, <2>4
<1>14. ASSUME Cardinality(Front(s)) =< 2, NEW k \in Keepers(s), k # f
       PROVE  FALSE
  <2>1. k \in R /\ k \in Front(s) /\ ~ LosesAngle(k) /\ f \in R \ {k}
    BY <1>5, <1>13, <1>14
  <2>2. PICK p \in Robot : ClaimMatching(claims[k], s, p)
    BY <1>8, <2>1
  <2>3. p \in R \ {k} /\ D(p) =< D(f)
    BY <1>7, <2>1, <2>2
  <2>4. p \in Front(s)
    BY <1>2, <1>4, <1>11, <2>3
  <2>5. p # f
    <3>1. ~ Ahead(s, k, f)
      BY <1>1, <1>10, <2>1, AheadIsOrder
    <3> QED BY <1>9, <2>1, <2>2, <3>1
  <2>6. IsFiniteSet(Front(s))
    BY <1>1, <1>4, RobotAssumption, FS_Subset
  <2>7. Cardinality(Front(s)) > 2 /\ Cardinality(Front(s)) \in Nat
    BY <1>11, <1>14, <2>1, <2>3, <2>4, <2>5, <2>6, ThreeApart, FS_CardinalityType
  <2> QED BY <1>14, <2>7
<1>15. Cardinality(Front(s)) =< 2 => Keepers(s) = {f}
  BY <1>12, <1>14
<1> QED BY <1>12, <1>13, <1>15, FS_Singleton

\* Of the robots driving to one angle that have heard each other, and only each
\* other, about it, at least one keeps it, only those keep it that stand closest,
\* and exactly one does unless three or more are equally close; for every geometry,
\* team, order in which the claims arrived, and target id below 2^31 (doNavigate's
\* yield, claimMatching, selfWinsAgainst).
THEOREM NearestAlwaysKeeps == Spec => []NearestKeepsAngle
<1>1. Init => TablesOrdered
  BY NoClaimsOrdered DEF Init, TablesOrdered
<1>2. TypeOK /\ TablesOrdered /\ [Next]_vars => TablesOrdered'
  BY OrderStep
<1>3. TypeOK /\ GoalIsActive /\ ClaimIsTrue /\ TablesOrdered => NearestKeepsAngle
  BY NearestKeeps
<1> QED
  BY <1>1, <1>2, <1>3, TypeCorrect, GoalAlwaysActive, ClaimAlwaysTrue, PTL DEF Spec

----------------------------------------------------------------------------
\* What a planner has just selected, its own table does not deny it.
LEMMA SelectedStands ==
  ASSUME TypeOK, TypeOK', NEW r \in Robot, SelectVantage(r)
  PROVE  ~ LosesAngle(r)'
<1>1. PICK t \in Target, k \in Angle :
        /\ ~ Vetoed(r, t, k)
        /\ goal' = [goal EXCEPT ![r] = << t, k >>]
        /\ PruneClaims(r) /\ loc' = loc
  BY DEF SelectVantage, StartExploitNavigate, PlanTick, Selectable
<1>2. goal'[r] = << t, k >> /\ claims'[r] = Prune(claims[r])
  BY <1>1 DEF TypeOK, PlannerTypeOK, ClaimTypeOK, PruneClaims
<1>3. \A p \in Robot :
        ~ (/\ ClaimMatching(claims'[r], << t, k >>, p)
           /\ claims'[r][p].msg.exploit /\ claims'[r][p].msg.target = t)
  BY <1>1, <1>2 DEF Vetoed, VantageVetoedByPeers
<1> QED BY <1>2, <1>3 DEF LosesAngle

LEMMA SetsOut ==
  ASSUME TypeOK, TypeOK', [Next]_vars, NEW r \in Robot,
         pstate[r] = "EXPLOIT_PLAN", pstate'[r] = "NAVIGATE"
  PROVE  ~ LosesAngle(r)'
<1> USE DEF TypeOK, PlannerTypeOK
<1>1. pstate' # pstate
  OBVIOUS
<1>2. PICK x \in Robot : Tick(x) \/ ClosePartial(x) \/ World(x)
  BY <1>1 DEF Next, World, vars, planVars
<1>3. x = r
  BY <1>2, OthersKeep DEF SameRobot
<1>4. ~ World(r)
  BY DEF World, IngestTarget, Heartbeat, Drive, Restart, Deliver, Lose, ClaimAges, planVars, GoTo
<1>5. ~ (Explore(r) \/ Navigate(r) \/ Dwell(r) \/ Finish(r))
  BY DEF Explore, StartExploreHop, EndExploreHop, Engage, FinishExploring, Navigate,
         GoalBlocked, YieldVantage, ArriveApproach, ArriveVantage, FailGoal, Dwell,
         BarrierOpens, BarrierTimesOut, CompleteDwell, Finish, LogStep, SpendBudget,
         TeamReconnects, RendezvousExpires, planVars
<1>6. ~ (CloseComplete(r) \/ ClosePartial(r) \/ Hold(r) \/ RetryPlan(r))
  BY DEF CloseComplete, ClosePartial, CloseTarget, Hold, RetryPlan, GoTo
<1>7. CASE SelectVantage(r)
  BY <1>7, SelectedStands
<1>8. CASE SelectApproach(r)
  <2>1. PICK t \in Target : \E g \in ApproachPoints[loc[r]][t] : StartExploitNavigate(r, t, g)
    BY <1>8 DEF SelectApproach
  <2>2. PICK w \in ApproachPoints[loc[r]][t] : StartExploitNavigate(r, t, w)
    BY <2>1
  <2>3. w \in Waypoint
    BY WorldAssumption DEF BodyTypeOK
  <2>4. goal'[r] = w
    BY <2>2 DEF StartExploitNavigate
  <2> QED BY <2>3, <2>4, PlaceAssumption DEF LosesAngle
<1> QED BY <1>2, <1>3, <1>4, <1>5, <1>6, <1>7, <1>8 DEF Tick, Plan

\* A robot never sets out to an angle its own claim table already denies it, though
\* the veto of EXPLOIT_PLAN and the yield of a drive read that table at different
\* times: the tick that selects also prunes (doExploitPlan, vantageVetoedByPeers).
THEOREM NobodySetsOutToYield == Spec => NeverSetsOutToYield
<1>1. TypeOK /\ TypeOK' /\ [Next]_vars
        => [\A r \in Robot : pstate[r] = "EXPLOIT_PLAN" /\ pstate'[r] = "NAVIGATE"
                               => ~ LosesAngle(r)']_vars
  BY SetsOut
<1> QED BY <1>1, TypeCorrect, PTL DEF Spec, NeverSetsOutToYield

----------------------------------------------------------------------------
\* A parked peer that wins a spot from where it stands vetoes it.
LEMMA ParkedVetoes ==
  ASSUME TypeOK, NEW r \in Robot, NEW p \in Robot, NEW t \in Target, NEW k \in Angle,
         KnowsPose(r, p), mine[p].staged, mine[p].exploit, mine[p].target = t,
         ~ Ahead(<< t, k >>, r, p)
  PROVE  Vetoed(r, t, k)
<1> DEFINE table == Prune(claims[r])
           s == << t, k >>
<1>1. table[p].age = claims[r][p].age /\ table[p].msg = claims[r][p].msg
  BY KnownClaim DEF Prune, Retained, TypeOK, ClaimTypeOK, Claim
<1>2. /\ table[p].age = "live" /\ table[p].msg.exploit /\ table[p].msg.target = t
      /\ table[p].msg.staged /\ table[p].msg.pos = loc[p]
  BY <1>1, KnownClaim
<1>3. ~ SelfWinsAgainst(r, loc[r], s, p, table[p].msg)
  BY <1>2 DEF Ahead, SelfWinsAgainst
<1> HIDE DEF table, s
<1>4. p \in StagedExploitPeersWinning(table, t, s, r, loc[r])
  BY <1>2, <1>3 DEF StagedExploitPeersWinning, ExploitPeers, Stored, Retained
<1> QED BY <1>4 DEF Vetoed, VantageVetoedByPeers, table, s

LEMMA ParkedSplit ==
  ASSUME TypeOK, StagedIsExploit
  PROVE  ParkedPeersSplit
<1> SUFFICES ASSUME NEW r \in Robot, NEW p \in Robot, NEW t \in Target,
                    r # p, KnowsPose(r, p), KnowsPose(p, r),
                    \A x \in {r, p} : mine[x].staged /\ mine[x].target = t,
                    NEW k \in Angle,
                    k \in Selectable(r, t), k \in Selectable(p, t)
             PROVE  FALSE
  BY DEF ParkedPeersSplit, Selectable
<1>1. << t, k >> \in Spot
  BY DEF Spot
<1>2. ~ Ahead(<< t, k >>, r, p) \/ ~ Ahead(<< t, k >>, p, r)
  BY <1>1, AheadIsOrder
<1>3. mine[r].exploit /\ mine[p].exploit
  BY DEF StagedIsExploit
<1>4. Vetoed(r, t, k) \/ Vetoed(p, t, k)
  BY <1>2, <1>3, ParkedVetoes
<1> QED BY <1>4 DEF Selectable

\* Robots parked on one ring that know where the other stands pick different
\* angles (vantageVetoedByPeers, stagedExploitPeersWinning).
THEOREM ParkedAlwaysSplit == Spec => []ParkedPeersSplit
<1>1. Init => StagedIsExploit
  BY DEF Init, StagedIsExploit, PlainIntent, BuildIntent
<1>2. TypeOK /\ ClaimIsTrue /\ StagedIsExploit /\ [Next]_vars => StagedIsExploit'
  BY StagedStep
<1>3. TypeOK /\ StagedIsExploit => ParkedPeersSplit
  BY ParkedSplit
<1> QED BY <1>1, <1>2, <1>3, TypeCorrect, ClaimAlwaysTrue, PTL DEF Spec

----------------------------------------------------------------------------
(* What a robot has heard of another.  Unless the transport loses claims,    *)
(* its last word is true; so a barrier waits for no robot that waits itself, *)
(* except while the word that opens it is on its way.                        *)

\* One claim, credit aside.
SameClaim(m, n) == [m EXCEPT !.mask = {}] = [n EXCEPT !.mask = {}]

\* The last thing p said that reached r or is going to.
LastWord(p, r) ==
  IF chan[p][r] = << >> THEN claims[r][p].msg ELSE chan[p][r][Len(chan[p][r])]

\* Whatever a robot does, its peers are told: the last word of p to r, if any, is
\* the claim p holds now, though claims are patched, reused and overwritten in a
\* history of any depth.
NewsIsTrue ==
  \A r, p \in Robot :
    r # p /\ have[p] => \/ chan[p][r] = << >> /\ claims[r][p].age = "none"
                        \/ SameClaim(LastWord(p, r), mine[p])

NotItself == \A r \in Robot : claims[r][r].age = "none"

\* p has claimed the ring of t and not arrived at a vantage of it yet.
Coming(p, t) ==
  /\ pstate[p] \in {"NAVIGATE", "EXPLOIT_PLAN"}
  /\ mine[p].exploit /\ mine[p].target = t /\ ~ mine[p].staged

UnstagedIsComing ==
  \A p \in Robot : have[p] /\ mine[p].exploit /\ ~ mine[p].staged => Coming(p, mine[p].target)

\* A robot at its barrier waits for a peer only while that peer is driving to the
\* ring or planning at an approach waypoint with its claim still out, or silent
\* (its claim expires), or has a claim in transit to the robot.  Two robots that
\* both stand at their barriers wait for each other at most as long as a claim is
\* in transit; a robot may wait for one that is stopped at an approach waypoint.
BarrierWaitsForComers ==
  \A r, p \in Robot :
    pstate[r] = "EXPLOIT_DWELL" /\ p \in UnstagedExploitPeers(claims[r], goal[r][1])
      => chan[p][r] # << >> \/ ~ Beating(p) \/ Coming(p, goal[r][1])

LEMMA SameFields ==
  ASSUME NEW m \in Intent, NEW n \in Intent
  PROVE  SameClaim(m, n) <=> \A f \in {"exploit", "target", "goal", "staged", "pos"} : m[f] = n[f]
<1>1. [m EXCEPT !.mask = {}] = [n EXCEPT !.mask = {}]
      <=> /\ m.exploit = n.exploit /\ m.target = n.target /\ m.goal = n.goal
          /\ m.staged = n.staged /\ m.pos = n.pos
  BY DEF Intent
<1> QED BY <1>1 DEF SameClaim

\* A robot that changes its claim says so, or drops it.
Speaks(r) ==
  \/ Publish(r, mine'[r])
  \/ ~ have'[r]
  \/ have[r] /\ SameClaim(mine'[r], mine[r])

LEMMA OwnWord ==
  ASSUME TypeOK, NEW r \in Robot, Tick(r) \/ ClosePartial(r) \/ World(r)
  PROVE  Speaks(r)
<1> USE DEF TypeOK, PlannerTypeOK, ClaimTypeOK, Speaks
<1>a. ASSUME NEW m, Announce(r, m)
      PROVE  Publish(r, mine'[r])
  BY <1>a DEF Announce
<1>b. Release(r) => ~ have'[r]
  BY DEF Release
<1>c. UNCHANGED << mine, have >> => ~ have'[r] \/ (have[r] /\ SameClaim(mine'[r], mine[r]))
  BY DEF SameClaim
<1>1. CASE Explore(r) \/ Finish(r)
  BY <1>1, <1>a, <1>b, <1>c
  DEF Explore, StartExploreHop, EndExploreHop, Engage, FinishExploring, Finish, LogStep,
      SpendBudget, StartReturnToAnchor, FinishDone, TeamReconnects, RendezvousExpires,
      claimVars
<1>2. CASE CloseComplete(r) \/ ClosePartial(r)
  BY <1>2, <1>b DEF CloseComplete, ClosePartial, CloseTarget
<1>3. CASE Hold(r)
  <2> PICK t \in Target :
        LET mask == Planned(r, t).rec[t].mask
        IN  IF ~ have[r] \/ ~ mine[r].staged \/ mine[r].target # t
              THEN Announce(r, BuildIntent(held[r], loc[r], TRUE, t, mask, TRUE))
              ELSE mine' = [mine EXCEPT ![r].mask = mask]
    BY <1>3 DEF Hold
  <2>1. CASE ~ have[r] \/ ~ mine[r].staged \/ mine[r].target # t
    BY <1>a, <2>1
  <2>2. CASE ~ (~ have[r] \/ ~ mine[r].staged \/ mine[r].target # t)
    <3>1. have[r] /\ mine'[r] = [mine[r] EXCEPT !.mask = Planned(r, t).rec[t].mask]
      BY <2>2
    <3>2. \A S : [[mine[r] EXCEPT !.mask = S] EXCEPT !.mask = {}] = [mine[r] EXCEPT !.mask = {}]
      BY DEF Intent
    <3> QED BY <3>1, <3>2 DEF SameClaim
  <2> QED BY <2>1, <2>2
<1>4. CASE SelectVantage(r) \/ SelectApproach(r)
  BY <1>4, <1>a DEF SelectVantage, SelectApproach, StartExploitNavigate
<1>5. CASE RetryPlan(r) \/ BarrierOpens(r) \/ BarrierTimesOut(r)
  BY <1>5, <1>c DEF RetryPlan, BarrierOpens, BarrierTimesOut, claimVars
<1>6. CASE Navigate(r)
  BY <1>6, <1>a, <1>b, <1>c
  DEF Navigate, GoalBlocked, YieldVantage, ArriveApproach, ArriveVantage, FailGoal, claimVars
<1>7. CASE CompleteDwell(r)
  BY <1>7, <1>a, <1>c DEF CompleteDwell
<1>8. CASE World(r)
  BY <1>8, <1>a, <1>c
  DEF World, IngestTarget, Heartbeat, Drive, Restart, Deliver, Lose, ClaimAges, claimVars
<1> QED
  BY <1>1, <1>2, <1>3, <1>4, <1>5, <1>6, <1>7, <1>8 DEF Tick, Plan, Dwell

\* A table entry survives, or is pruned.
EntryKept(x, p) ==
  \/ claims'[x][p].age = "none"
  \/ claims'[x][p].msg = claims[x][p].msg /\ claims[x][p].age # "none"

\* Apart from a callback, a loss and a restart, a step tells everybody or nobody,
\* and learns nothing.
LEMMA QuietStep ==
  ASSUME TypeOK, NEW r \in Robot, Tick(r) \/ ClosePartial(r) \/ World(r),
         ~ Restart(r), \A q \in Robot \ {r} : ~ Deliver(q, r) /\ ~ Lose(q, r)
  PROVE  /\ chan' = chan \/ Publish(r, mine'[r])
         /\ \A x, p \in Robot : EntryKept(x, p)
<1> USE DEF TypeOK, ClaimTypeOK, claimVars
<1>a. ASSUME NEW m, Announce(r, m)
      PROVE  Publish(r, mine'[r])
  BY <1>a DEF Announce
<1>b. Release(r) => chan' = chan
  BY DEF Release
<1>c. claims' = claims => \A x, p \in Robot : EntryKept(x, p)
  BY DEF EntryKept
<1>d. PruneClaims(r) => \A x, p \in Robot : EntryKept(x, p)
  BY DEF PruneClaims, Prune, Retained, Claim, NoClaim, EntryKept
<1>1. CASE Explore(r) \/ Finish(r)
  BY <1>1, <1>a, <1>b, <1>c, <1>d
  DEF Explore, StartExploreHop, EndExploreHop, Engage, FinishExploring, Finish, LogStep,
      SpendBudget, StartReturnToAnchor, FinishDone, TeamReconnects, RendezvousExpires
<1>2. CASE Plan(r) \/ ClosePartial(r)
  <2>1. \A x, p \in Robot : EntryKept(x, p)
    BY <1>2, <1>d
    DEF Plan, CloseComplete, ClosePartial, Hold, SelectVantage, SelectApproach, RetryPlan,
        PlanTick
  <2>2. CASE CloseComplete(r) \/ ClosePartial(r) \/ RetryPlan(r)
    BY <2>1, <2>2, <1>b DEF CloseComplete, ClosePartial, CloseTarget, RetryPlan
  <2>3. CASE Hold(r)
    BY <2>1, <2>3, <1>a DEF Hold
  <2>4. CASE SelectVantage(r) \/ SelectApproach(r)
    BY <2>1, <2>4, <1>a DEF SelectVantage, SelectApproach, StartExploitNavigate
  <2> QED
    BY <1>2, <2>2, <2>3, <2>4 DEF Plan
<1>3. CASE Navigate(r)
  BY <1>3, <1>a, <1>b, <1>c
  DEF Navigate, GoalBlocked, YieldVantage, ArriveApproach, ArriveVantage, FailGoal
<1>4. CASE Dwell(r)
  BY <1>4, <1>a, <1>c DEF Dwell, BarrierOpens, BarrierTimesOut, CompleteDwell
<1>5. ASSUME NEW q \in Robot \ {r}, ClaimAges(r, q)
      PROVE  /\ chan' = chan
             /\ \A x, p \in Robot : EntryKept(x, p)
  <2>1. ASSUME NEW x \in Robot, NEW p \in Robot
        PROVE  EntryKept(x, p)
    <3>1. CASE x = r /\ p = q
      BY <1>5, <3>1 DEF ClaimAges, Older, Claim, EntryKept
    <3>2. CASE ~ (x = r /\ p = q)
      BY <1>5, <3>2 DEF ClaimAges, EntryKept
    <3> QED BY <3>1, <3>2
  <2> QED BY <1>5, <2>1 DEF ClaimAges
<1>6. CASE \/ \E t \in Target : IngestTarget(r, t)
           \/ Heartbeat(r) \/ Drive(r)
  BY <1>6, <1>a, <1>c DEF IngestTarget, Heartbeat, Drive
<1> QED
  BY <1>1, <1>2, <1>3, <1>4, <1>5, <1>6 DEF Tick, World

LEMMA NoWords ==
  ASSUME NEW s \in Seq(Intent)
  PROVE  s = << >> <=> Len(s) = 0
OBVIOUS

\* The newest message survives a full history.
LEMMA KeepLastEnds ==
  ASSUME NEW s \in Seq(Intent), NEW m \in Intent
  PROVE  LET k == KeepLast(Append(s, m)) IN k # << >> /\ k[Len(k)] = m
<1> DEFINE a == Append(s, m)
<1>1. a \in Seq(Intent) /\ Len(a) = Len(s) + 1 /\ a[Len(a)] = m /\ Len(s) \in Nat
  OBVIOUS
<1> HIDE DEF a
<1>2. CASE Len(a) > Depth
  <2>1. Tail(a) \in Seq(Intent) /\ Len(Tail(a)) = Len(a) - 1 /\ Len(a) > 1
    BY <1>1, <1>2, ParameterAssumption
  <2>2. Tail(a)[Len(a) - 1] = a[Len(a)]
    BY <1>1, <2>1
  <2>3. Tail(a) # << >>
    <3>1. Len(Tail(a)) # 0
      BY <1>1, <2>1
    <3> QED BY <2>1, <3>1, NoWords
  <2> QED BY <1>1, <1>2, <2>1, <2>2, <2>3 DEF KeepLast, a
<1>3. CASE ~ Len(a) > Depth
  BY <1>1, <1>3 DEF KeepLast, a
<1> QED BY <1>2, <1>3

\* Taking the first message leaves the last word what it was.
LEMMA LastStays ==
  ASSUME NEW s \in Seq(Intent), s # << >>
  PROVE  IF Tail(s) = << >> THEN Head(s) = s[Len(s)]
                            ELSE Tail(s)[Len(Tail(s))] = s[Len(s)]
<1>1. Len(s) \in Nat /\ Len(s) # 0 /\ Tail(s) \in Seq(Intent) /\ Len(Tail(s)) = Len(s) - 1
  OBVIOUS
<1>2. CASE Tail(s) = << >>
  <2>1. Len(s) = 1
    BY <1>1, <1>2, NoWords
  <2> QED BY <1>2, <2>1
<1>3. CASE Tail(s) # << >>
  <2>1. Len(s) > 1
    BY <1>1, <1>3, NoWords
  <2>2. Tail(s)[Len(s) - 1] = s[Len(s)]
    BY <1>1, <2>1
  <2> QED BY <1>1, <1>3, <2>2
<1> QED BY <1>2, <1>3

\* What a step makes of the last word of p to x.
Hears(x, p) ==
  \/ chan'[p][x] # << >> /\ chan'[p][x][Len(chan'[p][x])] = mine'[p]
  \/ chan'[p][x] = chan[p][x] /\ EntryKept(x, p)
  \/ /\ chan[p][x] # << >> /\ chan'[p][x] = Tail(chan[p][x])
     /\ claims'[x][p].msg = Head(chan[p][x])
  \/ chan'[p][x] = << >> /\ claims'[x][p].age = "none"

LEMMA WordHeard ==
  ASSUME TypeOK, TypeOK', "loss" \notin Events,
         NEW r \in Robot, Tick(r) \/ ClosePartial(r) \/ World(r),
         NEW x \in Robot, NEW p \in Robot \ {x}
  PROVE  Hears(x, p)
<1> USE DEF TypeOK, ClaimTypeOK, ChannelTypeOK
<1>1. CASE Restart(r)
  BY <1>1 DEF Restart, NoClaims, NoClaim, Hears, EntryKept
<1>2. ASSUME NEW q \in Robot \ {r}, Deliver(q, r)
      PROVE  Hears(x, p)
  <2>1. CASE x = r /\ p = q
    BY <1>2, <2>1 DEF Deliver, OnIntent, Hears
  <2>2. CASE ~ (x = r /\ p = q)
    <3>1. claims'[x][p] = claims[x][p]
      BY <1>2, <2>2 DEF Deliver, OnIntent
    <3>2. chan'[p][x] = chan[p][x]
      BY <1>2, <2>2 DEF Deliver
    <3> QED BY <3>1, <3>2 DEF Hears, EntryKept
  <2> QED BY <2>1, <2>2
<1>3. ASSUME NEW q \in Robot \ {r}
      PROVE  ~ Lose(q, r)
  BY DEF Lose, Happens
<1>4. CASE ~ Restart(r) /\ \A q \in Robot \ {r} : ~ Deliver(q, r)
  <2>1. (chan' = chan \/ Publish(r, mine'[r])) /\ EntryKept(x, p)
    BY <1>3, <1>4, QuietStep
  <2>2. CASE p = r /\ Publish(r, mine'[r])
    <3>1. chan'[p][x] = KeepLast(Append(chan[p][x], mine'[p]))
      BY <2>2 DEF Publish
    <3>2. chan[p][x] \in Seq(Intent) /\ mine'[p] \in Intent
      OBVIOUS
    <3> QED BY <3>1, <3>2, KeepLastEnds DEF Hears
  <2>3. CASE p # r \/ chan' = chan
    BY <2>1, <2>3 DEF Publish, Hears
  <2> QED BY <2>1, <2>2, <2>3
<1> QED BY <1>1, <1>2, <1>4

LEMMA NewsStep ==
  ASSUME TypeOK, TypeOK', "loss" \notin Events, NewsIsTrue,
         NEW r \in Robot, Tick(r) \/ ClosePartial(r) \/ World(r)
  PROVE  NewsIsTrue'
<1> USE DEF TypeOK, ClaimTypeOK, ChannelTypeOK
<1> SUFFICES ASSUME NEW x \in Robot, NEW p \in Robot \ {x}, have'[p]
             PROVE  \/ chan'[p][x] = << >> /\ claims'[x][p].age = "none"
                    \/ SameClaim(LastWord(p, x)', mine'[p])
  BY DEF NewsIsTrue
<1>1. chan[p][x] \in Seq(Intent)
  OBVIOUS
<1>2. LastWord(p, x)' =
        IF chan'[p][x] = << >> THEN claims'[x][p].msg ELSE chan'[p][x][Len(chan'[p][x])]
  BY DEF LastWord
<1>3. Hears(x, p)
  BY WordHeard
<1>4. CASE chan'[p][x] # << >> /\ chan'[p][x][Len(chan'[p][x])] = mine'[p]
  BY <1>2, <1>4 DEF SameClaim
<1>5. CASE chan'[p][x] = << >> /\ claims'[x][p].age = "none"
  BY <1>5
<1>6. CASE ~ (chan'[p][x] # << >> /\ chan'[p][x][Len(chan'[p][x])] = mine'[p])
  <2>1. have[p] /\ SameClaim(mine'[p], mine[p])
    <3>1. CASE p = r
      <4>1. ~ Publish(r, mine'[r])
        <5>1. ASSUME Publish(r, mine'[r])
              PROVE  chan'[p][x] = KeepLast(Append(chan[p][x], mine'[p]))
          BY <3>1, <5>1 DEF Publish
        <5>2. mine'[p] \in Intent
          OBVIOUS
        <5> QED BY <1>1, <1>6, <5>1, <5>2, KeepLastEnds
      <4> QED BY <3>1, <4>1, OwnWord DEF Speaks
    <3>2. CASE p # r
      BY <3>2, OthersKeep DEF SameRobot, SameClaim
    <3> QED BY <3>1, <3>2
  <2>2. \/ chan[p][x] = << >> /\ claims[x][p].age = "none"
        \/ SameClaim(LastWord(p, x), mine[p])
    BY <2>1 DEF NewsIsTrue
  <2>3. \A m : SameClaim(m, mine[p]) => SameClaim(m, mine'[p])
    BY <2>1 DEF SameClaim
  <2>4. CASE chan'[p][x] = chan[p][x] /\ EntryKept(x, p)
    <3>1. \/ chan'[p][x] = << >> /\ claims'[x][p].age = "none"
          \/ LastWord(p, x)' = LastWord(p, x) /\ SameClaim(LastWord(p, x), mine[p])
      BY <1>2, <2>2, <2>4 DEF EntryKept, LastWord
    <3> QED BY <2>3, <3>1
  <2>5. CASE /\ chan[p][x] # << >> /\ chan'[p][x] = Tail(chan[p][x])
             /\ claims'[x][p].msg = Head(chan[p][x])
    <3>1. LastWord(p, x)' = chan[p][x][Len(chan[p][x])]
      BY <1>1, <1>2, <2>5, LastStays
    <3>2. LastWord(p, x)' = LastWord(p, x)
      BY <2>5, <3>1 DEF LastWord
    <3> QED BY <2>2, <2>3, <2>5, <3>2
  <2> QED BY <1>3, <1>5, <1>6, <2>4, <2>5 DEF Hears
<1> QED BY <1>4, <1>5, <1>6

\* What a robot has heard last of a peer is what the peer still claims, unless the
\* peer has dropped the claim or the middleware has lost one: every change of the
\* claim in memory is published with it (broadcastIntent, heartbeatTick,
\* onPeerIntent), through full histories, restarts and starved executors.
THEOREM NewsIsAlwaysTrue ==
  ASSUME "loss" \notin Events
  PROVE  Spec => []NewsIsTrue
<1>1. Init => NewsIsTrue
  BY DEF Init, NewsIsTrue
<1>2. TypeOK /\ TypeOK' /\ NewsIsTrue /\ [Next]_vars => NewsIsTrue'
  <2> SUFFICES ASSUME TypeOK, TypeOK', NewsIsTrue, [Next]_vars
               PROVE  NewsIsTrue'
    OBVIOUS
  <2>1. CASE UNCHANGED vars
    BY <2>1 DEF vars, planVars, claimVars, NewsIsTrue, LastWord
  <2>2. ASSUME NEW r \in Robot, Tick(r) \/ ClosePartial(r) \/ World(r)
        PROVE  NewsIsTrue'
    BY <2>2, NewsStep
  <2> QED BY <2>1, <2>2 DEF Next, World
<1> QED BY <1>1, <1>2, TypeCorrect, PTL DEF Spec

----------------------------------------------------------------------------
\* r is on its way to the ring it claims, unless it says it has arrived.
OnItsWay(r) == have[r] /\ mine[r].exploit /\ ~ mine[r].staged => Coming(r, mine[r].target)

LEMMA OwnWay ==
  ASSUME TypeOK, NEW r \in Robot, OnItsWay(r), Tick(r) \/ ClosePartial(r) \/ World(r)
  PROVE  OnItsWay(r)'
<1> USE DEF TypeOK, PlannerTypeOK, ClaimTypeOK, OnItsWay, Coming, GoTo
<1>a. ASSUME NEW m, Announce(r, m)
      PROVE  mine'[r] = m
  BY <1>a DEF Announce
<1>b. Release(r) => ~ have'[r]
  BY DEF Release
<1>c. \A g, p : ~ PlainIntent(g, p).exploit
  BY DEF PlainIntent, BuildIntent
<1>1. CASE Explore(r) \/ Finish(r)
  BY <1>1, <1>a, <1>b, <1>c
  DEF Explore, StartExploreHop, EndExploreHop, Engage, FinishExploring, Finish, LogStep,
      SpendBudget, StartReturnToAnchor, FinishDone, TeamReconnects, RendezvousExpires,
      claimVars, planVars
<1>2. CASE CloseComplete(r) \/ ClosePartial(r)
  BY <1>2, <1>b DEF CloseComplete, ClosePartial, CloseTarget
<1>3. CASE Hold(r)
  <2> PICK t \in Target :
        LET mask == Planned(r, t).rec[t].mask
        IN  IF ~ have[r] \/ ~ mine[r].staged \/ mine[r].target # t
              THEN Announce(r, BuildIntent(held[r], loc[r], TRUE, t, mask, TRUE))
              ELSE mine' = [mine EXCEPT ![r].mask = mask]
    BY <1>3 DEF Hold
  <2>1. CASE ~ have[r] \/ ~ mine[r].staged \/ mine[r].target # t
    BY <1>a, <2>1 DEF BuildIntent
  <2>2. CASE ~ (~ have[r] \/ ~ mine[r].staged \/ mine[r].target # t)
    <3>1. mine'[r] = [mine[r] EXCEPT !.mask = Planned(r, t).rec[t].mask]
      BY <2>2
    <3>2. mine'[r].staged
      BY <2>2, <3>1 DEF Intent
    <3> QED BY <3>2
  <2> QED BY <2>1, <2>2
<1>4. ASSUME NEW t \in Target, NEW g, StartExploitNavigate(r, t, g)
      PROVE  OnItsWay(r)'
  <2>1. mine'[r] = BuildIntent(g, loc[r], TRUE, t, Planned(r, t).rec[t].mask, FALSE)
    BY <1>4, <1>a DEF StartExploitNavigate
  <2>2. mine'[r].exploit /\ mine'[r].target = t /\ pstate'[r] = "NAVIGATE"
    BY <1>4, <2>1 DEF StartExploitNavigate, BuildIntent
  <2> QED BY <2>2
<1>5. CASE SelectVantage(r) \/ SelectApproach(r)
  BY <1>4, <1>5 DEF SelectVantage, SelectApproach
<1>6. CASE RetryPlan(r) \/ BarrierOpens(r) \/ BarrierTimesOut(r)
  BY <1>6 DEF RetryPlan, BarrierOpens, BarrierTimesOut, claimVars
<1>7. CASE GoalBlocked(r) \/ YieldVantage(r) \/ ArriveApproach(r) \/ FailGoal(r)
  BY <1>7, <1>b
  DEF GoalBlocked, YieldVantage, ArriveApproach, FailGoal, claimVars
<1>8. CASE ArriveVantage(r)
  <2>1. CASE have[r]
    <3>1. mine'[r] = [mine[r] EXCEPT !.staged = TRUE]
      BY <1>8, <1>a, <2>1 DEF ArriveVantage
    <3> QED BY <3>1 DEF Intent
  <2>2. CASE ~ have[r]
    BY <1>8, <2>2 DEF ArriveVantage
  <2> QED BY <2>1, <2>2
<1>9. CASE CompleteDwell(r)
  <2> PICK S : IF have[r] THEN Announce(r, [mine[r] EXCEPT !.mask = S])
                          ELSE UNCHANGED << mine, have, chan >>
    BY <1>9 DEF CompleteDwell
  <2>1. ~ (have[r] /\ mine[r].exploit /\ ~ mine[r].staged)
    BY <1>9 DEF CompleteDwell
  <2>2. CASE have[r]
    <3>1. mine'[r] = [mine[r] EXCEPT !.mask = S]
      BY <1>a, <2>2
    <3>2. mine'[r].exploit = mine[r].exploit /\ mine'[r].staged = mine[r].staged
      BY <3>1 DEF Intent
    <3> QED BY <2>1, <2>2, <3>2
  <2>3. CASE ~ have[r]
    BY <2>3
  <2> QED BY <2>2, <2>3
<1>10. CASE Heartbeat(r)
  <2>1. have[r] /\ mine'[r] = [mine[r] EXCEPT !.pos = loc[r]] /\ pstate' = pstate
    BY <1>10, <1>a DEF Heartbeat, Beating, planVars
  <2>2. /\ mine'[r].exploit = mine[r].exploit /\ mine'[r].staged = mine[r].staged
        /\ mine'[r].target = mine[r].target
    BY <2>1 DEF Intent
  <2> QED BY <2>1, <2>2
<1>11. CASE Restart(r)
  BY <1>11 DEF Restart
<1>12. CASE World(r) /\ ~ Heartbeat(r) /\ ~ Restart(r)
  BY <1>12 DEF World, IngestTarget, Drive, Deliver, Lose, ClaimAges, claimVars, planVars
<1> QED
  BY <1>1, <1>2, <1>3, <1>5, <1>6, <1>7, <1>8, <1>9, <1>10, <1>11, <1>12
  DEF Tick, Plan, Navigate, Dwell

LEMMA WayStep ==
  ASSUME TypeOK, UnstagedIsComing, [Next]_vars
  PROVE  UnstagedIsComing'
<1>1. CASE UNCHANGED vars
  BY <1>1 DEF vars, planVars, claimVars, UnstagedIsComing, Coming
<1>2. ASSUME NEW r \in Robot, Tick(r) \/ ClosePartial(r) \/ World(r)
      PROVE  UnstagedIsComing'
  <2>1. OnItsWay(r)'
    BY <1>2, OwnWay DEF UnstagedIsComing, OnItsWay
  <2>2. \A x \in Robot \ {r} : mine'[x] = mine[x] /\ have'[x] = have[x] /\ pstate'[x] = pstate[x]
    BY <1>2, OthersKeep DEF SameRobot
  <2> QED BY <2>1, <2>2 DEF UnstagedIsComing, OnItsWay, Coming
<1> QED BY <1>1, <1>2 DEF Next, World

\* Nobody hears itself.
LEMMA SelfStep ==
  ASSUME TypeOK, NotItself, [Next]_vars
  PROVE  NotItself'
<1> USE DEF TypeOK, ClaimTypeOK
<1>1. CASE UNCHANGED vars
  BY <1>1 DEF vars, claimVars, NotItself
<1>2. ASSUME NEW r \in Robot, Tick(r) \/ ClosePartial(r) \/ World(r)
      PROVE  NotItself'
  <2>1. CASE Restart(r)
    BY <2>1 DEF Restart, NoClaims, NoClaim, NotItself
  <2>2. ASSUME NEW q \in Robot \ {r}, Deliver(q, r) \/ Lose(q, r)
        PROVE  NotItself'
    <3>1. CASE Deliver(q, r)
      <4>1. \A m : OnIntent(claims[r], q, m)[r] = claims[r][r]
        BY DEF OnIntent
      <4>2. PICK m : claims' = [claims EXCEPT ![r] = OnIntent(@, q, m)]
        BY <3>1 DEF Deliver
      <4> QED BY <4>1, <4>2 DEF NotItself
    <3>2. CASE Lose(q, r)
      BY <3>2 DEF Lose, NotItself
    <3> QED BY <2>2, <3>1, <3>2
  <2>3. CASE ~ Restart(r) /\ \A q \in Robot \ {r} : ~ Deliver(q, r) /\ ~ Lose(q, r)
    <3>1. \A x \in Robot : EntryKept(x, x)
      BY <1>2, <2>3, QuietStep
    <3> QED BY <3>1 DEF EntryKept, NotItself
  <2> QED BY <2>1, <2>2, <2>3
<1> QED BY <1>1, <1>2 DEF Next, World

LEMMA WaitsForComers ==
  ASSUME TypeOK, GoalIsActive, NewsIsTrue, UnstagedIsComing, NotItself
  PROVE  BarrierWaitsForComers
<1> USE DEF TypeOK, PlannerTypeOK, ClaimTypeOK
<1> SUFFICES ASSUME NEW r \in Robot, NEW p \in Robot, pstate[r] = "EXPLOIT_DWELL",
                    p \in UnstagedExploitPeers(claims[r], goal[r][1]),
                    chan[p][r] = << >>, Beating(p)
             PROVE  Coming(p, goal[r][1])
  BY DEF BarrierWaitsForComers
<1> DEFINE c == claims[r][p]
<1>1. /\ c.age = "live" /\ c.msg.exploit /\ c.msg.target = goal[r][1] /\ ~ c.msg.staged
  BY DEF UnstagedExploitPeers, ExploitPeers, Live
<1>2. r # p /\ have[p]
  BY <1>1 DEF NotItself, Beating
<1>3. SameClaim(c.msg, mine[p])
  BY <1>1, <1>2 DEF NewsIsTrue, LastWord
<1>4. c.msg \in Intent /\ mine[p] \in Intent
  BY DEF Claim
<1> HIDE DEF c
<1>5. mine[p].exploit /\ mine[p].target = goal[r][1] /\ ~ mine[p].staged
  BY <1>1, <1>3, <1>4, SameFields
<1> QED BY <1>2, <1>5 DEF UnstagedIsComing

\* The dwell barrier never closes a circle of robots at their barriers: short of a
\* lost claim, which the next beat repairs, the only peers a robot waits for at its
\* vantage are driving to the ring or planning short of it, silent and about to
\* expire, or have a claim in transit to it (unstagedExploitPeers, broadcastIntent
\* on arrival).
THEOREM BarrierNeverCircular ==
  ASSUME "loss" \notin Events
  PROVE  Spec => []BarrierWaitsForComers
<1>1. Init => UnstagedIsComing /\ NotItself
  BY DEF Init, UnstagedIsComing, NotItself, NoClaims, NoClaim
<1>2. TypeOK /\ UnstagedIsComing /\ [Next]_vars => UnstagedIsComing'
  BY WayStep
<1>3. TypeOK /\ NotItself /\ [Next]_vars => NotItself'
  BY SelfStep
<1>4. TypeOK /\ GoalIsActive /\ NewsIsTrue /\ UnstagedIsComing /\ NotItself
        => BarrierWaitsForComers
  BY WaitsForComers
<1> QED
  BY <1>1, <1>2, <1>3, <1>4, TypeCorrect, GoalAlwaysActive, NewsIsAlwaysTrue, PTL DEF Spec

=============================================================================
