---------------------------- MODULE Coordination ---------------------------
(***************************************************************************)
(* The claim table one planner keeps about its teammates and the rules by  *)
(* which robots share goals without a leader (coordination.cpp, with the   *)
(* vantage veto of explo_planner_node.cpp that combines them).             *)
(*                                                                         *)
(* Geometry is reduced to what the rules compare.  A place is a vantage    *)
(* (a spot: one ring angle of one target) or a waypoint; Dist orders       *)
(* places by distance to a spot, and the two discs say which spots a       *)
(* claim on a place covers at the vantage scale and at the exploration     *)
(* scale.  A claim's age stands for the comparison of its expiry with the  *)
(* local clock: live within the TTL, graced within the retention window    *)
(* that follows for exploit claims, expired once past both and still in    *)
(* the table because nothing has pruned it.  The table is a vector in the  *)
(* order in which peers were first heard; what that order decides, which   *)
(* peers came before, is kept with each claim.                             *)
(***************************************************************************)
EXTENDS TrunkRing

CONSTANTS
  Robot,        \* robots, numbered in the lexicographic order of their names
  Waypoint,     \* the other places a robot can stand at or drive to
  Home,         \* the waypoint every robot starts from
  Dist,         \* Dist[p][s]: distance from place p to spot s
  VantageDisc,  \* VantageDisc[p]: spots within coord_vantage_claim_radius_m
  ExploreDisc   \* ExploreDisc[p]: spots within coord_claim_radius_m

Place == Spot \cup Waypoint

ASSUME RobotAssumption == Robot \subseteq Nat /\ IsFiniteSet(Robot)
ASSUME PlaceAssumption == Home \in Waypoint /\ Waypoint \cap Spot = {}
ASSUME GeometryAssumption ==
  /\ Dist \in [Place -> [Spot -> Nat]]
  /\ VantageDisc \in [Place -> SUBSET Spot]
  /\ ExploreDisc \in [Place -> SUBSET Spot]

Intent == [exploit : BOOLEAN, target : Target \cup {NoTarget}, goal : Place,
           pos : Place, mask : SUBSET Angle, staged : BOOLEAN]

Age   == {"none", "live", "graced", "expired"}
Claim == [msg : Intent, age : Age, before : SUBSET Robot]

\* Slip: every exploit claim is built staged.
BuildIntentStaged(goal, pos, exploit, target, mask, staged) ==
  [exploit |-> exploit, target |-> target, goal |-> goal, pos |-> pos,
   mask |-> mask, staged |-> exploit]

BuildIntent(goal, pos, exploit, target, mask, staged) ==
  [exploit |-> exploit, target |-> target, goal |-> goal, pos |-> pos,
   mask |-> mask, staged |-> staged]

\* The claim shape of exploration, of the drive home and of a fresh message.
PlainIntent(goal, pos) == BuildIntent(goal, pos, FALSE, NoTarget, {}, FALSE)

NoClaim  == [msg |-> PlainIntent(Home, Home), age |-> "none", before |-> {}]
NoClaims == [p \in Robot |-> NoClaim]

----------------------------------------------------------------------------
Live(c)     == c.age = "live"
Retained(c) == c.age \in {"live", "graced"}
Stored(c)   == c.age # "none"

\* The latest message of a peer replaces its claim where it stands in the table,
\* or is appended, and restarts its TTL.
OnIntent(table, p, m) ==
  [table EXCEPT ![p] =
     [msg |-> m, age |-> "live",
      before |-> IF Stored(table[p]) THEN table[p].before
                                     ELSE {q \in Robot : Stored(table[q])}]]

\* The next threshold a claim crosses when its peer is not heard: exploit
\* claims have the grace window, others expire at once.
Older(c) ==
  [c EXCEPT !.age = IF @ = "live" /\ c.msg.exploit THEN "graced" ELSE "expired"]

\* The claims past their retention go; the others keep their order.
Prune(table) ==
  LET kept == {p \in Robot : Retained(table[p])}
  IN  [p \in Robot |->
         IF p \in kept THEN [table[p] EXCEPT !.before = @ \cap kept] ELSE NoClaim]

LivePeerCount(table) == Cardinality({p \in Robot : Live(table[p])})

----------------------------------------------------------------------------
\* Slip: the order without its tiebreak.
CloserOrEqualWins(self, pos, s, p, m) == Dist[pos][s] =< Dist[m.pos][s]

\* MinPos: strictly closer wins, equal distance goes to the smaller name.
SelfWinsAgainst(self, pos, s, p, m) ==
  \/ Dist[pos][s] < Dist[m.pos][s]
  \/ Dist[pos][s] = Dist[m.pos][s] /\ self < p

Disc(m) == IF m.exploit THEN VantageDisc[m.goal] ELSE ExploreDisc[m.goal]

Contesting(table, s) == {p \in Robot : Stored(table[p]) /\ s \in Disc(table[p].msg)}

\* Of several peers contesting s the one standing closest is consulted, at
\* equal distances the one that has been in the table longest.
ClaimMatching(table, s, p) ==
  LET d(q) == Dist[table[q].msg.pos][s]
  IN  /\ p \in Contesting(table, s)
      /\ \A q \in Contesting(table, s) \ {p} :
           d(p) < d(q) \/ (d(p) = d(q) /\ p \in table[q].before)

ExploitPeers(table, t) ==
  {p \in Robot : /\ Stored(table[p])
                 /\ table[p].msg.exploit
                 /\ table[p].msg.target = t}

PeerDwellUnion(table, t) ==
  UNION {table[p].msg.mask : p \in ExploitPeers(table, t)}

\* Slip: expiry left to prune(), which does not run during a dwell.
UnstagedStoredPeers(table, t) ==
  {p \in ExploitPeers(table, t) : ~ table[p].msg.staged}

\* Peers that hold the dwell barrier: heard within the TTL, on this trunk and
\* not standing on the vantage they claim.
UnstagedExploitPeers(table, t) ==
  {p \in ExploitPeers(table, t) : Live(table[p]) /\ ~ table[p].msg.staged}

\* Slip: parked peers are not contested.
NoStagedPeers(table, t, s, self, pos) == {}

\* Parked peers that win spot s from a standstill.
StagedExploitPeersWinning(table, t, s, self, pos) ==
  {p \in ExploitPeers(table, t) :
     /\ Retained(table[p])
     /\ table[p].msg.staged
     /\ ~ SelfWinsAgainst(self, pos, s, p, table[p].msg)}

\* A spot is denied to this robot by a claim on it (outright by an exploit
\* claim on the same trunk, by distance otherwise) or by a parked peer.
VantageVetoedByPeers(table, t, s, self, pos) ==
  \/ \E p \in Robot :
       /\ ClaimMatching(table, s, p)
       /\ \/ table[p].msg.exploit /\ table[p].msg.target = t
          \/ ~ SelfWinsAgainst(self, pos, s, p, table[p].msg)
  \/ StagedExploitPeersWinning(table, t, s, self, pos) # {}

=============================================================================
