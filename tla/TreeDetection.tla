--------------------------- MODULE TreeDetection ---------------------------
(***************************************************************************)
(* The tree detector node: every scan matches the trunks found in the map  *)
(* to tracks, feeds each track's emission gate and publishes a target for  *)
(* a tree that stays under-informed once the robot has passed it.          *)
(*                                                                         *)
(* The segmentation is abstract: a scan finds any set of trees, each at    *)
(* one of the centres its estimate may take, in any order.  A sector is    *)
(* the azimuth bin the robot sees the trunk from, and Verdict says what    *)
(* the information score may answer for a number of sectors.  Time is      *)
(* counted in periods of the scan timer.                                   *)
(***************************************************************************)
EXTENDS Integers, FiniteSets, Sequences

CONSTANTS
  Tree,         \* the real trunks
  Forests,      \* SUBSET SUBSET Tree: the trunks that may stand together
  Centre,       \* map positions
  Estimates,    \* [Tree -> SUBSET Centre]: where detect() may place a trunk
  Dist,         \* [Centre -> [Centre -> Nat]]: the distance of two positions
  MatchRadius,  \* track_match_radius_m
  CellOf,       \* [Centre -> CellId]: cellId
  CellId,       \* target ids
  Sector,       \* the n_azimuth_bins sectors around a trunk
  Verdict,      \* [Nat -> SUBSET BOOLEAN]: under-informed, by covered sectors
  UseBearing,   \* use_bearing_coverage
  ConfirmTicks, \* confirm_ticks
  SettleTicks,  \* bearing_settle_ticks
  TrackTimeout, \* track_timeout_sec, in scan periods
  Slot,         \* names for the members of tracks_
  NoTrack

ASSUME ForestAssumption == Forests \subseteq SUBSET Tree
ASSUME SectorAssumption == IsFiniteSet(Sector)
ASSUME EstimateAssumption == Estimates \in [Tree -> SUBSET Centre]
ASSUME DistAssumption ==
  /\ Dist \in [Centre -> [Centre -> Nat]]
  /\ \A c, d \in Centre : Dist[c][d] = Dist[d][c]
ASSUME VerdictAssumption == Verdict \in [0 .. Cardinality(Sector) -> SUBSET BOOLEAN]
ASSUME SettingAssumption ==
  /\ MatchRadius \in Nat /\ TrackTimeout \in Nat
  /\ ConfirmTicks \in Nat /\ SettleTicks \in Nat
  /\ UseBearing \in BOOLEAN
ASSUME CellAssumption == CellOf \in [Centre -> CellId]
\* The estimates of one tree drift by no more than the match radius.
ASSUME DriftAssumption ==
  \A t \in Tree : \A c, d \in Estimates[t] : Dist[c][d] <= MatchRadius

VARIABLES
  forest,   \* the trunks that stand here
  track,    \* tracks_, by slot
  emitted,  \* emitted_, with the tree each target was published for
  claimed,  \* claimed: the tracks taken by a detection of this scan
  pending,  \* the detections the running scan has still to handle
  pose,     \* robotXY had a transform for this scan
  scene,    \* history: the trees found in this period
  sighted,  \* history: the trees found by any scan
  row       \* history: how many of a tree's last readings were under-informed

vars == <<forest, track, emitted, claimed, pending, pose, scene, sighted, row>>

\* A track with its gate; "of" is history: the tree it was last matched to.
Track == [id : CellId, centre : Centre, age : 0 .. TrackTimeout + 1,
          mask : SUBSET Sector, confirm : 0 .. ConfirmTicks,
          settle : 0 .. SettleTicks, emitted : BOOLEAN, of : Tree]

ASSUME NoTrackAssumption == NoTrack \notin Track

Target == [id : CellId, centre : Centre, tree : Tree]

TypeOK ==
  /\ forest \in Forests
  /\ track \in [Slot -> Track \cup {NoTrack}]
  /\ emitted \in Seq(Target)
  /\ claimed \subseteq Slot
  /\ pending \subseteq scene /\ scene \subseteq sighted /\ sighted \subseteq forest
  /\ pose \in BOOLEAN
  /\ row \in [Tree -> 0 .. ConfirmTicks]

Init ==
  /\ forest \in Forests
  /\ track = [s \in Slot |-> NoTrack]
  /\ emitted = << >>
  /\ claimed = {}
  /\ pending = {} /\ scene = {} /\ sighted = {}
  /\ pose = FALSE
  /\ row = [t \in Tree |-> 0]

----------------------------------------------------------------------------
\* The emission gate.

\* Slip: the counter is never capped.
Uncapped(bound, n) == n + 1

\* n + 1, or n where no test can tell the two apart.
UpTo(bound, n) == IF n < bound THEN n + 1 ELSE n

\* Slip: the sector is tested but never recorded.
ObserveUnrecorded(g, k) ==
  [g EXCEPT !.settle = IF k \in g.mask THEN UpTo(SettleTicks, @) ELSE 0]

\* A sector the tree was not seen from yet restarts the settle countdown.
ObserveBearing(g, k) ==
  [g EXCEPT !.settle = IF k \in g.mask THEN UpTo(SettleTicks, @) ELSE 0,
            !.mask = @ \cup {k}]

Settled(g, hasBearing) == ~hasBearing \/ g.settle >= SettleTicks

\* Slip: a well-observed reading leaves the streak as it is.
StepKeepsStreak(g, needy, hasBearing) ==
  IF ~needy
    THEN g
    ELSE LET n == UpTo(ConfirmTicks, g.confirm)
         IN  [g EXCEPT !.confirm = n,
                       !.emitted = @ \/ (n >= ConfirmTicks /\ Settled(g, hasBearing))]

\* The gate after a reading: a well-observed one breaks the streak, an
\* under-informed one may be the one that emits.
StepEmitGate(g, needy, hasBearing) ==
  IF ~needy
    THEN [g EXCEPT !.confirm = 0]
    ELSE LET n == UpTo(ConfirmTicks, g.confirm)
         IN  [g EXCEPT !.confirm = n,
                       !.emitted = @ \/ (n >= ConfirmTicks /\ Settled(g, hasBearing))]

----------------------------------------------------------------------------
\* Matching a detection to a track.

Live == {s \in Slot : track[s] # NoTrack}

\* Slip: a track already taken by this scan can be taken again.
ClaimableAgain(c) == {s \in Live : Dist[track[s].centre][c] <= MatchRadius}

Claimable(c) ==
  {s \in Live \ claimed : Dist[track[s].centre][c] <= MatchRadius}

\* Of two tracks at the same distance either may be the match.
Nearest(c) ==
  {s \in Claimable(c) : \A u \in Claimable(c) :
     Dist[track[s].centre][c] <= Dist[track[u].centre][c]}

\* Slip: the list of emitted trees is never consulted.
EmittedNowhere(c) == {}

EmittedNear(c) ==
  {i \in DOMAIN emitted : Dist[emitted[i].centre][c] <= MatchRadius}

FreeSlot == CHOOSE s \in Slot : s \notin Live

\* The first emitted tree near c, 0 standing for none.
Previous(c) ==
  IF EmittedNear(c) = {} THEN {0}
  ELSE {i \in EmittedNear(c) : \A j \in EmittedNear(c) : i <= j}

\* A tree emitted under an earlier track keeps its id and stays emitted.
NewTrack(t, c, i) ==
  [id |-> IF i = 0 THEN CellOf[c] ELSE emitted[i].id, centre |-> c, age |-> 0,
   mask |-> {}, confirm |-> 0, settle |-> 0, emitted |-> i # 0, of |-> t]

\* The slot and the track that a detection of t at c continues or begins.
Matches(t, c) ==
  IF Claimable(c) # {} THEN {<<s, track[s]>> : s \in Nearest(c)}
  ELSE IF Live # Slot THEN {<<FreeSlot, NewTrack(t, c, i)>> : i \in Previous(c)}
  ELSE {}

----------------------------------------------------------------------------
\* scan, from the timer to the detections of the map.

Aged(g) == [g EXCEPT !.age = UpTo(TrackTimeout + 1, @)]

\* scan begins: stale tracks go, and the detections wait their turn.
BeginScan(S, hasPose) ==
  /\ pending = {}
  /\ hasPose => UseBearing
  /\ track' = [s \in Slot |->
                 IF s \in Live /\ Aged(track[s]).age <= TrackTimeout
                   THEN Aged(track[s]) ELSE NoTrack]
  /\ pending' = S /\ scene' = S
  /\ pose' = (hasPose /\ S # {})
  /\ sighted' = sighted \cup S
  /\ UNCHANGED <<forest, emitted, claimed, row>>

\* The map is empty or the clock is not up: time passes, nothing else.
SkipScan ==
  /\ pending = {}
  /\ track' = [s \in Slot |-> IF s \in Live THEN Aged(track[s]) ELSE NoTrack]
  /\ scene' = {}
  /\ UNCHANGED <<forest, emitted, claimed, pending, pose, sighted, row>>

\* The reading of g, seen from sector k when there is a pose.
Viewed(g, k) == IF pose THEN ObserveBearing(g, k) ELSE g

Readings(g) == IF pose THEN Verdict[Cardinality(g.mask)] ELSE BOOLEAN

\* The track as t is found at c, before the gate takes its step.
Seen(t, c, k, g) == [Viewed(g, k) EXCEPT !.centre = c, !.age = 0, !.of = t]

\* One turn of scan's loop: tree t is found at c.
Observe(t, c, k) ==
  \E m \in Matches(t, c) : \E needy \in Readings(Viewed(m[2], k)) :
    LET after == StepEmitGate(Seen(t, c, k, m[2]), needy, pose)
    IN  /\ t \in pending
        /\ track' = [track EXCEPT ![m[1]] = after]
        /\ emitted' = IF after.emitted /\ ~m[2].emitted
                        THEN Append(emitted, [id |-> after.id, centre |-> c, tree |-> t])
                        ELSE emitted
        /\ pending' = pending \ {t}
        /\ claimed' = IF pending' = {} THEN {} ELSE claimed \cup {m[1]}
        /\ pose' = (pose /\ pending' # {})
        /\ row' = [row EXCEPT ![t] = IF needy THEN UpTo(ConfirmTicks, @) ELSE 0]
        /\ UNCHANGED <<forest, scene, sighted>>

Scan == \E S \in SUBSET forest, hasPose \in BOOLEAN : BeginScan(S, hasPose)

HandleDetection ==
  \E t \in pending : \E c \in Estimates[t], k \in Sector : Observe(t, c, k)

Next == Scan \/ SkipScan \/ HandleDetection

Spec == Init /\ [][Next]_vars

\* The scan timer keeps firing on a map that is not empty.
FairSpec == Spec /\ WF_vars(Scan) /\ WF_vars(HandleDetection)

----------------------------------------------------------------------------
Apart(t, u) ==
  \A c \in Estimates[t], d \in Estimates[u] : Dist[c][d] > MatchRadius

\* No tree found so far stands within the match radius of t.
Alone(t) == \A u \in sighted \ {t} : Apart(t, u)

Published(t) == \E i \in DOMAIN emitted : emitted[i].tree = t

\* A tree is published once: losing the track, a drift of its centre across
\* an id cell or a new track never publish it again (tree_detector_node.cpp,
\* the comment of Emitted).
EmitOnce ==
  \A i, j \in DOMAIN emitted :
    emitted[i].tree = emitted[j].tree /\ Alone(emitted[i].tree) => i = j

\* A tree is published only when its last confirm_ticks readings, in as many
\* scans, were all under-informed (stepEmitGate).
ConfirmedInARow ==
  [][\A t \in Tree :
       /\ Alone(t)'
       /\ Len(emitted') > Len(emitted) /\ emitted'[Len(emitted')].tree = t
       => row'[t] = ConfirmTicks]_vars

\* From here on t is found by every scan and always reads under-informed.
StaysNeedy(t) == [](t \in scene /\ (t \notin pending => row[t] > 0))

\* Deferring a target until the bearings have settled never defers it for
\* ever: a tree that stays in the map and under-informed is published.
EventuallyNominated ==
  \A t \in Tree : []Alone(t) /\ <>StaysNeedy(t) => <>Published(t)

\* At most one detection claims a track per scan: two trunks within one match
\* radius never share one, and no streak counts one scan twice (scan).
EachItsOwnTrack ==
  pending = {} =>
    Cardinality({s \in Live : track[s].age = 0}) = Cardinality(scene)

\* EmitGate: "emitted" says that a target was published for this tree.
EmittedMeansPublished ==
  \A s \in Live : track[s].emitted => Published(track[s].of)
=============================================================================
