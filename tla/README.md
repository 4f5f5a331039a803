# explo_planner in TLA+

`explo_planner` drives several ground robots that explore a forest plot together
and then *exploit* it: trees that were seen badly become targets, each target
gets a ring of vantage poses around the trunk, and the robots share the ring, one
angle each, until enough clear views exist. There is no leader. Every robot runs
its own planner node, and all they exchange is a broadcast claim (`RobotIntent`).

This directory models that coordination, checks it with TLC on small teams and
proves the main results for every size with TLAPS. `src/...` paths below are those
of the repository.

## 1. Inventory

| Component | State | Operations | Talks to |
|---|---|---|---|
| **Planner node** `explo_planner_node.cpp` | `state_` (12 states), `phase_`, current goal, current claim, target queue, claim table, dwell barrier latches, proximity hold, timers, step counter, coverage streak, blacklist, anchor | 10 Hz `tick`, 1 Hz `heartbeatTick`, callbacks for map, intents, targets, peer poses | everything below; nav2 by goal topic and cancel service |
| **Target queue** `target_queue.cpp` | targets in arrival order, ACTIVE slot; per target status, credited ring indices, dwell counter, visited poses | ingest, activate, deactivate, markActiveDone, recordVantageDwell, mergePeerDwells, queries | owned by a planner |
| **Coordination** `coordination.cpp` | newest claim of each peer with its expiry | onIntent, prune, claimMatching, selfWinsAgainst, peerDwellUnion, staged-peer queries, buildIntent | owned by a planner; fed by the intent topic |
| **Vantage planner** `vantage_planner.cpp` | none | the ring of a trunk, snapping, line of sight | called by the planner |
| **Proximity guard** `proximity_guard.cpp` | a track per peer: pose, last seen, last moved | onPeerPose, evaluate | fed by heartbeats and localiser topics; asked by `tick` |
| **Rendezvous** (node, `planner_util.cpp`) | anchor, expected team size, wait start | finishOrRendezvous, doReturnNav, doReturnSync | counts live claims |
| **Exploration loop** (node, `candidate_generator`, `fov_evaluator`, `scoring`, `plan_map_query`) | coverage streak, step counter | doPlan, doNavigate, doIntegrate, doLogStep | nav2, metrics log |
| **Failed-goal blacklist** `failed_goal_blacklist.cpp` | failed goals with their times | add, prune, isNear | written by `failGoal`, pruned and read by PLAN and EXPLOIT_PLAN |
| **Map cache** `map_cache.cpp` with `loadLatestMap` (node) | a copy of the voxel map, clipped to a band of heights around the robot; last message, band, robot's height at the last re-band | updateFromScovoxMap, groundZAt, frontier centroids, statistics | fed by the map topic; read by PLAN, EXPLOIT_PLAN, the end of a dwell and the candidate generator |
| **Cost grid** `cost_grid.cpp` | obstacle layer, path costs, parents | build, floodFrom, extractPath | one grid, flooded by PLAN and by EXPLOIT_PLAN |
| **Refinement regions** (node) | none: the mapper keeps them | publishRefinementRegion, removeLiveRefinementRegions | armed and removed with the target queue |
| **Tree detector** `tree_detector_node.cpp`, `tree_detector.cpp` | tracks with their emit gates, emitted trees | scan of the fused map every 2 s | publishes `TreeTarget` |
| **Target scheduler** `target_scheduler_node.cpp` | release flags, schedule origin | tick every 0.5 s | publishes `TreeTarget` |

Each node runs a single-threaded executor: a tick or a callback runs to its end,
so the interleavings are those of whole handlers of different robots, of the
messages between them, and of nav2, which keeps driving the last goal it accepted
whatever the planner does next.

What is hard here, and what makes each part correct:

* *Target queue*: credit is merged from stale and repeated masks by two paths; each
  angle must count once, and the ACTIVE slot, the statuses and the node's state
  must agree through closes, stand-downs and resumes.
* *Claims*: they age, are lost, are overtaken, and are reused by code paths that did
  not build them. A claim must be true of its producer; of two robots that
  contest an angle exactly one may yield; parked robots must split a ring with
  no further message.
* *Dwell barrier*: waits without a bound for other robots' flags; must never deadlock.
* *Quota and closing*: no credit is made up; COMPLETE means enough clear views; every
  target closes in the end.
* *Crash*: nothing is persisted; a restarted planner must not corrupt its peers.
* *Proximity hold*: interrupts a drive, cancels nav2 asynchronously, must come back to the
  same drive with the same time budget, must not chatter, must end.
* *Rendezvous*: robots that finish at different times must still be counted.
* *Exploration loop*: the coverage streak, the blacklist and the step budget must hold
  across every detour (a target mid-hop, a barrier, a wake-up in DONE); regions armed
  at the mapper must follow the queue.
* *Cost grid*: a bounded and an unbounded flood share one grid, and the second is cached.
* *Map cache*: what a planner knows of the ground is a copy cut around the place where it last loaded
  the map. The cut must not change the ground that is found, nor leave a sightline outside.
* *Detector and scheduler*: each tree is released once, under one id, when it is due, and
  reaches planners that join early, late or after they are done.

`PROJECT.json` lists every hazard at its line with the properties that cover it.

## 2. Modules

| Module | Models |
|---|---|
| `TrunkRing` | what robots share without talking: target ids, ring indices, which ids are one tree |
| `TargetQueue` | the target queue, as operators on a queue record |
| `Coordination` | the claim table, MinPos, the vantage veto, as operators on a claim table |
| `VantageRing` | the planners, composed of a queue and a claim table each, over a lossy broadcast |
| `TeamCapture` | the abstract specification: earning, learning and closing, no messages |
| `ExplorationLoop` | the outer loop of a team's planners: hops, blacklist, budget, streak, regions, barrier, DONE |
| `TargetScheduler` | the node that releases preselected targets on a simulated clock |
| `Mission` | the composition: scheduler, latched topic, planners that start when they like |
| `CostGrid` | the flood, the path extraction and the cache of the shared grid |
| `TerrainMap` | the voxel map in terrain mode: ingest, clip, re-banding, the search for the ground and the heights that follow from it |
| `ProximityGuard` | the arbiter and the hold around a drive, with time |
| `TreeDetection` | one tree detector node: tracks, emission gate, emitted list |
| `MCVantageRing`, `MCMission`, `MCPlannerMaps`, `MCProximityGuard`, `MCTreeDetection` | small worlds for TLC |
| `TargetQueueProofs`, `VantageRingProofs`, `RingSharingProofs`, `ExplorationLoopProofs`, `MissionProofs`, `ProximityGuardProofs`, `TreeDetectionProofs`, `PlannerMapsProofs` | the theorems |

A definition that starts with a comment `Slip:` is a deliberately wrong variant of
the definition after it. No specification uses it; it documents which mistake a
property would expose.

### VantageRing

One action is one tick or callback of one node. Planner states keep their names,
with three merges: `EXPLORE` is WAIT_FOR_MAP, PLAN, NAVIGATE, INTEGRATE and LOG_STEP of the
exploration phase (a hop is in flight exactly when a claim is held), `LOG_STEP`
is INTEGRATE and LOG_STEP of the exploitation phase, `RETURN` is RETURN_NAV and
RETURN_SYNC. A proximity hold only delays a drive.

| Variable | Member |
|---|---|
| `pstate` | `state_` with `phase_` |
| `queue` | `target_queue_` |
| `goal`, `held` | `current_goal_`, `held_vantage_pose_` |
| `mine`, `have` | `current_intent_msg_`, `have_active_intent_` |
| `barrier` | `dwell_sync_started_`, `dwell_sync_timed_out_` |
| `claims` | `coord_->claims_` |
| `chan` | the intent topic, reliable and keep-last of depth `Depth` |
| `loc`, `nav` | the platform and the goal nav2 pursues |
| `captured`, `outcome` | history: who saw what, how targets were closed |

Data are reduced to what the rules compare. A place is a spot (target, ring
index) or a waypoint. `Dist` orders places by distance to a spot; the discs say
which spots a claim covers. The age of a claim is the result of comparing its
expiry with the clock (live, graced, expired but not pruned). The table is a vector in the order
in which peers were first heard, and `claimMatching` keeps the first of several peers at one
distance; a claim carries the peers `before` it, which is all that order decides. Whether a spot can
be selected now (costmap, reachability, blacklist, line of sight) is open for the
spots in `Possible` and settled for those in `Sure`; a dwell on a spot outside
`Sure` may find the trunk occluded. Which of the valid vantages is nearest is
left open too, as is the exploration goal: the model allows every choice the
scoring could make. The same holds for the anchor of a rendezvous, the place where a
teammate was last heard.

`done_action` is `idle`, the mode in which a DONE planner can be woken by a
target; with `shutdown` the process ends, which is a robot that takes no further
step. The give-up timer, the barrier's and the rendezvous's maximum waits are
switches (`GiveUp`, `DwellMaxWait`, `ReturnMaxWait`; in `ExplorationLoop` the last is `setup.maxWait`): a timer that is on may fire
whenever the code tests it. The stop of `abandonNavGoal` publishes the robot's own place as the new goal, so `Brake` sets
`nav` at once; the cancel that goes with it lands later, and what that does to a resumed drive is
`ProximityGuard`'s subject.

World events (exploration hops, blocked and failed goals, lost messages, a
starved executor, a spent step budget, crashes) are bounded by `Budget` and
chosen by `Events`.

### ExplorationLoop

The same node seen from its outer loop. `VantageRing` has the ring protocol in full and
merges the exploration states; this module has the exploration states in full and merges
the ring: NAVIGATE of phase EXPLOIT covers the drive to a vantage and its dwell, and
`LOG_STEP` of that phase what follows. The two overlap in the target queue, which is the same
module `TargetQueue`, and in the promotion, close and stand-down of targets.

| Variable | Member |
|---|---|
| `pstate` | `state_`; `OFF` before the node is constructed, `STOPPING` once `shutdown_requested_` is set, `EXIT` after the shutdown |
| `phase`, `step`, `goal` | `phase_`, `step_`, `current_goal_` |
| `streak` | `coverage_done_streak_` |
| `failed`, `resting` | `failed_goals_`: what it blacklists, and what of it is younger than `failed_goal_ttl_sec` |
| `queue`, `giveup` | `target_queue_`, `exploit_target_timing_` with the time since it was armed |
| `armed` | the regions registered with the mapper |
| `have`, `heard` | `have_active_intent_`, the presence of each peer in the claim table |
| `anchor` | `have_anchor_` |
| `setup`, `linked`, `spent` | launch parameters, radio range, events used so far |
| `lately` | history: the coverage measurements PLAN made |

An entry of the blacklist is pruned by the code only in PLAN and EXPLOIT_PLAN, so an old entry goes on
blacklisting until one of them runs: that is why `failed` and `resting` are two variables.
A claim is live, expired but retained, or gone; PLAN and EXPLOIT_PLAN prune the table, the barrier
and DONE do not. `setup.events` bounds the world events of a behaviour (a blocked goal, a
failed vantage, a change of radio range); a failed exploration hop is never bounded.

### TargetScheduler and Mission

The scheduler's clock is simulated time: 0 until playback starts, then one of `Stamps`. Its first
tick with a running clock latches the origin, up to `Lag` clock steps late. Each tick publishes what is due, in
order, on a latched topic of depth `TopicDepth`. `Mission` joins each action of a component with
what it does to the topic: a planner that starts gets the latched history in its `inbox`, one
that is up gets what is published, the subscription no deeper than the topic, and the
callback takes one target at a time in whatever state the planner is.

### CostGrid

Cells are numbers, a map is its set of occupied cells, a step costs one of two integers in the
ratio of straight and diagonal. A tick runs alone on its node; the model splits it at the turns of
its loops, so that neither needs a recursion and both can be reasoned about.

| Variable | Member |
|---|---|
| `map`, `addr`, `pose` | what `latest_plan_map_` points to, its address, the robot's cell (or none: off the grid) |
| `tick` | the tick that runs: of PLAN, of EXPLOIT_PLAN, PLAN extracting a path, or none |
| `grid` | `blocked_`, `cost_`, `parent_` |
| `heap`, `route` | `pq` of `floodFrom`; the path `extractPath` has walked so far |
| `valid`, `key` | `exploit_flood_valid_`; `exploit_flood_map_` and `exploit_flood_pos_` |
| `flood`, `newer` | history: source and bound of the last flood; the maps that came since |

`Skip` and `Relax` are the turns of the flood's loop, with its lazy deletion; `WalkBack` is a turn of
`extractPath`. The `break` past the bound is never taken, since nothing past the bound is pushed.
Around them stands the cache of the node: PLAN floods within a bound and invalidates, EXPLOIT_PLAN
floods without one when the key (address of the map message, position within
`kFloodRefreshM`) differs. `Address` are the places the middleware may allocate a message at:
a new map lies where the old one does not, where an earlier one lay too.

### TerrainMap

The part of a node that decides heights when `terrain_relative_z` is set. A voxel is a column and an index; a
message is its occupied and free voxels and whether its resolution can be used. Heights are
integers in any unit, and a voxel's position lies `Off` above its lower face.

| Variable | Member |
|---|---|
| `latest`, `fresh` | `latest_scovox_map_`; it differs from `ingested_scovox_map_` |
| `ref`, `eff` | `ingest_ref_z_`; `eff_roi_min_z_`, `eff_roi_max_z_` |
| `aim` | the band last given to `setRoiZ` |
| `cache` | the occupied and free voxels of `map_cache_` |
| `have`, `alt` | `have_map_`; the height of `latest_pos_` |
| `source`, `cut` | history: the message and the band the copy was made with |
| `asked` | history: the height the last step asked for |

`LoadLatestMap` is `loadLatestMap` with its rejection of a message, and the actions `Plan`, `ExploitPlan` and
`DwellEnds` keep the order in which the three callers load the map, move the clamp and search. Each asks for the
ground in one column per tick, which is any column of the map: the ring, the
polar grid and the clusters of frontiers only choose columns. A frontier's height is the corner of a free voxel
of the copy, if that lies in the band (`Frontiers`); a cluster's height is an average of such. Voxels keep their size from one message to the next.

### ProximityGuard

One unit of time per `Clock`; platforms move at most one place per unit. Because
the planner ticks ten times a second, `Clock` waits for planners with a
transition to make. Ages saturate where no test can tell larger ones apart
(`SeenCap`, `StillCap`, `TimeCap`). The cancel is a request that may land at any
later moment and drops whatever goal nav2 has then.

### TreeDetection

`scan` runs alone on its node; the model splits it at the turns of its loop so that
the detections of one scan come in any order. `track` is `tracks_` by slot, `emitted`
is `emitted_`, `claimed` the vector of one scan; `scene`, `sighted` and `row` are history,
as is the tree a track (`of`) or a target (`tree`) belongs to.

A scan finds any set of the trees in `forest`, each at any centre of `Estimates`; the
robot may stand in any sector of each, or have no pose. `Verdict` bounds what the
information score can answer for a number of covered sectors; without a pose it may
answer anything. One unit of time is a scan period. `DriftAssumption` keeps the estimates of one
tree within `track_match_radius_m` of each other, as the code's matching assumes.
The id hash is its cell (`CellOf`). The bearing counter saturates at `SettleTicks`, where no
test can tell more apart. `Slot` bounds the tracks alive at once: in the small worlds there are never
more than trees.

## 3. What the runs check

Teams have two robots: every rule in the code is pairwise or a union over peers.
`Depth = 1` is the harshest history (each unread claim is overwritten by the next).
One trunk has one to three angles (the shipped ring has three), one angle being
enough to be contested, credited and closed.

| Run | World | Shows |
|---|---|---|
| `ring` | 3 angles, quota 3, all valid; no approach waypoint | types; credit counted once; claims true; parked robots split the ring |
| `events` | 1 angle, no approach waypoint, occlusion and validity open, give-up on, one event of any kind, bounded waits | goal and queue agree; the nearer of two rivals keeps the angle and exactly one does (`NearestKeepsAngle`); nobody sets out to an angle its table already denies it (`NeverSetsOutToYield`); no credit made up; COMPLETE is honest; the planners implement `TeamCapture` |
| `live` | 2 angles, quota 1, an approach waypoint, unbounded barriers, fairness | every barrier opens; every target closes |
| `mission` | the six launches below; fairness | types; a failed goal rests; regions follow the queue; nothing is exploited behind the barrier; releases on time; nobody finishes alone; no hop past the budget; coverage decides; no target that fits the topic is lost; every mission ends, unless an unbounded wait at the anchor strands a robot (`MissionEnds`) |
| `maps` | paths: every map of 3 x 3 cells, the robot off the grid, in a corner, on an edge or in the centre, bound 12 and none; cache: two maps, two addresses, three updates or moves; slopes: one column, six messages, five altitudes | costs and paths are the shortest ones; the cached flood is never the bounded one nor that of the map before; the ground of the copy is that of the map; heights stand inside the band |
| `prox_crossing` | a lane of 4, floor 0, hatch 3, budget 4; the yielding robot drives twice; fairness | types; a hold keeps its drive; the budget continues; no chatter; every drive ends |
| `trees` | a drifting trunk, or two trunks within the match radius; 2 sectors, 2 confirming scans, 1 settling scan, a timeout of 1; fairness | types; published once; a track for each detection; consecutive readings; a needy tree is published |
| `wide`, `barrier`, `prox_floor`, `prox_offguard`, `close` | | the disagreements of section 4 |

In the three runs of the ring, and in `wide`, every drive takes one step (`MCDirect`), and between its start and its end
anything the others do may happen. Only `live` has an approach waypoint: it adds a stop before staging and
no claim. `wide` is `events` without events and with a target id of 2^31 or more.

`NearestKeepsAngle` speaks of robots that have heard each other, and only each other, about the angle. What a
stale claim of a third or of a silent peer may do is bounded by `NeverSetsOutToYield`: the drive it is
found in is given up, but the next is not planned on it, because the tick that plans also prunes. The action
property would fail if the yield read a claim that planning no longer sees.

`mission` starts in any of six launches, each the smallest in which its case happens:

* `Hops`: one robot, two viewpoints, three steps, a streak of two, one blocked goal; the scheduler's
  parameters are invalid, so nothing may be released. Blacklist, decay, streak and budget meet.
* `Trees`: one robot that idles in DONE, a schedule of two targets one of which is listed twice, two
  steps, one failed vantage. Targets arrive while the planner is off, waits for its map, hops,
  dwells or idles.
* `Shared`: two robots, one of which serves a target, so that a ring is interrupted by a
  barrier and taken up after it.
* `Full`: one robot and a schedule as long as the topic is deep, one target due at once and one later.
* `Pair(FALSE)`, `Pair(TRUE)`: two robots that only explore and twice leave or enter each other's range,
  with the shipped unbounded wait at the anchor (`rendezvous_max_wait_sec` 0) and with a bounded one.

`MissionEnds` has one exception, `Stranded`: with the unbounded wait the last robot of a team that ends one by one
waits at its anchor for mates that are done and silent, and any robot waits for a mate that stays out of
range. That is what the parameter says, and its shipped default; with a bounded wait there is no exception. The two
launches with two robots and an unbounded wait, `Shared` and `Pair(FALSE)`, reach it; in the other four, and whatever else
may fail on the way, every mission ends.

`TopicDepth` is 2 and the longest schedule has three entries, so the topic overflows when all three are due
at once or late; the entry dropped is the one listed twice. `NoTargetLost` speaks of schedules that fit, as
that of `Full` does to the last place. The shipped depth of 50 is meant to exceed every schedule; nothing checks that it does.

`maps` holds three worlds because no state is shared: the ticks that flood the grid also load the
voxel map, and each map is explored with the other at rest. In the first every set of obstacles is flooded
by both planners and every path of PLAN is extracted. In the second maps come and go between ticks: the wall of
one makes a detour longer than the diagonal of the grid, 3 x 3 is the smallest grid with such a
wall, and three events are what it takes to reuse an address. In the third one column is enough, since `groundZAt` never leaves its column. Its messages
hold low ground under a branch, a stack that reaches over a window's ceiling, high ground, free
voxels only around it, nothing, and an unusable resolution. The robot climbs by 2 (the hysteresis: no re-band), 3 (the
first step beyond it), 5 and more. The band is the tightest that satisfies `BandCovers` (section 5).

`trees` starts in either of two forests: drift matters for one tree, and the
competition for tracks needs two. A tree is `Alone` while no tree found so far stands within
the match radius; what depends on that is stated for such trees, and section 4 says
what happens to others.

The runs with one event allow it in every reachable state, so each single fault is
combined with every interleaving. Robots may all end with nothing left to do (a
closed target, spent events), so deadlock is not checked: progress is what the
liveness properties are for.

Two targets meet in `mission`; the runs of the ring have one, and section 5 proves their
safety properties for any number.

Symmetry (over angles, and over the addresses of messages) is used only in runs of safety
properties and of the refinement, whose statements treat all of them alike.

**Fairness.** Timers tick, so an enabled tick is taken (weak fairness of `Tick`), the
reliable transport delivers, clocks advance, nav2 moves an unobstructed platform
(weak). `ClosePartial` is strongly fair: the give-up timer is one clock that keeps running
while EXPLOIT_PLAN, NAVIGATE and EXPLOIT_DWELL alternate, and it is tested in
EXPLOIT_PLAN. No fairness is assumed of world events. In `ProximityGuard` the ticks
and the clock are fair and nothing else: poses may never arrive and platforms may never
move. In `Mission` nodes start, timers tick, clocks advance and the middleware delivers (weak,
per robot). Of PLAN's outcomes only a hop is granted: a planner that keeps looking finds a candidate
outside the blacklist, or one whose entry has decayed. That the area becomes covered, that PLAN finds
nothing, that a goal is blocked and that radio range changes is never granted. In `TreeDetection` the scan timer is fair; that a tree stays in the map and
under-informed is a premise of `EventuallyNominated`.

## 4. Where the code and its comments disagree

* `barrier` — the comments of the barrier say that the heartbeat keeps broadcasting "so arriving
  peers count us and release their own barriers". The robot that first hears the team
  complete drops its claim and leaves without a last broadcast. With its step budget spent it ends
  in DONE and is silent; a mate that had not heard it yet waits at the anchor for ever
  (with `rendezvous_max_wait_sec` 0, the default).
* `prox_floor` — inside `parked_keep_dist` the max-hold hatch is meant to be the deadlock
  breaker. It releases the hold, but the next tick finds the same peer and holds
  again before the platform moved.
* `prox_offguard` — `abandonNavGoal` states that every exit from a driving state without a new
  goal must stop the platform. `doReturnNav` goes to RETURN_SYNC on its budget and
  on lack of progress without doing so.
* `close` — `EmitGate::emitted` means "a TreeTarget has been published for this tree", and the
  claimed vector exists so that a second trunk within the match radius gets "its own
  emitted target". A trunk first found after its neighbour was published starts with the
  neighbour's id and as emitted: it is never nominated.
* `wide` — the yield in a drive promises that of two robots that picked one angle "exactly one of the two
  abandons — never both [...] and never neither". It is guarded by `pending_exploit_target_id_ >= 0` (2187), an `int` that holds a
  `uint32_t`; the detector's ids cover all of `uint32_t` (`tree_detector_node.cpp:453`). For an id of 2^31 or more
  the yield is never tried: neither abandons.

Seen while modelling, and not the subject of a run:

* `VantageSearchInsideBand` in `PlannerMaps_maps.cfg` fails: `shared_params.yaml:239` and the constructor (818) want the ground
  search to stay inside the ingested band "from anywhere the robot can sit before a re-band", and size the band for one hysteresis of
  drift. `doPlan` and `doExploitDwell` load the map before they search; `doExploitPlan` lifts its vantages (3367)
  before it loads (3434). After a drive that climbed further, the search runs in the band of the place the
  robot left: a vantage has no ground, or stands on a branch, for that tick.
* Three robots at one distance from an angle they all picked: each consults the peer it has known longest
  (`coordination.cpp:92`, 150), so 1 and 2 may each be spared, or 2 may consult only 3, and two drive on. `NearestKeepsAngle`
  leaves that case out. It needs exact equality of two squared distances.
* A schedule longer than the topic's depth (50, `explo_planner_node.cpp:1284`) is lost in part to a planner that starts late: the
  oldest targets fall out of the latched history, and nothing checks the length.
* A robot that stops at an approach waypoint keeps its unstaged claim beating
  (`explo_planner_node.cpp:2238`). If the peer on the ring vetoes what is left, both stand until the give-up timer
  fires, although "only a DRIVING peer holds" the barrier (3769).
* `CachedFloodCurrent` in `PlannerMaps_maps.cfg` fails: the cached flood is keyed on the address
  of the map message (3484) and the robot's place. The map after the flooded one is always noticed
  (`CachedFloodHolds`), but the second after it may be allocated where the flooded one
  lay. The costs are then those of the old map until the robot moves half a metre.
* `exploration_fused_bag.yaml:157-161` says that its floor of -5.0 covers the search and the hysteresis: 4.0 + 1.125
  is more (`shared_params.yaml:249` corrects the same value). The check at start-up (825-830) counts neither the voxel the
  window's floor falls in nor the stack above its ceiling, as `BandCovers` does.
* A message that is rejected (1400) also stops the old one from being re-banded: the copy stays where it is
  until a good message comes. `GroundAsMapped` leaves such ticks out.
* `cost_grid.hpp` calls unknown cells impassable and speaks of a diagonal bound; `build` blocks occupied cells
  only and no bound is derived from the grid. `failed_goal_blacklist.hpp:26` says that
  pruning pops from the front; `prune` scans the whole list.
* The package README says `max_steps` "still ends a run directly"; `doLogStep` goes through
  `finishOrRendezvous`.
* A target whose callback runs in the last tick before the shutdown leaves its region armed: the
  removal has already run. `RegionsFollowQueue` speaks of running planners only.
* The resume after a proximity hold disarms the rotation deadline (1663).
* Above the coverage threshold with all candidates exhausted PLAN retries for ever and spends no
  step, and so does a goal whose cell is occupied; the fairness above leaves both out.
* The give-up timer restarts after each stand-down past the budget, so the bound it promises
  (3407) is one per return to the barrier.

## 5. What is proved

For every number of robots, targets and angles, every geometry, every depth and budget,
and any choice of events (constants restricted only by the named `ASSUME`s):

| Theorem | Property |
|---|---|
| `VantageRingProofs!TypeCorrect` | `TypeOK` |
| `GoalAlwaysActive` | `GoalIsActive` |
| `CreditAlwaysCounted` | `CreditCounted` |
| `ClaimAlwaysTrue` | `ClaimIsTrue` |
| `CreditAlwaysSound` | `CreditSound` |
| `CompleteAlwaysHonest` | `CompleteHonest` |
| `PlannersImplementTeamCapture` | `ImplementsTeamCapture` |
| `VerdictsStand` | `VerdictEarned`, `VerdictFinal`: a verdict is earned, and final until a restart forgets it |
| `RingSharingProofs!NearestAlwaysKeeps` | `NearestKeepsAngle`, for teams of every size and every order of arrival |
| `NobodySetsOutToYield` | `NeverSetsOutToYield` |
| `ParkedAlwaysSplit` | `ParkedPeersSplit` |
| `NewsIsAlwaysTrue` (if no message is lost) | `NewsIsTrue`: the last word of a peer is the claim it holds |
| `BarrierNeverCircular` (if no message is lost) | `BarrierWaitsForComers`: two robots at their barriers wait for each other at most while a claim is in transit |
| `ExplorationLoopProofs!LoopTypes` | `LoopTypeOK` |
| `FailedGoalsRest` | `FailedGoalRests` |
| `RegionsFollow` | `RegionsFollowQueue` |
| `BarrierSuspends` | `BarrierSuspendsExploit` |
| `BudgetHolds` | `NoHopPastBudget` |
| `FinishInContact` | `NobodyFinishesAlone` |
| `CoverageHolds` | `CoverageDecides` |
| `MissionProofs!MissionTypes` | `TypeOK` |
| `ReleasesOnTime` | `ReleasedOnTime` |
| `MissionLoops` | `Spec => LoopSpec`: the rows of the loop hold of every mission |
| `MissionKeepsLoop` | those rows, stated of a mission |
| `NothingIsEarly` | `NothingEarly`: no planner knows a target before its time |
| `TargetsArrive` | `NoTargetLost`: if the schedule fits the history, every planner that is up is told of every target |
| `ProximityGuardProofs!TypeCorrect` | `TypeOK` |
| `HoldAlwaysKeepsDrive` | `HoldKeepsDrive` |
| `BudgetAlwaysContinues` | `BudgetContinues` |
| `NeverChatters` (if `PoseStale =< HoldStale`) | `NoChatter` |
| `HoldsDissolve` | `SomebodyGoesFirst`, `HoldIsBounded`: no circle of holds, none beyond the bound |
| `TreeDetectionProofs!TypeCorrect` | `TypeOK` |
| `AlwaysEmitOnce` | `EmitOnce` |
| `AlwaysConfirmedInARow` | `ConfirmedInARow` |
| `EachHasItsOwnTrack` | `EachItsOwnTrack` |
| `PlannerMapsProofs!GridTypes` | `GridTypeOK` |
| `FloodIsExact` | `FloodExact` |
| `CostsAreShortest` | `NoWalkIsShorter`: against walks of every shape and length |
| `SettledStaysFinal` | `SettledIsFinal`: the flood settles a cell for good at each turn, so it ends |
| `PathsAreExact` | `PathsAreShortest` |
| `PathsEnd` | `PathIsShort`: no path is longer than the grid has cells, so the walk ends |
| `CacheAlwaysHolds` | `CachedFloodHolds` |
| `TerrainTypes` | `TerrainTypeOK` |
| `GroundAlwaysAsMapped` (if `BandCovers`) | `GroundAsMapped` |
| `SightAlwaysInside` (if `BandCovers`) | `SightInsideBand` |

The argument of `VantageRingProofs`:

1. `TypeOK /\ GoalIsActive` is inductive. The second is needed everywhere, because
   `CompleteDwell` credits the ACTIVE target while the claim and the history name
   the goal's; the two are equal only by `GoalIsActive`.
2. `CreditCounted` is inductive over the types. Every step changes a queue in one of a few ways
   (`StepKinds`), and the lemmas of `TargetQueueProofs` say what each does to mask
   and counter.
3. `ClaimIsTrue` is inductive over 1.
4. `CreditSound` is inductive over 1 and 3. `captured` only grows; each mask after a
   step comes from a mask before it or from a view of that step: of the own
   claim (`MineComesFrom`), of a claim table (`ClaimsComeFrom`), of a channel
   (`ChannelComesFrom`), of a queue (`QueueStaysSound`). The four parts need each other,
   which is why they are one invariant.
5. `CompleteHonest` follows from 2 and 4: a quota counted is a set of that size, all seen.
6. For the refinement, `Lifecycle` (a target is closed in the queue exactly when its
   outcome is logged, and an unknown one has no credit) makes every step a step or a
   stutter of `TeamCapture`: merges are `Learn`, clear dwells `Capture`,
   closes `Close`, a crash `Forget`.
7. `VerdictsStand` is proved of `TeamCapture`'s steps and the types alone, and carried to the planners by 6: the
   dozen handlers that touch a queue are never looked at again. This is what the refinement is for.

`RingSharingProofs`: which peer a robot consults depends on the order of its claim table, so `TablesOrdered` (the order is a
strict total order of the stored claims) is proved first, inductively. On a finite table somebody is then
consulted (`SomeoneMatches`, by the well-foundedness of strict inclusion) and it is one of the nearest contestants (`MatchedIsNearest`). A robot
farther away than another therefore loses, to whomever it consults; the nearest with the smallest name, the first in the order MinPos (`AheadIsOrder`), never loses; and
with at most two nearest, each of the two consults the other. Three need not (`ThreeApart` is the counting step), and section 4
tells what may then happen. `NobodySetsOutToYield` compares the two readings of the table: the yield's condition implies the veto's,
on a table pruned in the same tick. For parked robots `StagedIsExploit` (a staged claim is an exploit claim that
names its target), inductive over `ClaimIsTrue`, makes each visible to the other's veto, and `ParkedVetoes` gives each
spot to one of them.

The news: every handler that changes the claim publishes it at the same step, so what a peer will know when it has emptied its
history is what the robot claims. `NewsStep` shows that this survives a full history (the oldest falls out, never the last),
a restart (the robot is silent until it claims) and merged or late heartbeats. It does not survive a lost message, and
nothing claims that it does: between a loss and the next beat a peer's view is stale. That is why both theorems ask for
`"loss" \notin Events`, the one event of the channel they exclude; every other one is allowed.
Beats go on while a claim is held (`Beating`), so the next one that arrives brings the view up to date.
The barrier: a claim for a ring not yet staged belongs to a robot driving to that ring or planning on it (`UnstagedIsComing`), because
arrival sets `staged` before the dwell begins. With the news that is `BarrierWaitsForComers`: whoever sees an unstaged peer and has
read everything sees one that drives to the ring, one that plans short of it at an approach waypoint (section 4 tells how long that
may last), or one that no longer speaks and will expire. Without either fact two robots could each wait
for the other's arrival.

`ExplorationLoopProofs`:

1. `TypeInv`, the types and that a drive has a goal of its phase, is inductive.
2. `Own(r)` collects what one robot keeps to itself: the three state invariants and `QueueOwn`,
   that outside the phase EXPLOIT there is no ACTIVE target. The last is needed because `StandDown` resets
   phase and clock only if the queue has something pending. Every step of a robot keeps
   its own part, and `OthersKept` says that it leaves everybody else's alone; so the proof
   is one lemma per group of handlers and not per pair of robots.
3. `NoHopPastBudget` follows from `HopsStartInPlan`: only PLAN starts a hop, and PLAN tests the budget.
4. `NobodyFinishesAlone` needs `Heard`, that only members of the team are in a table: the code
   compares a count with the team's size, and a count is everybody (`HearsAll`) only then.
5. `CoverageDecides` needs `Tracks`: the streak is the length of the run of low measurements that ends
   the window, capped at what it is compared with.

`MissionProofs`: `SchedulerInv` (the origin is latched at or after the first stamp, and what is published was due
counted from it) gives `ReleasedOnTime`; `InboxOK` the depth of the queues. Every step of a mission is
a step or a stutter of each component, so `Spec => SchedulerSpec` and `Spec => LoopSpec`.
`MissionKeepsLoop` is the corollary: the targets of a mission arrive when they like, and the loop's promises do not depend on when.
The hand-over needs `HandOver`: topic, inboxes and queues hold released targets only (with `ReleasedOnTime` that is `NothingIsEarly`), and
no more of them than entries were published. If the schedule is no longer than the depth of the topic (50 in the code, on both
ends), nothing ever falls out of topic or inbox, so each planner has each target in the inbox or in the queue, up to trunks
it already has. With a longer one a planner that starts late is never told of the first targets: the code does
not check the length, and `NoTargetLost` claims nothing then.

`ProximityGuardProofs`: `HoldKeepsDrive` is inductive over the types; `BudgetContinues` needs
`BudgetInv`, which ties the driven time to `elapsed` in a drive and to `banked` in a
hold; `NoChatter` rests on `HoldIsWider`: whatever must hold in a drive must hold
in a hold. That lemma uses the repair of the resume distance by the constructor
and the assumption on the two freshness windows, which the code does not check.
`HoldsDissolve` rests on the order of the names: a robot holds only for one before it, so the first of the team never
holds (`LeastRobot`), and everybody who is held has it to wait for. The bound on a hold follows from the clock, which does not pass an instant at which a
hold is to be released.

`TreeDetectionProofs`: `EmitOnce` is not inductive. `IInv` adds that tracks and targets stand where
their trees may be (`WhereTheTreeIs`), that claimed tracks belong to detections already
handled (`ClaimsHandled`), and that a lone tree has one track, which knows whether the tree
was published and whose streak is no longer than the tree's (`OneTrack`). `ObserveIsTurn`
reduces a detection to what it does to one gate; `StartIsOwn` says that the gate is the
lone tree's own and `StartSpares` that nobody else's track is taken. `ConfirmedInARow`
follows from the same invariant. `EachItsOwnTrack` rests on `OwnTracks`: within a scan the tracks just
observed or begun are those of the detections handled, one each.

`PlannerMapsProofs`, the cost grid: none of the four properties is inductive, `GridInv` is.

1. `FloodInv` is Dijkstra's invariant. `ParentsSettled`: a reached cell is free and has a settled parent one step
   nearer. `HeapAhead`: what is in the heap costs no less than its cell now does, and than every settled cell, so
   that what is popped can no longer improve. `SettledRelaxed`: a settled cell has offered its cost to its neighbours.
2. `TickInv` says that the grid is that of the latched map and of the robot's cell while a tick runs,
   `PathInv` that a route runs over parents, `CacheInv` that a valid flood is unbounded and that the map after the flooded one
   lies elsewhere.
3. With an empty heap every reached cell is settled, and `FloodExact` is what 1 says of settled cells.
4. `FloodExact` is a fixed point of the neighbours' costs. That no walk is shorter needs an induction along
   the walk: a least index where the walk is ahead of the costs (`Least`, from the well-foundedness of `<`)
   is not the first, and the step before it was relaxed.
5. Costs fall along the parents, so no route meets a cell twice, and a route longer than the grid has cells would
   (the pigeonhole principle of `FiniteSetTheorems`).

The copy of the voxel map: `TerrainInv` says that the copy is the clip, to the band around `ref`, of a usable message, and
of the last one unless that is still to be loaded. After a load that was not rejected the robot is within the hysteresis
of `ref` (`LoadKeeps`). `BandCovers` asks for a band of the search window, the hysteresis, a voxel
below (the window's floor may fall anywhere in one) and the stack above; then every voxel a search can meet
is in the copy (`ClipKeepsWindow`), and the ground depends on those only (`SameGround`). A ground found is the
top of a voxel met (`GroundIsMet`, from the least and the greatest element of a bounded set of integers), which puts a
vantage lifted in the old band inside the new one too (`LiftedInside`).

Only model-checked: the five liveness properties (`DwellEnds`, `TargetCloses`, `DriveEnds`, `EventuallyNominated`,
`MissionEnds`), which rest on fairness and are out of the prover's reach. Every safety property of a passing run is a
theorem.

## 6. Not modelled

* Floating-point geometry: segmentation, circle fit, ray casting, scoring, candidate
  sampling, line of sight. They decide which choice is taken, never which steps exist.
* Voxel data structures, log-odds clouds, frontier clusters and coverage statistics of the map cache, grid look-ups, the metrics log, RViz markers, launch files.
* The rotation at a goal, which is part of the drive.
* Malformed messages: the claim sanitising of `Coordination::onIntent` (planned).
* The two dwell timers themselves: a dwell ends when it ends.
* Clock jumps. All thresholds are compared on one local clock per node.

## 7. Plan

Left, in this order:

1. What two detectors and a scheduler publish into one queue: two ids for one tree.
2. The rotation deadline across holds; ring masks at 32 and more vantages.
3. The claim sanitising of `Coordination::onIntent`.
