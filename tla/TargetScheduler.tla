--------------------------- MODULE TargetScheduler --------------------------
(***************************************************************************)
(* The node that releases preselected targets on a time schedule           *)
(* (target_scheduler_node.cpp).  Its clock is simulated time: it reads 0   *)
(* until playback publishes /clock and then jumps to the recording's       *)
(* start stamp.                                                            *)
(***************************************************************************)
EXTENDS TrunkRing, Sequences

CONSTANTS
  Stamps,      \* start stamps a recording may have
  Lag,         \* bound: clock steps before the node's first tick
  TopicDepth   \* history depth of the target topic

ASSUME SchedulerAssumption ==
  Stamps \subseteq Nat \ {0} /\ Lag \in Nat /\ TopicDepth \in Nat \ {0}

VARIABLES
  schedule,   \* ids_ and release_, entry by entry
  valid,      \* valid_: the parallel parameter arrays have one length
  clock,      \* now()
  started,    \* history: the first stamp of the playback, 0 before it
  origin,     \* start_time_, 0 until start_latched_
  published,  \* published_
  topic       \* the latched history of the target topic

scheduleVars == << schedule, valid >>
schedulerVars == << scheduleVars, clock, started, origin, published, topic >>

\* Parameters, for a schedule of any length.
Schedule == Seq([id : Target, release : Nat])

SchedulerTypeOK ==
  /\ schedule \in Schedule /\ valid \in BOOLEAN
  /\ clock \in Nat /\ started \in Nat /\ origin \in Nat
  /\ published \subseteq DOMAIN schedule
  /\ topic \in Seq(Target) /\ Len(topic) =< TopicDepth

SchedulerInit ==
  /\ schedule \in Schedule /\ valid \in BOOLEAN
  /\ clock = 0 /\ started = 0 /\ origin = 0
  /\ published = {} /\ topic = << >>

----------------------------------------------------------------------------
\* Slip: a history without a depth.
KeepAll(s) == s

KeepLast(s) ==
  IF Len(s) > TopicDepth THEN SubSeq(s, Len(s) - TopicDepth + 1, Len(s)) ELSE s

\* Slip: the origin is the time the node was constructed.
OriginAtStart == 0

\* The first tick with a running clock latches the origin of the schedule.
Origin == IF origin = 0 THEN clock ELSE origin

Due == {i \in DOMAIN schedule \ published : clock - Origin >= schedule[i].release}

\* What one tick publishes: the entries that are due, in their order.
Released ==
  {f \in [1 .. Cardinality(Due) -> Due] :
     \A m, n \in DOMAIN f : m < n => f[m] < f[n]}

Ids(f) == [n \in DOMAIN f |-> schedule[f[n]].id]

ScheduleTick(f) ==
  /\ valid /\ clock > 0
  /\ f \in Released
  /\ origin' = Origin
  /\ published' = published \cup Due
  /\ topic' = KeepLast(topic \o Ids(f))
  /\ UNCHANGED << scheduleVars, clock, started >>

\* Playback starts; with an empty schedule nothing reads this clock.
ClockStarts ==
  /\ clock = 0 /\ schedule # << >>
  /\ \E stamp \in Stamps : clock' = stamp /\ started' = stamp
  /\ UNCHANGED << scheduleVars, origin, published, topic >>

\* Time passes, up to the last release.
ClockAdvances ==
  /\ clock > 0
  /\ IF origin = 0
       THEN clock < started + Lag
       ELSE \E i \in DOMAIN schedule : clock < origin + schedule[i].release
  /\ clock' = clock + 1
  /\ UNCHANGED << scheduleVars, started, origin, published, topic >>

SchedulerNext ==
  \/ \E f \in Released : ScheduleTick(f)
  \/ ClockStarts \/ ClockAdvances

SchedulerSpec == SchedulerInit /\ [][SchedulerNext]_schedulerVars

----------------------------------------------------------------------------
\* No target is released before its time counted from the start of playback,
\* however late the clock came up, and a disabled scheduler releases none.
ReleasedOnTime ==
  \A i \in published : valid /\ started > 0 /\ clock >= started + schedule[i].release
=============================================================================
