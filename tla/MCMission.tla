------------------------------ MODULE MCMission -----------------------------
(***************************************************************************)
(* Small missions: one robot that explores with a blacklist and a streak   *)
(* of two; one robot and a schedule of two targets, one of them listed     *)
(* twice, that it meets early, late or in DONE; two robots, one of which   *)
(* also serves a target; two robots that explore and leave or enter each   *)
(* other's range, with and without a bound on the wait for each other; one *)
(* robot and a schedule as long as the topic is deep.                      *)
(***************************************************************************)
EXTENDS Mission, TLC

CONSTANTS g1, g2, t1, t2, a1

MCTrunk == [t \in Target |-> t]

Launch(team, exploiters, goals, steps, streakLength, idle, wait, events) ==
  [team |-> team, exploiters |-> exploiters, goals |-> goals, maxSteps |-> steps,
   streak |-> streakLength, idle |-> idle, maxWait |-> wait, events |-> events]

At(t, at) == [id |-> t, release |-> at]

Hops == [setup |-> Launch({1}, {1}, {g1, g2}, 3, 2, FALSE, FALSE, 1),
         schedule |-> << At(t1, 0) >>, valid |-> FALSE, linked |-> TRUE]

Trees == [setup |-> Launch({1}, {1}, {g1}, 2, 1, TRUE, FALSE, 1),
          schedule |-> << At(t1, 0), At(t2, 0), At(t1, 1) >>, valid |-> TRUE, linked |-> TRUE]

Shared == [setup |-> Launch({1, 2}, {1}, {g1}, 1, 1, TRUE, FALSE, 0),
           schedule |-> << At(t1, 0) >>, valid |-> TRUE, linked |-> TRUE]

Pair(wait) == [setup |-> Launch({1, 2}, {}, {g1}, 1, 1, FALSE, wait, 2),
               schedule |-> << >>, valid |-> TRUE, linked |-> TRUE]

Full == [setup |-> Launch({1}, {1}, {g1}, 1, 1, TRUE, FALSE, 0),
         schedule |-> << At(t1, 0), At(t2, 1) >>, valid |-> TRUE, linked |-> TRUE]

MCMissions == {Hops, Trees, Full, Shared, Pair(FALSE), Pair(TRUE)}
MCPair     == {Pair(FALSE)}
=============================================================================
