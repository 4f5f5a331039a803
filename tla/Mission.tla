------------------------------- MODULE Mission ------------------------------
(***************************************************************************)
(* The scheduler and a team of planners: targets released on the latched   *)
(* topic reach planners that are exploring, returning, idling or not       *)
(* started yet.  Each action is one of a component, with what it does to   *)
(* the topic.                                                              *)
(***************************************************************************)
EXTENDS ExplorationLoop, TargetScheduler, Functions

CONSTANT Missions   \* launches: setup, schedule, and whether the robots start in range

VARIABLE inbox      \* inbox[r]: targets on their way to r's callback

vars == << loopVars, schedulerVars, inbox >>

\* Every variable of the planners, of the scheduler and of the topic keeps its
\* type, and no queue of the middleware outgrows its depth.
TypeOK ==
  /\ LoopTypeOK /\ SchedulerTypeOK
  /\ inbox \in [Robot -> Seq(Target)]
  /\ \A r \in Robot : Len(inbox[r]) =< TopicDepth

Init ==
  /\ \E m \in Missions : /\ setup = m.setup /\ linked = m.linked
                          /\ schedule = m.schedule /\ valid = m.valid
  /\ LoopInit /\ SchedulerInit
  /\ inbox = [r \in Robot |-> << >>]

----------------------------------------------------------------------------
\* Slip: a volatile topic keeps nothing for planners that join later.
Volatile == << >>

\* What the latched topic hands to a planner that joins.
Latched == topic

StartPlanner(r) ==
  /\ Join(r)
  /\ inbox' = [inbox EXCEPT ![r] = IF r \in setup.exploiters THEN Latched ELSE @]
  /\ UNCHANGED schedulerVars

TakeTarget(r) ==
  /\ inbox[r] # << >>
  /\ OnTreeTarget(r, Head(inbox[r]))
  /\ inbox' = [inbox EXCEPT ![r] = Tail(@)]
  /\ UNCHANGED schedulerVars

\* The subscriptions are as deep as the topic.
ReleaseTargets ==
  /\ \E f \in Released :
       /\ ScheduleTick(f)
       /\ inbox' = [r \in Robot |-> IF Up(r) /\ r \in setup.exploiters
                                    THEN KeepLast(inbox[r] \o Ids(f))
                                    ELSE inbox[r]]
  /\ UNCHANGED loopVars

PassTime == (ClockStarts \/ ClockAdvances) /\ UNCHANGED << loopVars, inbox >>

PlannersStep == LoopStep /\ UNCHANGED << schedulerVars, inbox >>

Next ==
  \/ ReleaseTargets \/ PassTime \/ PlannersStep
  \/ \E r \in Robot : StartPlanner(r) \/ TakeTarget(r)

Spec == Init /\ [][Next]_vars

(***************************************************************************)
(* Nodes start, timers tick, clocks advance, the middleware delivers.  Of  *)
(* PLAN's outcomes, only a hop is granted: while its area is not covered,  *)
(* a planner that keeps looking finds a candidate outside the blacklist,   *)
(* or one whose entry has decayed.                                         *)
(***************************************************************************)
Fairness ==
  /\ WF_vars(ReleaseTargets) /\ WF_vars(PassTime)
  /\ \A r \in Robot :
       /\ WF_vars(StartPlanner(r)) /\ WF_vars(TakeTarget(r))
       /\ WF_vars(Tick(r) /\ UNCHANGED << schedulerVars, inbox >>)
       /\ WF_vars(Heartbeat(r) /\ UNCHANGED << schedulerVars, inbox >>)
       /\ WF_vars(Clock(r) /\ UNCHANGED << schedulerVars, inbox >>)

FairSpec == Spec /\ Fairness

----------------------------------------------------------------------------
Finished(r) == pstate[r] \in {"DONE", "EXIT"}

\* The ids of a set of schedule entries.
IdsOf(I) == {schedule[i].id : i \in I}

\* r waits at the anchor, with no bound on the wait, for a teammate it does not
\* hear: one that is done and silent, or out of range.
Stranded(r) ==
  /\ ~ setup.maxWait /\ pstate[r] = "RETURN_SYNC"
  /\ \E p \in setup.team \ {r} : heard[r][p] # "live" /\ (Finished(p) \/ ~ linked)

\* Whatever fails, decays or is interrupted on the way, every planner gets to the
\* end of its mission and stays there, unless the wait at the anchor is unbounded
\* (as shipped) and it ends up waiting for a teammate that is done and silent, or
\* out of range: it never ends up waiting for one that waits for it, and with a
\* bounded wait every mission ends.  A planner that idles in DONE at the end has
\* closed by then every target released before it started, while it explored, at
\* the barrier or after it was done.
MissionEnds ==
  <>[](\A r \in setup.team :
         /\ Finished(r) \/ Stranded(r)
         /\ Finished(r) /\ valid /\ setup.idle /\ r \in setup.exploiters =>
              \A t \in IdsOf(DOMAIN schedule) : queue[r].rec[t].status = "DONE")

\* r has been told of t: it waits in r's inbox, or r's queue has it, or its trunk.
Told(r, t) == t \in Range(inbox[r]) \/ Duplicate(queue[r], t)

\* As long as the schedule fits the history of the topic (50 entries), no target
\* that was released is lost to a planner that is up: not to one that started
\* late, that was told of none for long, or that is returning or done.
NoTargetLost ==
  Len(schedule) =< TopicDepth =>
    \A r \in setup.exploiters : Up(r) => \A t \in IdsOf(published) : Told(r, t)

----------------------------------------------------------------------------
\* What the documentation says and the code does not keep.

AtBarrier == \A r \in setup.team : pstate[r] = "RETURN_SYNC"

\* The heartbeat keeps broadcasting at the barrier "so arriving peers count us
\* and release their own barriers": robots that wait for each other, within
\* range of each other, all get away.
BarrierReleasesAll ==
  \A r \in Robot :
    AtBarrier /\ linked /\ r \in setup.team
      ~> pstate[r] # "RETURN_SYNC" \/ ~ linked
=============================================================================
