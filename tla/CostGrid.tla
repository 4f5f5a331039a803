------------------------------ MODULE CostGrid ------------------------------
(***************************************************************************)
(* The path costs both planners of a node rank their goals by              *)
(* (cost_grid.cpp): a Dijkstra flood over the planning map from the        *)
(* robot's cell, and the paths read from its parents.  One grid serves     *)
(* PLAN, whose flood is bounded, and EXPLOIT_PLAN, whose flood is not and  *)
(* is cached (doPlan, doExploitPlan).                                      *)
(*                                                                         *)
(* A map is the set of its known occupied cells; free and unknown cells    *)
(* are alike to the flood.  Costs are integers in the ratio of a straight  *)
(* and a diagonal step; a map that does not fit its grid is all occupied.  *)
(*                                                                         *)
(* A tick runs alone on its node.  The model splits it at the turns of its *)
(* loops, the flood's and the path's, so that no recursion is needed: no   *)
(* callback comes in between.                                              *)
(***************************************************************************)
EXTENDS Integers, FiniteSets, Sequences

CONSTANTS
  Width, Height,      \* dims_x_, dims_y_
  Straight, Diagonal, \* cost of a step to one of the 4 or 8 neighbours
  Infinity,           \* kInfCost
  Cap,                \* cost_grid_radius_cap_m, the bound of PLAN's flood
  Near,               \* pairs of cells within kFloodRefreshM of each other
  Maps, Updates,      \* first planning maps, and those that may follow
  Starts, Poses,      \* cells the robot may start at, and move to
  Address,            \* where the middleware may allocate a message
  Budget              \* bound: new maps and moves in one behaviour

Cell == 0 .. Width * Height - 1

\* No cell: off the grid, or no parent (-1).
None == -1

ASSUME GridAssumption ==
  /\ Width \in Nat \ {0} /\ Height \in Nat \ {0} /\ Cap \in Nat \ {0}
  /\ Straight \in Nat \ {0} /\ Straight < Diagonal /\ Diagonal < 2 * Straight
  /\ Diagonal \in Nat /\ Infinity \notin Nat
  /\ Maps \subseteq SUBSET Cell /\ Updates \subseteq SUBSET Cell
  /\ Starts \subseteq Cell \cup {None} /\ Poses \subseteq Cell \cup {None}

VARIABLES
  map,      \* *latest_plan_map_: its occupied cells
  addr,     \* latest_plan_map_.get()
  pose,     \* the robot's cell
  tick,     \* the tick that is running, if any
  grid,     \* cost_grid_: blocked_, cost_, parent_
  heap,     \* pq of floodFrom
  route,    \* the path extractPath has walked so far, from its front
  flood,    \* history: the source and the bound of the last flood
  valid,    \* exploit_flood_valid_
  key,      \* exploit_flood_map_ and exploit_flood_pos_
  newer,    \* history: how many maps have come since the flooded one
  spent     \* new maps and moves so far

vars == << map, addr, pose, tick, grid, heap, route, flood, valid, key, newer, spent >>

Col(c) == c % Width
Row(c) == c \div Width
Gap(i, j) == IF i < j THEN j - i ELSE i - j
Neighbours(c) ==
  {d \in Cell \ {c} : Gap(Col(c), Col(d)) =< 1 /\ Gap(Row(c), Row(d)) =< 1}
StepCost(c, d) == IF Col(c) = Col(d) \/ Row(c) = Row(d) THEN Straight ELSE Diagonal

----------------------------------------------------------------------------
\* Slip: a bound above the grid diagonal is cut to it, and so is none.
WithinDiagonal(cost, bound) ==
  LET diagonal == Diagonal * (IF Width < Height THEN Width ELSE Height)
  IN  cost =< (IF bound > 0 /\ bound < diagonal THEN bound ELSE diagonal)

\* No positive bound is no bound: a path may exceed the diagonal of the grid.
Within(cost, bound) == bound > 0 => cost =< bound

Less(cost, old) == old = Infinity \/ cost < old

\* build, and the start of floodFrom: the robot's own cell is entered though it be
\* occupied; from off the grid nothing is.
Flood(bound) ==
  /\ grid' = [blocked |-> map,
              cost    |-> [c \in Cell |-> IF c = pose THEN 0 ELSE Infinity],
              parent  |-> [c \in Cell |-> None]]
  /\ heap' = {[cost |-> 0, cell |-> c] : c \in Cell \cap {pose}}
  /\ flood' = [source |-> pose, bound |-> bound]
  /\ newer' = 0
  /\ UNCHANGED << map, addr, pose, route, spent >>

\* The top of the heap: cheapest first, then by index.
Top(e) ==
  /\ e \in heap
  /\ \A f \in heap \ {e} : e.cost < f.cost \/ (e.cost = f.cost /\ e.cell < f.cell)

\* A shorter path has reached its cell since it was pushed.
Outdated(e) == e.cost > grid.cost[e.cell]

\* The neighbours of a popped cell that a path over it improves.
Improved(e) ==
  {d \in Neighbours(e.cell) \ grid.blocked :
     LET cost == e.cost + StepCost(e.cell, d)
     IN  Within(cost, flood.bound) /\ Less(cost, grid.cost[d])}

Skip ==
  \E e \in heap :
    /\ Top(e) /\ Outdated(e)
    /\ heap' = heap \ {e}
    /\ UNCHANGED << map, addr, pose, tick, grid, route, flood, valid, key, newer, spent >>

\* Nothing past the bound is ever pushed, so the loop stops at an empty heap.
Relax ==
  \E e \in heap :
    /\ Top(e) /\ ~ Outdated(e)
    /\ grid' = [grid EXCEPT
                  !.cost = [d \in Cell |-> IF d \in Improved(e) THEN e.cost + StepCost(e.cell, d)
                                                                ELSE @[d]],
                  !.parent = [d \in Cell |-> IF d \in Improved(e) THEN e.cell ELSE @[d]]]
    /\ heap' = (heap \ {e}) \cup
                 {[cost |-> e.cost + StepCost(e.cell, d), cell |-> d] : d \in Improved(e)}
    /\ UNCHANGED << map, addr, pose, tick, route, flood, valid, key, newer, spent >>

----------------------------------------------------------------------------
Init ==
  /\ map \in Maps /\ addr \in Address /\ pose \in Starts
  /\ tick = "none"
  /\ grid = [blocked |-> Cell, cost |-> [c \in Cell |-> Infinity],
             parent |-> [c \in Cell |-> None]]
  /\ heap = {} /\ route = << >>
  /\ flood = [source |-> None, bound |-> 0]
  /\ valid = FALSE /\ key = [addr |-> addr, pose |-> None]
  /\ newer = 0
  /\ spent = 0

\* Callbacks and other ticks run only between ticks.
Happens == tick = "none" /\ spent < Budget /\ spent' = spent + 1

\* A new planning map: the old one is freed only after it was replaced, so the
\* next may lie wherever the old one does not, where an earlier one lay too.
MapArrives ==
  /\ Happens
  /\ map' \in Updates
  /\ addr' \in Address \ {addr}
  /\ newer' = newer + 1
  /\ UNCHANGED << pose, tick, grid, heap, route, flood, valid, key >>

Move ==
  /\ Happens
  /\ pose' \in Poses \ {pose}
  /\ UNCHANGED << map, addr, tick, grid, heap, route, flood, valid, key, newer >>

\* Slip: PLAN forgets that the grid is shared.
PlanFloodQuietly ==
  /\ tick = "none" /\ tick' = "plan"
  /\ Flood(Cap)
  /\ UNCHANGED << valid, key >>

\* PLAN floods within its bound, and the exploitation flood is gone.
PlanFlood ==
  /\ tick = "none" /\ tick' = "plan"
  /\ Flood(Cap)
  /\ valid' = FALSE
  /\ UNCHANGED key

\* EXPLOIT_PLAN floods again only when the grid was taken, the map object is
\* another one or the robot has moved.
Stale == \/ ~ valid \/ key.addr # addr
         \/ key.pose # pose /\ << key.pose, pose >> \notin Near

ExploitFlood ==
  /\ tick = "none" /\ tick' = "exploit"
  /\ Stale
  /\ Flood(0)
  /\ valid' = TRUE
  /\ key' = [addr |-> addr, pose |-> pose]

\* scoreTrajectory: PLAN extracts the path to a candidate, from its goal back.
Extract ==
  /\ tick = "plan" /\ heap = {}
  /\ \E c \in Cell : grid.cost[c] # Infinity /\ route' = << c >>
  /\ tick' = "path"
  /\ UNCHANGED << map, addr, pose, grid, heap, flood, valid, key, newer, spent >>

\* Slip: the path is not turned round.
WalkForward ==
  /\ tick = "path" /\ grid.parent[route[1]] # None
  /\ route' = Append(route, grid.parent[route[1]])
  /\ UNCHANGED << map, addr, pose, tick, grid, heap, flood, valid, key, newer, spent >>

\* extractPath: over the parents back to a cell without one.
WalkBack ==
  /\ tick = "path" /\ grid.parent[route[1]] # None
  /\ route' = << grid.parent[route[1]] >> \o route
  /\ UNCHANGED << map, addr, pose, tick, grid, heap, flood, valid, key, newer, spent >>

Scored ==
  /\ tick = "path" /\ grid.parent[route[1]] = None
  /\ tick' = "plan" /\ route' = << >>
  /\ UNCHANGED << map, addr, pose, grid, heap, flood, valid, key, newer, spent >>

TickEnds ==
  /\ tick \in {"plan", "exploit"} /\ heap = {}
  /\ tick' = "none"
  /\ UNCHANGED << map, addr, pose, grid, heap, route, flood, valid, key, newer, spent >>

TickStep == \/ PlanFlood \/ ExploitFlood \/ Skip \/ Relax
            \/ Extract \/ WalkBack \/ Scored \/ TickEnds

Next == MapArrives \/ Move \/ TickStep

Spec == Init /\ [][Next]_vars

----------------------------------------------------------------------------
GridTypeOK ==
  /\ map \in SUBSET Cell /\ addr \in Address /\ pose \in Cell \cup {None}
  /\ tick \in {"none", "plan", "exploit", "path"}
  /\ grid \in [blocked : SUBSET Cell, cost : [Cell -> Nat \cup {Infinity}],
              parent : [Cell -> Cell \cup {None}]]
  /\ heap \in SUBSET [cost : Nat, cell : Cell]
  /\ route \in Seq(Cell)
  /\ flood \in [source : Cell \cup {None}, bound : {0, Cap}]
  /\ valid \in BOOLEAN
  /\ key \in [addr : Address, pose : Cell \cup {None}]
  /\ newer \in Nat /\ spent \in Nat

----------------------------------------------------------------------------
\* After any flood, from any cell of any map, the cost of a cell is the length
\* of a shortest path around the obstacles, or infinite if there is none
\* within the bound: the one cost that is 0 at the source and elsewhere the
\* least over the reached neighbours, a step further.
FloodExact ==
  heap = {} =>
    LET cost == grid.cost
        near(c) == {b \in Neighbours(c) : cost[b] # Infinity}
        over(c) == {d \in {cost[b] + StepCost(b, c) : b \in near(c)} :
                      flood.bound = 0 \/ d =< flood.bound}
    IN  IF flood.source \notin Cell THEN \A c \in Cell : cost[c] = Infinity
        ELSE /\ cost[flood.source] = 0
             /\ \A c \in Cell \ {flood.source} :
                  IF c \in grid.blocked \/ over(c) = {} THEN cost[c] = Infinity
                  ELSE cost[c] \in over(c) /\ \A d \in over(c) : cost[c] =< d

\* The path extracted to a reached cell steps over no obstacle of the map
\* latched now, is as long as the cost says, and starts at the robot.
PathsAreShortest ==
  tick = "path" =>
    /\ \A i \in 2 .. Len(route) :
         /\ route[i] \in Neighbours(route[i - 1]) \ map
         /\ grid.cost[route[i]] =
              grid.cost[route[i - 1]] + StepCost(route[i - 1], route[i])
    /\ grid.parent[route[1]] = None => route[1] = pose /\ grid.cost[pose] = 0

\* The costs exploitation reads without a new flood are those of an unbounded
\* one from where the robot stood, never PLAN's bounded ones, and the map
\* that follows the flooded one never passes for it.
CachedFloodHolds ==
  /\ valid => flood.bound = 0 /\ flood.source = key.pose
  /\ ~ Stale => newer # 1

\* And they are those of the map latched now.
CachedFloodCurrent == ~ Stale => newer = 0
=============================================================================
