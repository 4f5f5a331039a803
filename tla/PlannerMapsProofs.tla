------------------------- MODULE PlannerMapsProofs -------------------------
(***************************************************************************)
(* The two maps a planner reads, for every size, content and bound.        *)
(*                                                                         *)
(* The cost grid: the flood finds the costs of shortest paths, within its  *)
(* bound or without one; the paths extracted are such paths and avoid the  *)
(* obstacles; both loops end; the cached flood is the unbounded one.       *)
(*                                                                         *)
(* The copy of the voxel map: if the band covers the search (BandCovers),  *)
(* what PLAN and a dwell find in it is the ground of the whole map, and    *)
(* every height stands inside it.                                          *)
(***************************************************************************)
EXTENDS CostGrid, TerrainMap, FiniteSetTheorems, WellFoundedInduction, TLAPS

----------------------------------------------------------------------------
(* Integers. *)

LEMMA Least ==
  ASSUME NEW S \in SUBSET Int, S # {}, NEW low \in Int, \A k \in S : low =< k
  PROVE  \E k \in S : \A j \in S : k =< j
<1> DEFINE R == OpToRel(<, Nat)
           T == {n \in Nat : n + low \in S}
<1>1. R = {p \in Nat \X Nat : p[1] < p[2]}
  BY Zenon DEF OpToRel
<1>2. PICK k \in S : TRUE
  OBVIOUS
<1>3. k - low \in T
  OBVIOUS
<1>4. T \subseteq Nat /\ T # {}
  BY <1>3
<1>5. PICK n \in T : \A m \in T : << m, n >> \notin R
  <2> HIDE DEF T
  <2> QED BY <1>4, NatLessThanWellFounded, WFMin, Zenon
<1> HIDE DEF R
<1>6. \A m \in T : n =< m
  <2> TAKE m \in T
  <2>1. n \in Nat /\ m \in Nat /\ << m, n >> \notin R
    BY <1>5
  <2> QED BY <1>1, <2>1
<1>7. \A j \in S : j - low \in T
  OBVIOUS
<1>8. n + low \in S /\ \A j \in S : n + low =< j
  BY <1>5, <1>6, <1>7
<1> QED BY <1>8

LEMMA Greatest ==
  ASSUME NEW S \in SUBSET Int, S # {}, NEW high \in Int, \A k \in S : k =< high
  PROVE  \E k \in S : \A j \in S : j =< k
<1> DEFINE T == {k \in Int : -k \in S}
<1>1. \A k \in S : -k \in T
  OBVIOUS
<1>2. T \in SUBSET Int /\ -high \in Int /\ \A k \in T : -high =< k
  OBVIOUS
<1>3. T # {}
  <2> PICK k \in S : TRUE
    OBVIOUS
  <2> QED BY <1>1
<1>4. PICK k \in T : \A j \in T : k =< j
  <2> HIDE DEF T
  <2> QED BY <1>2, <1>3, Least
<1>5. -k \in S /\ \A j \in S : j =< -k
  BY <1>1, <1>4
<1> QED BY <1>5

LEMMA Scaled ==
  ASSUME NEW j \in Int, NEW k \in Int, j =< k, NEW n \in Nat
  PROVE  j * n =< k * n
<1>1. (k - j) * n >= 0
  OBVIOUS
<1> QED BY <1>1

----------------------------------------------------------------------------
(* The cost grid: cells and steps. *)

LEMMA StepType ==
  ASSUME NEW c, NEW d
  PROVE  StepCost(c, d) \in Nat \ {0}
BY GridAssumption DEF StepCost

LEMMA NeighbourCells ==
  ASSUME NEW c \in Cell, NEW d \in Neighbours(c)
  PROVE  d \in Cell /\ d # c /\ c \in Neighbours(d)
<1>1. \A a \in Cell : Col(a) \in Int /\ Row(a) \in Int
  BY GridAssumption DEF Cell, Col, Row
<1>2. \A i, j \in Int : Gap(i, j) = Gap(j, i)
  BY DEF Gap
<1>3. d \in Cell /\ d # c
  BY DEF Neighbours
<1>4. Gap(Col(d), Col(c)) =< 1 /\ Gap(Row(d), Row(c)) =< 1
  BY <1>1, <1>2, <1>3 DEF Neighbours
<1> QED BY <1>3, <1>4 DEF Neighbours

LEMMA CellIsNat == Cell \subseteq Nat /\ None \notin Cell
BY GridAssumption DEF Cell, None

----------------------------------------------------------------------------
(* The invariant of the flood.  Every reached cell but the source has a     *)
(* settled parent one step nearer; the heap is ahead of what is settled, so *)
(* what is popped can no longer improve; and a settled cell has offered its *)
(* cost to all its neighbours.                                              *)

Reached(c) == grid.cost[c] # Infinity

\* Popped with its cost: nothing more to come from it.
Settled(c) == Reached(c) /\ [cost |-> grid.cost[c], cell |-> c] \notin heap

\* The flood began at its source, if it is on the grid.
SourceFirst ==
  /\ \A c \in Cell : c = flood.source => grid.cost[c] = 0 /\ grid.parent[c] = None
  /\ flood.source \notin Cell => heap = {} /\ \A c \in Cell : ~ Reached(c)

\* A reached cell is free and one step from its parent, which is settled.
ParentsSettled ==
  \A c \in Cell : Reached(c) /\ c # flood.source =>
    /\ c \notin grid.blocked
    /\ Within(grid.cost[c], flood.bound)
    /\ grid.parent[c] \in Cell
    /\ c \in Neighbours(grid.parent[c])
    /\ Settled(grid.parent[c])
    /\ grid.cost[c] = grid.cost[grid.parent[c]] + StepCost(grid.parent[c], c)

\* What is in the heap is no cheaper than its cell and than what is settled.
HeapAhead ==
  \A e \in heap :
    /\ Reached(e.cell) /\ grid.cost[e.cell] =< e.cost
    /\ \A c \in Cell : Settled(c) => grid.cost[c] =< e.cost

\* A settled cell has improved its neighbours.
SettledRelaxed ==
  \A c \in Cell : Settled(c) =>
    \A d \in Neighbours(c) \ grid.blocked :
      Within(grid.cost[c] + StepCost(c, d), flood.bound) =>
        Reached(d) /\ grid.cost[d] =< grid.cost[c] + StepCost(c, d)

FloodInv == SourceFirst /\ ParentsSettled /\ HeapAhead /\ SettledRelaxed

\* While a tick runs the grid is that of the map and the cell it began with.
TickInv ==
  /\ tick \in {"none", "path"} => heap = {}
  /\ tick # "path" => route = << >>
  /\ tick # "none" => newer = 0 /\ grid.blocked = map /\ flood.source = pose

PathInv ==
  tick = "path" =>
    /\ route # << >>
    /\ \A i \in 1 .. Len(route) : Reached(route[i])
    /\ \A i \in 2 .. Len(route) :
         /\ route[i] \in Neighbours(route[i - 1]) \ grid.blocked
         /\ grid.cost[route[i]] =
              grid.cost[route[i - 1]] + StepCost(route[i - 1], route[i])

CacheInv ==
  valid => /\ flood.bound = 0 /\ flood.source = key.pose
           /\ newer = 0 => key.addr = addr
           /\ newer = 1 => key.addr # addr

GridInv == GridTypeOK /\ FloodInv /\ TickInv /\ PathInv /\ CacheInv

LEMMA GridInitInv == Init => GridInv
<1> SUFFICES ASSUME Init PROVE GridInv
  OBVIOUS
<1>1. GridTypeOK
  <2>1. map \in SUBSET Cell /\ addr \in Address /\ pose \in Cell \cup {None}
    BY GridAssumption DEF Init
  <2>2. grid \in [blocked : SUBSET Cell, cost : [Cell -> Nat \cup {Infinity}],
                 parent : [Cell -> Cell \cup {None}]]
    BY DEF Init
  <2>3. /\ flood \in [source : Cell \cup {None}, bound : {0, Cap}]
        /\ key \in [addr : Address, pose : Cell \cup {None}]
    BY DEF Init
  <2>4. /\ tick = "none" /\ heap = {} /\ route = << >>
        /\ valid = FALSE /\ newer = 0 /\ spent = 0
    BY DEF Init
  <2>5. << >> \in Seq(Cell)
    OBVIOUS
  <2> QED BY <2>1, <2>2, <2>3, <2>4, <2>5 DEF GridTypeOK
<1>2. \A c \in Cell : ~ Reached(c)
  BY DEF Init, Reached
<1>3. FloodInv
  BY <1>2, CellIsNat
     DEF Init, FloodInv, SourceFirst, ParentsSettled, HeapAhead, SettledRelaxed, Settled
<1>4. TickInv /\ PathInv /\ CacheInv
  BY DEF Init, TickInv, PathInv, CacheInv
<1> QED BY <1>1, <1>3, <1>4 DEF GridInv

\* A flood begins with the source alone, to be settled.
LEMMA FloodStart ==
  ASSUME GridTypeOK, NEW bound \in {0, Cap}, Flood(bound)
  PROVE  /\ FloodInv'
         /\ grid' \in [blocked : SUBSET Cell, cost : [Cell -> Nat \cup {Infinity}],
                       parent : [Cell -> Cell \cup {None}]]
         /\ heap' \in SUBSET [cost : Nat, cell : Cell]
         /\ flood' \in [source : Cell \cup {None}, bound : {0, Cap}]
<1>1. /\ grid'.blocked = map
      /\ grid'.cost = [c \in Cell |-> IF c = pose THEN 0 ELSE Infinity]
      /\ grid'.parent = [c \in Cell |-> None]
      /\ heap' = {[cost |-> 0, cell |-> c] : c \in Cell \cap {pose}}
      /\ flood' = [source |-> pose, bound |-> bound]
  BY DEF Flood
<1>2. /\ grid' \in [blocked : SUBSET Cell, cost : [Cell -> Nat \cup {Infinity}],
                    parent : [Cell -> Cell \cup {None}]]
      /\ heap' \in SUBSET [cost : Nat, cell : Cell]
      /\ flood' \in [source : Cell \cup {None}, bound : {0, Cap}]
  BY DEF Flood, GridTypeOK
<1>3. \A c \in Cell : Reached(c)' <=> c = pose
  BY <1>1, GridAssumption DEF Reached
<1>4. \A c \in Cell : ~ Settled(c)'
  BY <1>1, <1>3 DEF Settled
<1>5. SourceFirst'
  BY <1>1, <1>3 DEF SourceFirst
<1>6. ParentsSettled'
  BY <1>1, <1>3 DEF ParentsSettled
<1>7. HeapAhead'
  <2> SUFFICES ASSUME NEW e \in heap'
               PROVE  Reached(e.cell)' /\ grid'.cost[e.cell] =< e.cost
    BY <1>4 DEF HeapAhead
  <2> QED BY <1>1, <1>3
<1>8. SettledRelaxed'
  BY <1>4 DEF SettledRelaxed
<1> QED BY <1>2, <1>5, <1>6, <1>7, <1>8 DEF FloodInv

----------------------------------------------------------------------------
(* The turns of the flood. *)

LEMMA SkipTurn ==
  ASSUME GridTypeOK, FloodInv, Skip
  PROVE  FloodInv' /\ \A c \in Cell : Settled(c)' <=> Settled(c)
<1>1. PICK e \in heap : Outdated(e) /\ heap' = heap \ {e}
  BY DEF Skip
<1>2. UNCHANGED << grid, flood >>
  BY DEF Skip
<1>3. \A c \in Cell : Reached(c)' <=> Reached(c)
  BY <1>2 DEF Reached
<1>4. e # [cost |-> grid.cost[e.cell], cell |-> e.cell]
  BY <1>1 DEF Outdated, FloodInv, HeapAhead, Reached, GridTypeOK
<1>5. \A c \in Cell : Settled(c)' <=> Settled(c)
  BY <1>1, <1>2, <1>3, <1>4 DEF Settled
<1>6. SourceFirst'
  BY <1>1, <1>2, <1>3 DEF FloodInv, SourceFirst
<1>7. ParentsSettled'
  BY <1>2, <1>3, <1>5 DEF FloodInv, ParentsSettled, Within
<1>8. HeapAhead'
  BY <1>1, <1>2, <1>3, <1>5 DEF FloodInv, HeapAhead, GridTypeOK
<1>9. SettledRelaxed'
  <2> SUFFICES ASSUME NEW c \in Cell, Settled(c), NEW d \in Neighbours(c) \ grid.blocked,
                      Within(grid.cost[c] + StepCost(c, d), flood.bound)
               PROVE  Reached(d) /\ grid.cost[d] =< grid.cost[c] + StepCost(c, d)
    BY <1>2, <1>3, <1>5, NeighbourCells DEF SettledRelaxed, Within
  <2> QED BY DEF FloodInv, SettledRelaxed
<1> QED BY <1>5, <1>6, <1>7, <1>8, <1>9 DEF FloodInv

\* What a turn that relaxes does: the popped cell is settled, cells already
\* settled keep their costs, and the improved ones wait in the heap.
LEMMA RelaxTurn ==
  ASSUME GridTypeOK, FloodInv, Relax
  PROVE  \E e \in heap :
           LET better == Improved(e)
           IN  /\ e.cell \in Cell /\ e.cost = grid.cost[e.cell] /\ e.cost \in Nat
               /\ \A f \in heap : e.cost =< f.cost
               /\ better \subseteq Neighbours(e.cell) \ grid.blocked
               /\ \A c \in Cell :
                    grid'.cost[c] = IF c \in better THEN e.cost + StepCost(e.cell, c)
                                                    ELSE grid.cost[c]
               /\ \A c \in Cell :
                    grid'.parent[c] = IF c \in better THEN e.cell ELSE grid.parent[c]
               /\ grid'.blocked = grid.blocked /\ flood' = flood
               /\ heap' = (heap \ {e}) \cup
                    {[cost |-> e.cost + StepCost(e.cell, d), cell |-> d] : d \in better}
               /\ \A c \in Cell : Reached(c)' <=> Reached(c) \/ c \in better
               /\ \A c \in Cell : Settled(c)' <=> Settled(c) \/ c = e.cell
               /\ \A c \in better : ~ Settled(c) /\ c # e.cell
               /\ ~ Settled(e.cell)
<1>1. PICK e \in heap :
        /\ Top(e) /\ ~ Outdated(e)
        /\ grid' = [grid EXCEPT
                      !.cost = [d \in Cell |-> IF d \in Improved(e)
                                               THEN e.cost + StepCost(e.cell, d) ELSE @[d]],
                      !.parent = [d \in Cell |-> IF d \in Improved(e) THEN e.cell ELSE @[d]]]
        /\ heap' = (heap \ {e}) \cup
             {[cost |-> e.cost + StepCost(e.cell, d), cell |-> d] : d \in Improved(e)}
        /\ flood' = flood
  BY DEF Relax
<1> DEFINE better == Improved(e)
<1>2. e.cell \in Cell /\ e.cost \in Nat /\ e = [cost |-> e.cost, cell |-> e.cell]
  BY DEF GridTypeOK
<1>3. e.cost = grid.cost[e.cell]
  <2>1. Reached(e.cell) /\ grid.cost[e.cell] =< e.cost /\ ~ (e.cost > grid.cost[e.cell])
    BY <1>1 DEF FloodInv, HeapAhead, Outdated
  <2>2. grid.cost[e.cell] \in Nat
    BY <1>2, <2>1 DEF Reached, GridTypeOK
  <2> QED BY <1>2, <2>1, <2>2
<1>4. \A f \in heap : f.cost \in Nat /\ e.cost =< f.cost
  BY <1>1, <1>2 DEF Top, GridTypeOK
<1>5. better \subseteq Neighbours(e.cell) \ grid.blocked
  BY DEF Improved
<1>6. /\ better \subseteq Cell
      /\ \A d \in better : d # e.cell /\ StepCost(e.cell, d) \in Nat \ {0}
      /\ \A d \in better : Less(e.cost + StepCost(e.cell, d), grid.cost[d])
  BY <1>2, <1>5, NeighbourCells, StepType DEF Improved
<1> HIDE DEF better
<1>7. /\ \A c \in Cell : grid'.cost[c] = IF c \in better THEN e.cost + StepCost(e.cell, c)
                                                         ELSE grid.cost[c]
      /\ \A c \in Cell : grid'.parent[c] = IF c \in better THEN e.cell ELSE grid.parent[c]
      /\ grid'.blocked = grid.blocked
  BY <1>1 DEF GridTypeOK, better
<1>8. heap' = (heap \ {e}) \cup
        {[cost |-> e.cost + StepCost(e.cell, d), cell |-> d] : d \in better}
  BY <1>1 DEF better
<1>9. \A c \in Cell : Reached(c)' <=> Reached(c) \/ c \in better
  BY <1>2, <1>6, <1>7, GridAssumption DEF Reached
<1>10. \A c \in better : ~ Settled(c)
  <2> SUFFICES ASSUME NEW c \in better, Settled(c) PROVE FALSE
    OBVIOUS
  <2>1. c \in Cell /\ Reached(c) /\ grid.cost[c] =< e.cost
    BY <1>1, <1>6 DEF FloodInv, HeapAhead, Settled
  <2>2. grid.cost[c] \in Nat
    BY <2>1 DEF Reached, GridTypeOK
  <2> QED BY <1>2, <1>6, <2>1, <2>2 DEF Less, Reached
<1>11. ~ Settled(e.cell)
  BY <1>2, <1>3 DEF Settled
<1>12. \A c \in Cell : Settled(c)' <=> Settled(c) \/ c = e.cell
  <2> SUFFICES ASSUME NEW c \in Cell PROVE Settled(c)' <=> Settled(c) \/ c = e.cell
    OBVIOUS
  <2>1. CASE c \in better
    <3>1. grid'.cost[c] = e.cost + StepCost(e.cell, c)
      BY <1>7, <2>1
    <3>2. [cost |-> grid'.cost[c], cell |-> c] \in heap'
      BY <1>8, <2>1, <3>1
    <3> QED BY <1>6, <1>10, <2>1, <3>2 DEF Settled
  <2>2. CASE c \notin better
    <3>1. grid'.cost[c] = grid.cost[c] /\ (Reached(c)' <=> Reached(c))
      BY <1>7, <1>9, <2>2
    <3>2. [cost |-> grid.cost[c], cell |-> c] \in heap'
            <=> [cost |-> grid.cost[c], cell |-> c] \in heap \ {e}
      BY <1>8, <2>2
    <3>3. CASE c = e.cell
      <4>1. Reached(c)
        BY <1>1, <3>3 DEF FloodInv, HeapAhead
      <4> QED BY <1>2, <1>3, <3>1, <3>2, <3>3, <4>1 DEF Settled
    <3>4. CASE c # e.cell
      <4>1. [cost |-> grid.cost[c], cell |-> c] # e
        BY <1>2, <3>4
      <4> QED BY <3>1, <3>2, <3>4, <4>1 DEF Settled
    <3> QED BY <3>3, <3>4
  <2> QED BY <2>1, <2>2
<1> QED
  BY <1>1, <1>2, <1>3, <1>4, <1>5, <1>6, <1>7, <1>8, <1>9, <1>10, <1>11, <1>12 DEF better

LEMMA RelaxKeeps ==
  ASSUME GridTypeOK, FloodInv, Relax
  PROVE  FloodInv'
<1>1. PICK e \in heap :
        /\ e.cell \in Cell /\ e.cost = grid.cost[e.cell] /\ e.cost \in Nat
        /\ \A f \in heap : e.cost =< f.cost
        /\ Improved(e) \subseteq Neighbours(e.cell) \ grid.blocked
        /\ \A c \in Cell :
             grid'.cost[c] = IF c \in Improved(e) THEN e.cost + StepCost(e.cell, c)
                                                  ELSE grid.cost[c]
        /\ \A c \in Cell :
             grid'.parent[c] = IF c \in Improved(e) THEN e.cell ELSE grid.parent[c]
        /\ grid'.blocked = grid.blocked /\ flood' = flood
        /\ heap' = (heap \ {e}) \cup
             {[cost |-> e.cost + StepCost(e.cell, d), cell |-> d] : d \in Improved(e)}
        /\ \A c \in Cell : Reached(c)' <=> Reached(c) \/ c \in Improved(e)
        /\ \A c \in Cell : Settled(c)' <=> Settled(c) \/ c = e.cell
        /\ \A c \in Improved(e) : ~ Settled(c) /\ c # e.cell
        /\ ~ Settled(e.cell)
  BY RelaxTurn
<1> DEFINE better == Improved(e)
<1>2. /\ better \subseteq Cell
      /\ \A d \in better : StepCost(e.cell, d) \in Nat \ {0}
      /\ \A d \in better : /\ Within(e.cost + StepCost(e.cell, d), flood.bound)
                           /\ Less(e.cost + StepCost(e.cell, d), grid.cost[d])
  BY <1>1, NeighbourCells, StepType DEF Improved
<1>3. \A d \in Neighbours(e.cell) \ grid.blocked :
        /\ Within(e.cost + StepCost(e.cell, d), flood.bound)
        /\ d \notin better
        => ~ Less(e.cost + StepCost(e.cell, d), grid.cost[d])
  BY DEF Improved
<1> HIDE DEF better
<1>4. /\ \A c \in Cell : c \in better => grid'.cost[c] = e.cost + StepCost(e.cell, c)
                                         /\ grid'.parent[c] = e.cell
      /\ \A c \in Cell : c \notin better => grid'.cost[c] = grid.cost[c]
                                            /\ grid'.parent[c] = grid.parent[c]
  BY <1>1 DEF better
<1>5. \A c \in Cell : Reached(c) => grid.cost[c] \in Nat
  BY DEF Reached, GridTypeOK
<1>6. \A c \in better : Reached(c) => e.cost + StepCost(e.cell, c) < grid.cost[c]
  BY <1>2 DEF Less, Reached
<1>7. \A c \in Cell : Settled(c)' => grid'.cost[c] = grid.cost[c] /\ grid.cost[c] =< e.cost
                                     /\ Reached(c)
  <2> SUFFICES ASSUME NEW c \in Cell, Settled(c)'
               PROVE  grid'.cost[c] = grid.cost[c] /\ grid.cost[c] =< e.cost /\ Reached(c)
    OBVIOUS
  <2>1. c \notin better
    BY <1>1 DEF better
  <2>2. CASE c = e.cell
    BY <1>1, <1>4, <2>1, <2>2 DEF FloodInv, HeapAhead
  <2>3. CASE Settled(c)
    BY <1>1, <1>4, <2>1, <2>3 DEF FloodInv, HeapAhead, Settled
  <2> QED BY <1>1, <2>2, <2>3
<1>8. SourceFirst'
  <2>1. flood.source \in Cell
    BY <1>1 DEF FloodInv, SourceFirst
  <2>2. flood.source \notin better
    <3>1. grid.cost[flood.source] = 0
      BY <2>1 DEF FloodInv, SourceFirst
    <3> QED BY <1>1, <1>2, <3>1, GridAssumption DEF Less
  <2> QED BY <1>1, <1>4, <2>1, <2>2 DEF FloodInv, SourceFirst
<1>9. ParentsSettled'
  <2> SUFFICES ASSUME NEW c \in Cell, Reached(c)', c # flood.source
               PROVE  \E p \in Cell :
                        /\ p = grid'.parent[c]
                        /\ c \notin grid.blocked
                        /\ Within(grid'.cost[c], flood.bound)
                        /\ c \in Neighbours(p)
                        /\ Settled(p)'
                        /\ grid'.cost[c] = grid'.cost[p] + StepCost(p, c)
    BY <1>1 DEF ParentsSettled, Within
  <2>1. CASE c \in better
    <3>1. grid'.parent[c] = e.cell /\ grid'.cost[c] = e.cost + StepCost(e.cell, c)
      BY <1>4, <2>1
    <3>2. e.cell \notin better
      BY <1>1 DEF better
    <3>3. e.cell \in Cell /\ grid'.cost[e.cell] = e.cost /\ Settled(e.cell)'
      BY <1>1, <1>4, <3>2
    <3>4. c \in Neighbours(e.cell) \ grid.blocked
      BY <1>1, <2>1 DEF better
    <3>5. Within(grid'.cost[c], flood.bound)
      BY <1>2, <2>1, <3>1
    <3> QED BY <3>1, <3>3, <3>4, <3>5
  <2>2. CASE c \notin better
    <3>1. Reached(c)
      BY <1>1, <2>2 DEF better
    <3>2. PICK p \in Cell :
            /\ p = grid.parent[c]
            /\ c \notin grid.blocked
            /\ Within(grid.cost[c], flood.bound)
            /\ c \in Neighbours(p)
            /\ Settled(p)
            /\ grid.cost[c] = grid.cost[p] + StepCost(p, c)
      BY <3>1 DEF FloodInv, ParentsSettled
    <3>3. Settled(p)' /\ grid'.cost[p] = grid.cost[p]
      BY <1>1, <1>7, <3>2
    <3>4. grid'.cost[c] = grid.cost[c] /\ grid'.parent[c] = grid.parent[c]
      BY <1>4, <2>2
    <3> QED BY <3>2, <3>3, <3>4
  <2> QED BY <2>1, <2>2
<1>10. HeapAhead'
  <2> SUFFICES ASSUME NEW f \in heap'
               PROVE  /\ Reached(f.cell)' /\ grid'.cost[f.cell] =< f.cost
                      /\ \A c \in Cell : Settled(c)' => grid'.cost[c] =< f.cost
    BY DEF HeapAhead
  <2>1. CASE f \in heap
    <3>1. f.cell \in Cell /\ f.cost \in Nat /\ Reached(f.cell) /\ grid.cost[f.cell] =< f.cost
      BY <2>1 DEF FloodInv, HeapAhead, GridTypeOK
    <3>2. Reached(f.cell)' /\ grid'.cost[f.cell] =< f.cost
      BY <1>1, <1>2, <1>4, <1>5, <1>6, <3>1
    <3>3. \A c \in Cell : Settled(c)' => grid'.cost[c] =< f.cost
      BY <1>1, <1>5, <1>7, <2>1, <3>1
    <3> QED BY <3>2, <3>3
  <2>2. CASE f \notin heap
    <3>1. PICK d \in better : f = [cost |-> e.cost + StepCost(e.cell, d), cell |-> d]
      BY <1>1, <2>2 DEF better
    <3>2. d \in Cell /\ Reached(d)' /\ grid'.cost[d] = f.cost /\ f.cost > e.cost /\ f.cost \in Nat
      BY <1>1, <1>2, <1>4, <3>1 DEF better
    <3>3. \A c \in Cell : Settled(c)' => grid'.cost[c] =< f.cost
      BY <1>1, <1>5, <1>7, <3>2
    <3> QED BY <3>1, <3>2, <3>3
  <2> QED BY <2>1, <2>2
<1>11. SettledRelaxed'
  <2> SUFFICES ASSUME NEW c \in Cell, Settled(c)', NEW d \in Neighbours(c) \ grid.blocked,
                      Within(grid'.cost[c] + StepCost(c, d), flood.bound)
               PROVE  Reached(d)' /\ grid'.cost[d] =< grid'.cost[c] + StepCost(c, d)
    BY <1>1 DEF SettledRelaxed, Within
  <2>1. /\ grid'.cost[c] = grid.cost[c] /\ grid.cost[c] \in Nat
        /\ d \in Cell /\ StepCost(c, d) \in Nat
    BY <1>5, <1>7, NeighbourCells, StepType
  <2>2. CASE c = e.cell
    <3>1. CASE d \in better
      BY <1>1, <1>4, <2>1, <2>2, <3>1 DEF better
    <3>2. CASE d \notin better
      <4>1. ~ Less(e.cost + StepCost(e.cell, d), grid.cost[d])
        BY <1>1, <1>3, <2>1, <2>2, <3>2
      <4>2. Reached(d) /\ ~ (e.cost + StepCost(e.cell, d) < grid.cost[d])
        BY <4>1 DEF Less, Reached
      <4>3. grid.cost[d] \in Nat
        BY <1>5, <2>1, <4>2
      <4> QED BY <1>1, <1>4, <2>1, <2>2, <3>2, <4>2, <4>3
    <3> QED BY <3>1, <3>2
  <2>3. CASE c # e.cell
    <3>1. Settled(c)
      BY <1>1, <2>3
    <3>2. Reached(d) /\ grid.cost[d] =< grid.cost[c] + StepCost(c, d)
      BY <2>1, <3>1 DEF FloodInv, SettledRelaxed
    <3>3. CASE d \in better
      BY <1>1, <1>2, <1>4, <1>5, <1>6, <2>1, <3>2, <3>3
    <3>4. CASE d \notin better
      BY <1>1, <1>4, <2>1, <3>2, <3>4
    <3> QED BY <3>3, <3>4
  <2> QED BY <2>2, <2>3
<1> QED BY <1>8, <1>9, <1>10, <1>11 DEF FloodInv

LEMMA RelaxType ==
  ASSUME GridTypeOK, Relax
  PROVE  GridTypeOK'
<1>1. PICK e \in heap :
        /\ grid' = [grid EXCEPT
                      !.cost = [d \in Cell |-> IF d \in Improved(e)
                                               THEN e.cost + StepCost(e.cell, d) ELSE @[d]],
                      !.parent = [d \in Cell |-> IF d \in Improved(e) THEN e.cell ELSE @[d]]]
        /\ heap' = (heap \ {e}) \cup
             {[cost |-> e.cost + StepCost(e.cell, d), cell |-> d] : d \in Improved(e)}
  BY DEF Relax
<1>2. e.cell \in Cell /\ e.cost \in Nat
  BY DEF GridTypeOK
<1>3. \A d \in Improved(e) : d \in Cell /\ e.cost + StepCost(e.cell, d) \in Nat
  <2> TAKE d \in Improved(e)
  <2>1. d \in Neighbours(e.cell) /\ StepCost(e.cell, d) \in Nat
    BY StepType DEF Improved
  <2> QED BY <1>2, <2>1, NeighbourCells
<1>4. heap' \in SUBSET [cost : Nat, cell : Cell]
  BY <1>1, <1>3 DEF GridTypeOK
<1>5. grid' \in [blocked : SUBSET Cell, cost : [Cell -> Nat \cup {Infinity}],
                 parent : [Cell -> Cell \cup {None}]]
  <2> DEFINE newcost == [d \in Cell |-> IF d \in Improved(e)
                                        THEN e.cost + StepCost(e.cell, d) ELSE grid.cost[d]]
             newparent == [d \in Cell |-> IF d \in Improved(e) THEN e.cell ELSE grid.parent[d]]
  <2>1. newcost \in [Cell -> Nat \cup {Infinity}]
    BY <1>3 DEF GridTypeOK
  <2>2. newparent \in [Cell -> Cell \cup {None}]
    BY <1>2 DEF GridTypeOK
  <2>3. grid' = [grid EXCEPT !.cost = newcost, !.parent = newparent]
    BY <1>1
  <2> HIDE DEF newcost, newparent
  <2> QED BY <2>1, <2>2, <2>3 DEF GridTypeOK
<1>6. UNCHANGED << map, addr, pose, tick, route, flood, valid, key, newer, spent >>
  BY DEF Relax
<1> QED BY <1>4, <1>5, <1>6 DEF GridTypeOK

----------------------------------------------------------------------------
(* Every step. *)

LEMMA GridSameFlood ==
  ASSUME UNCHANGED << grid, heap, flood >>
  PROVE  FloodInv' <=> FloodInv
BY DEF FloodInv, SourceFirst, ParentsSettled, HeapAhead, SettledRelaxed, Settled, Reached, Within

LEMMA GridStepInv == GridInv /\ [Next]_vars => GridInv'
<1> SUFFICES ASSUME GridInv, [Next]_vars PROVE GridInv'
  OBVIOUS
<1> USE DEF GridInv
<1>0. Cap # 0 /\ None \notin Cell
  BY GridAssumption, CellIsNat
<1>1. CASE MapArrives
  <2>1. GridTypeOK'
    BY <1>1, GridAssumption DEF MapArrives, Happens, GridTypeOK
  <2>2. FloodInv'
    BY <1>1, GridSameFlood DEF MapArrives
  <2>3. TickInv' /\ PathInv'
    BY <1>1 DEF MapArrives, Happens, TickInv, PathInv
  <2>4. CacheInv'
    BY <1>1 DEF MapArrives, CacheInv, GridTypeOK
  <2> QED BY <2>1, <2>2, <2>3, <2>4
<1>2. CASE Move
  <2>1. GridTypeOK'
    BY <1>2, GridAssumption DEF Move, Happens, GridTypeOK
  <2>2. FloodInv'
    BY <1>2, GridSameFlood DEF Move
  <2>3. TickInv' /\ PathInv'
    BY <1>2 DEF Move, Happens, TickInv, PathInv
  <2>4. CacheInv'
    BY <1>2 DEF Move, CacheInv
  <2> QED BY <2>1, <2>2, <2>3, <2>4
<1>3. CASE PlanFlood
  <2>1. Flood(Cap)
    BY <1>3 DEF PlanFlood
  <2>2. FloodInv'
    BY <2>1, FloodStart
  <2>3. GridTypeOK'
    <3>1. /\ grid' \in [blocked : SUBSET Cell, cost : [Cell -> Nat \cup {Infinity}],
                      parent : [Cell -> Cell \cup {None}]]
          /\ heap' \in SUBSET [cost : Nat, cell : Cell]
          /\ flood' \in [source : Cell \cup {None}, bound : {0, Cap}]
      BY <2>1, FloodStart
    <3>2. UNCHANGED << map, addr, pose, route, spent >> /\ newer' = 0
      BY <2>1 DEF Flood
    <3>3. /\ tick' \in {"plan", "exploit"} /\ valid' \in BOOLEAN
          /\ key' \in [addr : Address, pose : Cell \cup {None}]
      BY <1>3 DEF PlanFlood, GridTypeOK
    <3> QED BY <3>1, <3>2, <3>3 DEF GridTypeOK
  <2>4. TickInv' /\ PathInv' /\ CacheInv'
    BY <1>3 DEF PlanFlood, Flood, TickInv, PathInv, CacheInv
  <2> QED BY <2>2, <2>3, <2>4
<1>4. CASE ExploitFlood
  <2>1. Flood(0)
    BY <1>4 DEF ExploitFlood
  <2>2. FloodInv'
    BY <2>1, FloodStart
  <2>3. GridTypeOK'
    <3>1. /\ grid' \in [blocked : SUBSET Cell, cost : [Cell -> Nat \cup {Infinity}],
                      parent : [Cell -> Cell \cup {None}]]
          /\ heap' \in SUBSET [cost : Nat, cell : Cell]
          /\ flood' \in [source : Cell \cup {None}, bound : {0, Cap}]
      BY <2>1, FloodStart
    <3>2. UNCHANGED << map, addr, pose, route, spent >> /\ newer' = 0
      BY <2>1 DEF Flood
    <3>3. /\ tick' \in {"plan", "exploit"} /\ valid' \in BOOLEAN
          /\ key' \in [addr : Address, pose : Cell \cup {None}]
      BY <1>4 DEF ExploitFlood, GridTypeOK
    <3> QED BY <3>1, <3>2, <3>3 DEF GridTypeOK
  <2>4. TickInv' /\ PathInv' /\ CacheInv'
    BY <1>4 DEF ExploitFlood, Flood, TickInv, PathInv, CacheInv
  <2> QED BY <2>2, <2>3, <2>4
<1>5. CASE Skip
  <2>1. GridTypeOK' /\ TickInv' /\ PathInv' /\ CacheInv'
    BY <1>5 DEF Skip, GridTypeOK, TickInv, PathInv, CacheInv, Reached
  <2> QED BY <1>5, <2>1, SkipTurn
<1>6. CASE Relax
  <2>1. tick \notin {"none", "path"}
    BY <1>6 DEF Relax, TickInv
  <2>2. grid'.blocked = grid.blocked
    BY <1>6, RelaxTurn
  <2>3. TickInv' /\ PathInv' /\ CacheInv'
    BY <1>6, <2>1, <2>2 DEF Relax, TickInv, PathInv, CacheInv
  <2> QED BY <1>6, <2>3, RelaxKeeps, RelaxType
<1>7. CASE Extract
  <2>1. PICK c \in Cell : Reached(c) /\ route' = << c >>
    BY <1>7 DEF Extract, Reached
  <2>2. GridTypeOK' /\ TickInv' /\ CacheInv'
    BY <1>7, <2>1 DEF Extract, GridTypeOK, TickInv, CacheInv
  <2>3. FloodInv'
    BY <1>7, GridSameFlood DEF Extract
  <2>4. PathInv'
    BY <1>7, <2>1 DEF Extract, PathInv, Reached
  <2> QED BY <2>2, <2>3, <2>4
<1>8. CASE WalkBack
  <2> DEFINE front == route[1]
             back  == grid.parent[front]
  <2>1. /\ tick = "path" /\ back # None /\ route' = << back >> \o route
        /\ UNCHANGED << map, addr, pose, tick, grid, heap, flood, valid, key, newer, spent >>
    BY <1>8 DEF WalkBack
  <2>2. route \in Seq(Cell) /\ route # << >> /\ front \in Cell /\ Reached(front)
    BY <2>1 DEF PathInv, GridTypeOK
  <2>3. front # flood.source
    BY <2>1, <2>2 DEF FloodInv, SourceFirst
  <2>4. /\ back \in Cell /\ front \in Neighbours(back) \ grid.blocked /\ Reached(back)
        /\ grid.cost[front] = grid.cost[back] + StepCost(back, front)
    BY <2>2, <2>3 DEF FloodInv, ParentsSettled, Settled
  <2> HIDE DEF front, back
  <2>5. /\ route' \in Seq(Cell) /\ Len(route') = Len(route) + 1 /\ route'[1] = back
        /\ \A i \in 2 .. Len(route') : route'[i] = route[i - 1]
    BY <2>1, <2>2, <2>4
  <2>6. GridTypeOK' /\ TickInv' /\ CacheInv'
    BY <2>1, <2>5 DEF GridTypeOK, TickInv, CacheInv
  <2>7. FloodInv'
    BY <2>1, GridSameFlood
  <2>8. PathInv'
    <3>1. route' # << >>
      BY <2>2, <2>5
    <3>2. \A i \in 1 .. Len(route') : Reached(route'[i])
      BY <2>1, <2>2, <2>4, <2>5 DEF PathInv
    <3>3. \A i \in 2 .. Len(route') :
            /\ route'[i] \in Neighbours(route'[i - 1]) \ grid.blocked
            /\ grid.cost[route'[i]] =
                 grid.cost[route'[i - 1]] + StepCost(route'[i - 1], route'[i])
      <4> TAKE i \in 2 .. Len(route')
      <4>1. CASE i = 2
        <5>1. route'[2] = front /\ route'[1] = back
          BY <2>5, <4>1 DEF front
        <5> QED BY <2>4, <4>1, <5>1
      <4>2. CASE i > 2
        <5>1. i - 1 \in 2 .. Len(route) /\ i - 1 \in 2 .. Len(route')
          BY <2>2, <2>5, <4>2
        <5>2. route'[i] = route[i - 1] /\ route'[i - 1] = route[(i - 1) - 1]
          BY <2>5, <5>1
        <5>3. /\ route[i - 1] \in Neighbours(route[(i - 1) - 1]) \ grid.blocked
              /\ grid.cost[route[i - 1]] =
                   grid.cost[route[(i - 1) - 1]] + StepCost(route[(i - 1) - 1], route[i - 1])
          BY <2>1, <5>1 DEF PathInv
        <5> QED BY <5>2, <5>3
      <4> QED BY <4>1, <4>2
    <3> QED BY <2>1, <3>1, <3>2, <3>3 DEF PathInv, Reached
  <2> QED BY <2>6, <2>7, <2>8
<1>9. CASE Scored
  <2>1. FloodInv'
    BY <1>9, GridSameFlood DEF Scored
  <2>2. GridTypeOK' /\ TickInv' /\ PathInv' /\ CacheInv'
    BY <1>9 DEF Scored, GridTypeOK, TickInv, PathInv, CacheInv
  <2> QED BY <2>1, <2>2
<1>10. CASE TickEnds
  <2>1. FloodInv'
    BY <1>10, GridSameFlood DEF TickEnds
  <2>2. GridTypeOK' /\ TickInv' /\ PathInv' /\ CacheInv'
    BY <1>10 DEF TickEnds, GridTypeOK, TickInv, PathInv, CacheInv
  <2> QED BY <2>1, <2>2
<1>11. CASE UNCHANGED vars
  <2>1. FloodInv'
    BY <1>11, GridSameFlood DEF vars
  <2>2. GridTypeOK' /\ TickInv' /\ PathInv' /\ CacheInv'
    BY <1>11 DEF vars, GridTypeOK, TickInv, PathInv, CacheInv, Reached
  <2> QED BY <2>1, <2>2
<1> QED
  BY <1>1, <1>2, <1>3, <1>4, <1>5, <1>6, <1>7, <1>8, <1>9, <1>10, <1>11 DEF Next, TickStep

LEMMA GridAlways == Spec => []GridInv
BY GridInitInv, GridStepInv, PTL DEF Spec

----------------------------------------------------------------------------
(* What the flood and its paths are worth. *)

\* Once the heap is empty everything reached is settled.
LEMMA FloodDone ==
  ASSUME GridInv, heap = {}
  PROVE  /\ \A c \in Cell : Reached(c) => grid.cost[c] \in Nat
         /\ \A c \in Cell : Reached(c) /\ c # flood.source =>
              /\ c \notin grid.blocked
              /\ flood.bound = 0 \/ grid.cost[c] =< flood.bound
              /\ \E b \in Neighbours(c) :
                   Reached(b) /\ grid.cost[c] = grid.cost[b] + StepCost(b, c)
         /\ \A b \in Cell : \A c \in Neighbours(b) \ grid.blocked :
              /\ Reached(b)
              /\ flood.bound = 0 \/ grid.cost[b] + StepCost(b, c) =< flood.bound
              => Reached(c) /\ grid.cost[c] =< grid.cost[b] + StepCost(b, c)
<1> USE DEF GridInv
<1>1. \A c \in Cell : Settled(c) <=> Reached(c)
  BY DEF Settled
<1>2. flood.bound \in Nat
  BY GridAssumption DEF GridTypeOK
<1>3. \A cost : Within(cost, flood.bound) <=> flood.bound = 0 \/ cost =< flood.bound
  BY <1>2 DEF Within
<1>4. \A c \in Cell : Reached(c) => grid.cost[c] \in Nat
  BY DEF Reached, GridTypeOK
<1>5. ASSUME NEW c \in Cell, Reached(c), c # flood.source
      PROVE  /\ c \notin grid.blocked
             /\ flood.bound = 0 \/ grid.cost[c] =< flood.bound
             /\ \E b \in Neighbours(c) :
                  Reached(b) /\ grid.cost[c] = grid.cost[b] + StepCost(b, c)
  <2>1. PICK p \in Cell :
          /\ p = grid.parent[c]
          /\ c \notin grid.blocked
          /\ Within(grid.cost[c], flood.bound)
          /\ c \in Neighbours(p)
          /\ Settled(p)
          /\ grid.cost[c] = grid.cost[p] + StepCost(p, c)
    BY <1>5 DEF FloodInv, ParentsSettled
  <2>2. p \in Neighbours(c)
    BY <2>1, NeighbourCells
  <2> QED BY <1>1, <1>3, <2>1, <2>2
<1>6. ASSUME NEW b \in Cell, NEW c \in Neighbours(b) \ grid.blocked, Reached(b),
             flood.bound = 0 \/ grid.cost[b] + StepCost(b, c) =< flood.bound
      PROVE  Reached(c) /\ grid.cost[c] =< grid.cost[b] + StepCost(b, c)
  BY <1>1, <1>3, <1>6 DEF FloodInv, SettledRelaxed
<1> QED BY <1>4, <1>5, <1>6

LEMMA ExactByInv == GridInv => FloodExact
<1> SUFFICES ASSUME GridInv, heap = {}
             PROVE  FloodExact
  BY DEF FloodExact
<1> DEFINE over(c) == {d \in {grid.cost[b] + StepCost(b, c) :
                                b \in {n \in Neighbours(c) : grid.cost[n] # Infinity}} :
                         flood.bound = 0 \/ d =< flood.bound}
<1>1. CASE flood.source \notin Cell
  BY <1>1 DEF FloodExact, GridInv, FloodInv, SourceFirst, Reached
<1>2. CASE flood.source \in Cell
  <2>1. grid.cost[flood.source] = 0
    BY <1>2 DEF GridInv, FloodInv, SourceFirst
  <2>2. ASSUME NEW c \in Cell \ {flood.source}
        PROVE  IF c \in grid.blocked \/ over(c) = {} THEN grid.cost[c] = Infinity
               ELSE grid.cost[c] \in over(c) /\ \A d \in over(c) : grid.cost[c] =< d
    <3>1. Reached(c) => c \notin grid.blocked /\ grid.cost[c] \in over(c)
      <4> SUFFICES ASSUME Reached(c)
                   PROVE  c \notin grid.blocked /\ grid.cost[c] \in over(c)
        OBVIOUS
      <4>1. /\ c \notin grid.blocked
            /\ flood.bound = 0 \/ grid.cost[c] =< flood.bound
        BY FloodDone
      <4>2. PICK b \in Neighbours(c) :
              Reached(b) /\ grid.cost[c] = grid.cost[b] + StepCost(b, c)
        BY FloodDone
      <4> QED BY <4>1, <4>2 DEF Reached
    <3>2. ASSUME NEW d \in over(c), c \notin grid.blocked
          PROVE  Reached(c) /\ grid.cost[c] =< d
      <4>1. PICK b \in Neighbours(c) :
              /\ Reached(b) /\ d = grid.cost[b] + StepCost(b, c)
              /\ flood.bound = 0 \/ d =< flood.bound
        BY DEF Reached
      <4>2. b \in Cell /\ c \in Neighbours(b) \ grid.blocked
        BY <3>2, NeighbourCells
      <4> QED BY <4>1, <4>2, FloodDone
    <3> HIDE DEF over
    <3>3. CASE c \in grid.blocked \/ over(c) = {}
      BY <3>1, <3>3 DEF Reached
    <3>4. CASE c \notin grid.blocked /\ over(c) # {}
      BY <3>1, <3>2, <3>4
    <3> QED BY <3>3, <3>4
  <2> QED BY <1>2, <2>1, <2>2 DEF FloodExact
<1> QED BY <1>1, <1>2

\* Types of the cost grid and of its cache.
THEOREM GridTypes == Spec => []GridTypeOK
<1>1. GridInv => GridTypeOK
  BY DEF GridInv
<1> QED BY <1>1, GridAlways, PTL

\* floodFrom: from any cell of any map, with or without a bound, the costs are
\* the least over the neighbours a step further, and infinite elsewhere.
THEOREM FloodIsExact == Spec => []FloodExact
BY ExactByInv, GridAlways, PTL

\* extractPath: the path drives around the obstacles of the map latched now, is
\* as long as the cost of its goal says, and starts at the robot.
THEOREM PathsAreExact == Spec => []PathsAreShortest
<1>1. GridInv => PathsAreShortest
  <2> SUFFICES ASSUME GridInv, tick = "path" PROVE PathsAreShortest
    BY DEF PathsAreShortest
  <2>1. /\ route \in Seq(Cell) /\ route # << >> /\ Reached(route[1])
        /\ grid.blocked = map /\ flood.source = pose
        /\ \A i \in 2 .. Len(route) :
             /\ route[i] \in Neighbours(route[i - 1]) \ grid.blocked
             /\ grid.cost[route[i]] =
                  grid.cost[route[i - 1]] + StepCost(route[i - 1], route[i])
    BY DEF GridInv, GridTypeOK, PathInv, TickInv
  <2>2. route[1] \in Cell
    BY <2>1
  <2>3. ASSUME grid.parent[route[1]] = None
        PROVE  route[1] = pose /\ grid.cost[pose] = 0
    <3>1. route[1] = flood.source
      BY <2>1, <2>2, <2>3, CellIsNat DEF GridInv, FloodInv, ParentsSettled
    <3> QED BY <2>1, <2>2, <3>1 DEF GridInv, FloodInv, SourceFirst
  <2> QED BY <2>1, <2>3 DEF PathsAreShortest
<1> QED BY <1>1, GridAlways, PTL

\* The cache of doExploitPlan: what is read without a new flood comes from an
\* unbounded one, and the map after the flooded one is noticed.
THEOREM CacheAlwaysHolds == Spec => []CachedFloodHolds
<1>1. GridInv => CachedFloodHolds
  BY DEF GridInv, CacheInv, CachedFloodHolds, Stale
<1> QED BY <1>1, GridAlways, PTL

----------------------------------------------------------------------------
(* Walks: what a shortest path is measured against. *)

\* A walk from the source around the obstacles, with the length of each prefix.
IsWalk(w) ==
  /\ w \in Seq([cell : Cell, length : Nat]) /\ w # << >>
  /\ w[1] = [cell |-> flood.source, length |-> 0]
  /\ \A i \in 2 .. Len(w) :
       /\ w[i].cell \in Neighbours(w[i - 1].cell) \ grid.blocked
       /\ w[i].length = w[i - 1].length + StepCost(w[i - 1].cell, w[i].cell)

\* After a flood no walk within the bound is shorter than the cost of its end.
NoWalkIsShorter ==
  heap = {} =>
    \A w : IsWalk(w) => \A i \in 1 .. Len(w) :
      (flood.bound = 0 \/ w[i].length =< flood.bound) =>
        Reached(w[i].cell) /\ grid.cost[w[i].cell] =< w[i].length

\* floodFrom is a shortest-path algorithm: by PathsAreExact there is a path of
\* that cost, and by this no walk of any shape and length is shorter.
THEOREM CostsAreShortest == Spec => []NoWalkIsShorter
<1>1. ASSUME GridInv, heap = {}, NEW w, IsWalk(w)
      PROVE  \A i \in 1 .. Len(w) :
               (flood.bound = 0 \/ w[i].length =< flood.bound) =>
                 Reached(w[i].cell) /\ grid.cost[w[i].cell] =< w[i].length
  <2> DEFINE Good(i) == (flood.bound = 0 \/ w[i].length =< flood.bound) =>
                          Reached(w[i].cell) /\ grid.cost[w[i].cell] =< w[i].length
             Bad == {i \in 1 .. Len(w) : ~ Good(i)}
  <2>1. /\ Len(w) \in Nat /\ Len(w) >= 1
        /\ \A i \in 1 .. Len(w) : w[i].cell \in Cell /\ w[i].length \in Nat
    <3>1. w \in Seq([cell : Cell, length : Nat]) /\ w # << >>
      BY <1>1 DEF IsWalk
    <3> DEFINE Leg == [cell : Cell, length : Nat]
    <3>2. \A i \in 1 .. Len(w) : w[i] \in Leg
      <4>1. w \in Seq(Leg)
        BY <3>1
      <4> HIDE DEF Leg
      <4> QED BY <4>1
    <3> QED BY <3>1, <3>2
  <2>2. SUFFICES ASSUME Bad # {} PROVE FALSE
    OBVIOUS
  <2>3. PICK k \in Bad : \A j \in Bad : k =< j
    <3>1. Bad \in SUBSET Int /\ 1 \in Int /\ \A j \in Bad : 1 =< j
      BY <2>1
    <3> HIDE DEF Bad
    <3> QED BY <2>2, <3>1, Least, Zenon
  <2>4. k \in 1 .. Len(w) /\ ~ Good(k)
    OBVIOUS
  <2>5. CASE k = 1
    <3>1. w[1].cell = flood.source /\ w[1].length = 0 /\ w[1].cell \in Cell
      BY <1>1, <2>1 DEF IsWalk
    <3>2. grid.cost[w[1].cell] = 0
      BY <1>1, <3>1 DEF GridInv, FloodInv, SourceFirst
    <3>3. Reached(w[1].cell)
      BY <3>2, GridAssumption DEF Reached
    <3> QED BY <2>4, <2>5, <3>1, <3>2, <3>3
  <2>6. CASE k # 1
    <3> DEFINE j == k - 1
    <3>1. j \in 1 .. Len(w) /\ k \in 2 .. Len(w) /\ Good(j)
      BY <2>1, <2>3, <2>4, <2>6
    <3>2. /\ w[k].cell \in Neighbours(w[j].cell) \ grid.blocked
          /\ w[k].length = w[j].length + StepCost(w[j].cell, w[k].cell)
      BY <1>1, <3>1 DEF IsWalk
    <3>3. /\ w[j].cell \in Cell /\ w[j].length \in Nat /\ w[k].length \in Nat
          /\ StepCost(w[j].cell, w[k].cell) \in Nat
      BY <2>1, <3>1, StepType
    <3> HIDE DEF j
    <3>4. flood.bound = 0 \/ w[k].length =< flood.bound
      BY <2>4
    <3>5. flood.bound \in Nat
      BY <1>1, GridAssumption DEF GridInv, GridTypeOK
    <3>6. Reached(w[j].cell) /\ grid.cost[w[j].cell] =< w[j].length
      BY <3>1, <3>2, <3>3, <3>4, <3>5
    <3>7. grid.cost[w[j].cell] \in Nat
      BY <1>1, <3>3, <3>6, FloodDone
    <3>8. /\ Reached(w[k].cell)
          /\ grid.cost[w[k].cell] =< grid.cost[w[j].cell] + StepCost(w[j].cell, w[k].cell)
      <4>1. flood.bound = 0
              \/ grid.cost[w[j].cell] + StepCost(w[j].cell, w[k].cell) =< flood.bound
        BY <3>2, <3>3, <3>4, <3>5, <3>6, <3>7
      <4> QED BY <1>1, <3>2, <3>3, <3>6, <4>1, FloodDone
    <3>9. grid.cost[w[k].cell] \in Nat
      BY <1>1, <2>1, <2>4, <3>8, FloodDone
    <3> QED BY <2>4, <3>2, <3>3, <3>6, <3>7, <3>8, <3>9
  <2> QED BY <2>5, <2>6
<1>2. GridInv => NoWalkIsShorter
  BY <1>1 DEF NoWalkIsShorter
<1> QED BY <1>2, GridAlways, PTL

----------------------------------------------------------------------------
(* The loops end. *)

\* What a flood has settled is final, and every turn that relaxes settles a cell more.
SettledIsFinal ==
  [][/\ heap # {} => \A c \in Cell : Settled(c) => Settled(c)' /\ grid'.cost[c] = grid.cost[c]
     /\ Relax => \E c \in Cell : ~ Settled(c) /\ Settled(c)']_vars

\* The loop of floodFrom: no cell is expanded twice, so it relaxes at most once per cell.
THEOREM SettledStaysFinal == Spec => SettledIsFinal
<1>1. ASSUME GridInv, Next, heap # {}, NEW c \in Cell, Settled(c)
      PROVE  Settled(c)' /\ grid'.cost[c] = grid.cost[c]
  <2>1. tick \notin {"none", "path"}
    BY <1>1 DEF GridInv, TickInv
  <2>2. CASE Skip
    BY <1>1, <2>2, SkipTurn DEF Skip, GridInv
  <2>3. CASE Relax
    <3>1. PICK e \in heap :
            /\ \A d \in Cell :
                 grid'.cost[d] = IF d \in Improved(e) THEN e.cost + StepCost(e.cell, d)
                                                      ELSE grid.cost[d]
            /\ \A d \in Cell : Settled(d)' <=> Settled(d) \/ d = e.cell
            /\ \A d \in Improved(e) : ~ Settled(d)
      BY <1>1, <2>3, RelaxTurn DEF GridInv
    <3> QED BY <1>1, <3>1
  <2> QED
    BY <1>1, <2>1, <2>2, <2>3
       DEF Next, TickStep, MapArrives, Move, Happens, PlanFlood, ExploitFlood, Extract, WalkBack,
           Scored, TickEnds
<1>2. ASSUME GridInv, Relax
      PROVE  \E c \in Cell : ~ Settled(c) /\ Settled(c)'
  <2>1. PICK e \in heap :
          /\ e.cell \in Cell /\ ~ Settled(e.cell)
          /\ \A d \in Cell : Settled(d)' <=> Settled(d) \/ d = e.cell
    BY <1>2, RelaxTurn DEF GridInv
  <2> QED BY <2>1
<1>3. GridInv /\ [Next]_vars =>
        [/\ heap # {} => \A c \in Cell : Settled(c) => Settled(c)' /\ grid'.cost[c] = grid.cost[c]
         /\ Relax => \E c \in Cell : ~ Settled(c) /\ Settled(c)']_vars
  BY <1>1, <1>2
<1> QED BY <1>3, GridAlways, PTL DEF Spec, SettledIsFinal

\* A path under way visits no cell twice.
PathIsShort == Len(route) =< Width * Height

\* The loop of extractPath: the walk over the parents never turns in a circle, so it
\* is over after at most as many turns as the grid has cells.
THEOREM PathsEnd == Spec => []PathIsShort
<1>1. ASSUME GridInv
      PROVE  PathIsShort
  <2>1. route \in Seq(Cell) /\ Len(route) \in Nat
    BY <1>1 DEF GridInv, GridTypeOK
  <2>2. Width * Height \in Nat /\ IsFiniteSet(Cell) /\ Cardinality(Cell) = Width * Height
    <3>1. Width * Height \in Nat
      BY GridAssumption
    <3> DEFINE top == Width * Height - 1
    <3>2. top \in Int /\ Cell = 0 .. top /\ (IF 0 > top THEN 0 ELSE top - 0 + 1) = Width * Height
      BY <3>1 DEF Cell
    <3> HIDE DEF top
    <3>3. IsFiniteSet(0 .. top) /\ Cardinality(0 .. top) = IF 0 > top THEN 0 ELSE top - 0 + 1
      BY <3>2, FS_Interval, 0 \in Int
    <3> QED BY <3>1, <3>2, <3>3
  <2>3. IsFiniteSet(1 .. Len(route)) /\ Cardinality(1 .. Len(route)) = Len(route)
    BY <2>1, FS_Interval
  <2>4. CASE tick # "path"
    BY <1>1, <2>2, <2>4 DEF GridInv, TickInv, PathIsShort
  <2>5. CASE tick = "path"
    <3>1. \A i \in 1 .. Len(route) : route[i] \in Cell /\ grid.cost[route[i]] \in Nat
      BY <1>1, <2>1, <2>5 DEF GridInv, PathInv, GridTypeOK, Reached
    <3>2. \A i \in 2 .. Len(route) : grid.cost[route[i - 1]] < grid.cost[route[i]]
      <4> TAKE i \in 2 .. Len(route)
      <4>1. /\ grid.cost[route[i]] = grid.cost[route[i - 1]] + StepCost(route[i - 1], route[i])
            /\ StepCost(route[i - 1], route[i]) \in Nat \ {0}
        BY <1>1, <2>5, StepType DEF GridInv, PathInv
      <4>2. grid.cost[route[i - 1]] \in Nat
        BY <2>1, <3>1
      <4> QED BY <4>1, <4>2
    <3>3. \A i, j \in 1 .. Len(route) : i < j => grid.cost[route[i]] < grid.cost[route[j]]
      <4> SUFFICES ASSUME NEW i \in 1 .. Len(route)
                   PROVE  \A j \in 1 .. Len(route) :
                            i < j => grid.cost[route[i]] < grid.cost[route[j]]
        OBVIOUS
      <4> DEFINE Bad == {j \in 1 .. Len(route) :
                           i < j /\ ~ (grid.cost[route[i]] < grid.cost[route[j]])}
      <4>1. SUFFICES ASSUME Bad # {} PROVE FALSE
        OBVIOUS
      <4>2. PICK k \in Bad : \A j \in Bad : k =< j
        <5>1. Bad \in SUBSET Int /\ 1 \in Int /\ \A j \in Bad : 1 =< j
          BY <2>1
        <5> HIDE DEF Bad
        <5> QED BY <4>1, <5>1, Least, Zenon
      <4> DEFINE j == k - 1
      <4>3. /\ k \in 2 .. Len(route) /\ j \in 1 .. Len(route) /\ j \notin Bad
            /\ j = i \/ i < j
        BY <2>1, <4>2
      <4>4. grid.cost[route[j]] < grid.cost[route[k]]
        BY <3>2, <4>3
      <4>5. grid.cost[route[i]] =< grid.cost[route[j]]
        BY <3>1, <4>3
      <4> HIDE DEF j
      <4> QED BY <3>1, <4>2, <4>3, <4>4, <4>5
    <3> DEFINE f == [i \in 1 .. Len(route) |-> route[i]]
    <3>4. f \in [1 .. Len(route) -> Cell]
      BY <3>1
    <3>5. \A i, j \in 1 .. Len(route) : i # j => f[i] # f[j]
      <4> TAKE i, j \in 1 .. Len(route)
      <4>1. i < j \/ j < i \/ i = j
        BY <2>1
      <4> QED BY <3>1, <3>3, <4>1
    <3> HIDE DEF f
    <3>6. ~ (Cardinality(Cell) < Cardinality(1 .. Len(route)))
      BY <2>2, <2>3, <3>4, <3>5, FS_PigeonHole
    <3> QED BY <2>1, <2>2, <2>3, <3>6 DEF PathIsShort
  <2> QED BY <2>4, <2>5
<1> QED BY <1>1, GridAlways, PTL

----------------------------------------------------------------------------
(* The copy of the voxel map: heights. *)

LEMMA CellBounds ==
  ASSUME NEW z \in Int
  PROVE  /\ CellOf(z) \in Int
         /\ CellOf(z) * Res =< z /\ z < CellOf(z) * Res + Res
BY TerrainAssumption DEF CellOf

LEMMA HysteresisNat == Hysteresis \in Nat
BY TerrainAssumption DEF Hysteresis, Clamp

LEMMA ClampInside ==
  ASSUME NEW v \in Int, NEW low \in Int, NEW high \in Int, low =< high
  PROVE  Clamp(v, low, high) \in Int /\ low =< Clamp(v, low, high) /\ Clamp(v, low, high) =< high
BY DEF Clamp

LEMMA BandType ==
  ASSUME NEW z \in Int
  PROVE  Band(z) \in [lo : Int, hi : Int] /\ Band(z).lo =< Band(z).hi
BY TerrainAssumption DEF Band

----------------------------------------------------------------------------
(* The search for the ground. *)

\* A ground found is the top face of a voxel the search can meet.
LEMMA GroundIsMet ==
  ASSUME NEW solid, NEW c, NEW lo \in Int, NEW hi \in Int,
         GroundZ(solid, c, lo, hi) # NoHeight
  PROVE  \E top \in Met(solid, c, lo, hi) : GroundZ(solid, c, lo, hi) = (top + 1) * Res
<1> DEFINE met   == Met(solid, c, lo, hi)
           hits  == {k \in met : k =< CellOf(hi)}
           base  == CHOOSE k \in hits : \A j \in hits : k =< j
           stack == {k \in base .. base + StackMax : base .. k \subseteq met}
           top   == CHOOSE k \in stack : \A j \in stack : j =< k
<1>1. CellOf(lo) \in Int /\ CellOf(hi) \in Int /\ StackMax \in Nat
  BY CellBounds, TerrainAssumption
<1>2. met \in SUBSET Int /\ \A k \in met : CellOf(lo) =< k
  BY <1>1 DEF Met
<1>3. hits # {} /\ GroundZ(solid, c, lo, hi) = (top + 1) * Res
  BY DEF GroundZ
<1> HIDE DEF met
<1>4. base \in hits
  <2>1. hits \in SUBSET Int /\ \A k \in hits : CellOf(lo) =< k
    BY <1>2
  <2> HIDE DEF hits
  <2>2. \E k \in hits : \A j \in hits : k =< j
    BY <1>1, <1>3, <2>1, Least
  <2> QED BY <2>2
<1>5. base \in Int /\ base \in met
  BY <1>2, <1>4
<1> HIDE DEF base
<1>6. base \in stack /\ stack \in SUBSET Int /\ \A k \in stack : k =< base + StackMax
  BY <1>1, <1>5
<1>7. top \in stack
  <2>1. base + StackMax \in Int
    BY <1>1, <1>5
  <2> HIDE DEF stack
  <2>2. stack # {}
    BY <1>6
  <2>3. \E k \in stack : \A j \in stack : j =< k
    BY <1>6, <2>1, <2>2, Greatest
  <2> QED BY <2>3
<1> HIDE DEF top
<1>8. top \in met
  BY <1>5, <1>7
<1> QED BY <1>3, <1>8 DEF met

\* The ground depends on what the search can meet only.
LEMMA SameGround ==
  ASSUME NEW s, NEW t, NEW c, NEW lo, NEW hi, Met(s, c, lo, hi) = Met(t, c, lo, hi)
  PROVE  GroundZ(s, c, lo, hi) = GroundZ(t, c, lo, hi)
<1> DEFINE hits(met) == {k \in met : k =< CellOf(hi)}
           base(met) == CHOOSE k \in hits(met) : \A j \in hits(met) : k =< j
           stack(met) == {k \in base(met) .. base(met) + StackMax : base(met) .. k \subseteq met}
           G(met) == IF hits(met) = {} THEN NoHeight
                     ELSE ((CHOOSE k \in stack(met) : \A j \in stack(met) : j =< k) + 1) * Res
<1>1. \A u : GroundZ(u, c, lo, hi) = G(Met(u, c, lo, hi))
  BY DEF GroundZ
<1> HIDE DEF G
<1> QED BY <1>1

LEMMA GroundType ==
  ASSUME NEW solid, NEW c, NEW z \in Int
  PROVE  GroundNear(solid, c, z) \in Int \cup {NoHeight}
<1>1. z - Below \in Int /\ z + Above \in Int /\ Res \in Nat
  BY TerrainAssumption
<1>2. CASE GroundNear(solid, c, z) # NoHeight
  <2>1. PICK top \in Met(solid, c, z - Below, z + Above) :
          GroundNear(solid, c, z) = (top + 1) * Res
    BY <1>1, <1>2, GroundIsMet DEF GroundNear
  <2>2. top \in Int
    BY <1>1, CellBounds, TerrainAssumption DEF Met
  <2> QED BY <1>1, <2>1, <2>2
<1> QED BY <1>2

\* Where a voxel lies that a search around z can meet.
LEMMA WindowBounds ==
  ASSUME NEW z \in Int, NEW solid, NEW c, NEW k \in Met(solid, c, z - Below, z + Above)
  PROVE  /\ k \in Int /\ << c, k >> \in solid
         /\ z - Below - Res < k * Res
         /\ k * Res =< z + Above + StackMax * Res
<1> DEFINE a == CellOf(z - Below)
           b == CellOf(z + Above)
<1>1. /\ Below \in Nat /\ Above \in Nat /\ StackMax \in Nat /\ Res \in Nat
      /\ z - Below \in Int /\ z + Above \in Int
  BY TerrainAssumption
<1>2. /\ a \in Int /\ z - Below < a * Res + Res
      /\ b \in Int /\ b * Res =< z + Above
  BY <1>1, CellBounds
<1>3. k \in Int /\ a =< k /\ k =< b + StackMax /\ << c, k >> \in solid
  BY <1>1, <1>2 DEF Met
<1> HIDE DEF a, b
<1>4. a * Res =< k * Res /\ k * Res =< (b + StackMax) * Res
  BY <1>1, <1>2, <1>3, Scaled
<1>5. (b + StackMax) * Res = b * Res + StackMax * Res
  BY <1>1, <1>2
<1>6. a * Res \in Int /\ b * Res \in Int /\ k * Res \in Int /\ StackMax * Res \in Int
  BY <1>1, <1>2, <1>3
<1> QED BY <1>1, <1>2, <1>3, <1>4, <1>5, <1>6

LEMMA PositionBounds ==
  ASSUME NEW k \in Int
  PROVE  /\ Position(k) \in Int /\ k * Res \in Int
         /\ k * Res =< Position(k) /\ Position(k) < k * Res + Res
         /\ (k + 1) * Res = k * Res + Res
BY TerrainAssumption DEF Position, Corner

\* A band the robot is within the hysteresis of cuts nothing from the window.
LEMMA ClipKeepsWindow ==
  ASSUME BandCovers, NEW m, NEW c, NEW z \in Int, NEW y \in Int,
         Distance(z, y) =< Hysteresis
  PROVE  GroundNear(Clip(m, Band(y)).solid, c, z) = GroundNear(m.solid, c, z)
<1> DEFINE whole == Met(m.solid, c, z - Below, z + Above)
           copy  == Met(Clip(m, Band(y)).solid, c, z - Below, z + Above)
<1>1. copy \subseteq whole
  BY DEF Met, Clip, Inside
<1>2. ASSUME NEW k \in whole
      PROVE  k \in copy
  <2>1. /\ k \in Int /\ << c, k >> \in m.solid
        /\ z - Below - Res < k * Res /\ k * Res =< z + Above + StackMax * Res
    BY WindowBounds
  <2>2. /\ Position(k) \in Int /\ k * Res \in Int
        /\ k * Res =< Position(k) /\ Position(k) < k * Res + Res
    BY <2>1, PositionBounds
  <2>3. (StackMax + 1) * Res = StackMax * Res + Res /\ StackMax * Res \in Int
    BY TerrainAssumption
  <2>4. z - Hysteresis =< y /\ y =< z + Hysteresis
    BY HysteresisNat DEF Distance
  <2>5. /\ -RoiMin >= Below + Hysteresis + Res
        /\ RoiMax >= Above + Hysteresis + StackMax * Res + Res + Clearance
    BY <2>3, HysteresisNat, TerrainAssumption DEF BandCovers
  <2>6. y + RoiMin =< Position(k) /\ Position(k) =< y + RoiMax
    BY <2>1, <2>2, <2>3, <2>4, <2>5, HysteresisNat, TerrainAssumption
  <2>7. << c, k >> \in Clip(m, Band(y)).solid
    BY <2>1, <2>6 DEF Clip, Inside, Band
  <2> QED BY <1>2, <2>7 DEF Met
<1>3. copy = whole
  BY <1>1, <1>2
<1> QED BY <1>3, SameGround DEF GroundNear

----------------------------------------------------------------------------
(* The copy is the clip of a usable message, and of the last one unless that *)
(* is still to be loaded.                                                  *)

CopyOfSource ==
  /\ eff = cut
  /\ source = NoMap => cache = [solid |-> {}, free |-> {}] /\ ref = NoHeight
  /\ source # NoMap => /\ latest # NoMap /\ ref \in Int
                       /\ cut = Band(ref) /\ cache = Clip(source, cut)
  /\ latest # NoMap /\ ~ fresh => source = latest /\ latest.usable

TerrainInv ==
  /\ TerrainTypeOK
  /\ CopyOfSource
  /\ have => source # NoMap

LEMMA ClipType ==
  ASSUME NEW m \in Message, NEW band
  PROVE  Clip(m, band) \in [solid : SUBSET Voxel, free : SUBSET Voxel]
BY TerrainAssumption DEF Clip, Inside

\* What a load leaves behind.
LEMMA LoadKeeps ==
  ASSUME TerrainInv, LoadLatestMap, UNCHANGED << latest, alt >>
  PROVE  /\ fresh' \in BOOLEAN /\ ref' \in Int \cup {NoHeight}
         /\ source' \in Message \cup {NoMap}
         /\ eff' \in [lo : Int, hi : Int] /\ cut' \in [lo : Int, hi : Int]
         /\ cache' \in [solid : SUBSET Voxel, free : SUBSET Voxel]
         /\ CopyOfSource'
         /\ source # NoMap => source' # NoMap
         /\ HasVoxels => source' # NoMap
         /\ latest # NoMap /\ ~ fresh' => ref' \in Int /\ Distance(alt, ref') =< Hysteresis
         /\ cut' = Band(alt) \/ cut' = cut
<1>1. /\ alt \in Int /\ ref \in Int \cup {NoHeight} /\ latest \in Message \cup {NoMap}
      /\ source \in Message \cup {NoMap} /\ fresh \in BOOLEAN
      /\ eff \in [lo : Int, hi : Int] /\ cut \in [lo : Int, hi : Int]
      /\ cache \in [solid : SUBSET Voxel, free : SUBSET Voxel]
  BY DEF TerrainInv, TerrainTypeOK
<1>2. NoHeight \notin Int /\ NoMap \notin Message
  BY TerrainAssumption
<1>3. CASE ~ Rebuild
  <2>1. UNCHANGED << fresh, ref, eff, cache, source, cut >>
    BY <1>3 DEF LoadLatestMap, Loaded, Held
  <2>2. CopyOfSource'
    BY <2>1 DEF TerrainInv, CopyOfSource
  <2>3. latest # NoMap /\ ~ fresh' => ref' \in Int /\ Distance(alt, ref') =< Hysteresis
    <3> SUFFICES ASSUME latest # NoMap, ~ fresh
                 PROVE  ref \in Int /\ Distance(alt, ref) =< Hysteresis
      BY <2>1
    <3>1. source = latest /\ latest.usable
      BY DEF TerrainInv, CopyOfSource
    <3>2. ref \in Int
      BY <3>1 DEF TerrainInv, CopyOfSource
    <3>3. ~ Reband
      BY <1>3, <3>1 DEF Rebuild
    <3>4. Distance(alt, ref) \in Int /\ Hysteresis \in Int
      BY <1>1, <3>2, HysteresisNat DEF Distance
    <3> QED BY <1>2, <3>2, <3>3, <3>4 DEF Reband
  <2>4. HasVoxels => source' # NoMap
    BY <2>1 DEF HasVoxels, TerrainInv, CopyOfSource
  <2> QED BY <1>1, <2>1, <2>2, <2>3, <2>4
<1>4. CASE Rebuild
  <2> DEFINE centre == IF Reband THEN alt ELSE ref
  <2>1. /\ fresh' = FALSE /\ ref' = centre /\ eff' = Band(centre) /\ cut' = Band(centre)
        /\ cache' = Clip(latest, Band(centre)) /\ source' = latest
    BY <1>4 DEF LoadLatestMap, Loaded
  <2>2. centre \in Int /\ Distance(alt, centre) =< Hysteresis
    <3>1. CASE Reband
      BY <1>1, <3>1, HysteresisNat DEF Distance
    <3>2. CASE ~ Reband
      <4>1. ref \in Int
        BY <1>1, <3>2 DEF Reband
      <4>2. Distance(alt, ref) \in Int /\ Hysteresis \in Int
        BY <1>1, <4>1, HysteresisNat DEF Distance
      <4> QED BY <1>2, <3>2, <4>1, <4>2 DEF Reband
    <3> QED BY <3>1, <3>2
  <2>3. latest \in Message /\ latest # NoMap /\ latest.usable
    BY <1>1, <1>2, <1>4 DEF Rebuild
  <2>4. cut' = Band(alt) \/ cut' = cut
    <3>1. CASE Reband
      BY <2>1, <3>1
    <3>2. CASE ~ Reband /\ source # NoMap
      BY <2>1, <3>2 DEF TerrainInv, CopyOfSource
    <3>3. CASE ~ Reband /\ source = NoMap
      BY <3>3, <1>1, <1>2 DEF TerrainInv, CopyOfSource, Reband
    <3> QED BY <3>1, <3>2, <3>3
  <2> HIDE DEF centre
  <2>5. Band(centre) \in [lo : Int, hi : Int]
    BY <2>2, BandType
  <2>6. CopyOfSource'
    BY <2>1, <2>2, <2>3 DEF CopyOfSource
  <2>7. cache' \in [solid : SUBSET Voxel, free : SUBSET Voxel]
    BY <2>1, <2>3, ClipType
  <2> QED BY <2>1, <2>2, <2>3, <2>4, <2>5, <2>6, <2>7
<1> QED BY <1>3, <1>4

LEMMA ClampType ==
  ASSUME NEW v \in Int, NEW low \in Int, NEW high \in Int
  PROVE  Clamp(v, low, high) \in Int
BY DEF Clamp

\* The part of the type invariant that is about the height asked for.
AskedTypeOK ==
  /\ asked.near \in Int /\ asked.rejected \in BOOLEAN
  /\ asked.found \in Int \cup {NoHeight} /\ asked.height \in Int \cup {NoHeight}
  /\ {asked.searched, asked.walked} \subseteq [lo : Int, hi : Int]

LEMMA SilenceType ==
  ASSUME asked' = Silence
  PROVE  AskedTypeOK'
<1>1. Band(0) \in [lo : Int, hi : Int]
  BY BandType
<1> QED BY <1>1 DEF AskedTypeOK, Silence, Asked

LEMMA SightlineType ==
  ASSUME NEW found \in Int \cup {NoHeight}, NEW band \in [lo : Int, hi : Int]
  PROVE  Sightline(found, band) \in Int \cup {NoHeight}
<1>1. CASE found \in Int
  <2>1. found + Clearance \in Int /\ band.lo \in Int /\ band.hi \in Int
    BY <1>1, TerrainAssumption
  <2> QED BY <2>1, ClampType DEF Sightline
<1> QED BY <1>1 DEF Sightline

LEMMA CandidateType ==
  ASSUME NEW who, NEW c, NEW z \in Int, Candidate(who, c, z),
         aim' \in [lo : Int, hi : Int], cut' \in [lo : Int, hi : Int], fresh' \in BOOLEAN
  PROVE  AskedTypeOK'
<1> DEFINE found == GroundNear(cache'.solid, c, z)
           wish  == IF found = NoHeight THEN z ELSE found + Clearance
           height == Clamp(wish, aim'.lo, aim'.hi)
<1>1. found \in Int \cup {NoHeight}
  BY GroundType
<1>2. asked' = Asked(who, c, z, source', cut', cut', found, height, fresh')
  BY DEF Candidate
<1> HIDE DEF found
<1>3. wish \in Int
  BY <1>1, TerrainAssumption
<1> HIDE DEF wish
<1>4. height \in Int
  BY <1>3, ClampType
<1> QED BY <1>1, <1>2, <1>4 DEF AskedTypeOK, Asked

LEMMA SightlineAsked ==
  ASSUME NEW who, NEW c, NEW solid, NEW src, NEW searched \in [lo : Int, hi : Int],
         NEW walked \in [lo : Int, hi : Int], NEW band \in [lo : Int, hi : Int],
         NEW rejected \in BOOLEAN, alt \in Int,
         asked' = Asked(who, c, alt, src, searched, walked, GroundNear(solid, c, alt),
                        Sightline(GroundNear(solid, c, alt), band), rejected)
  PROVE  AskedTypeOK'
<1>1. GroundNear(solid, c, alt) \in Int \cup {NoHeight}
  BY GroundType
<1>2. Sightline(GroundNear(solid, c, alt), band) \in Int \cup {NoHeight}
  BY <1>1, SightlineType
<1> QED BY <1>1, <1>2 DEF AskedTypeOK, Asked

LEMMA TerrainStep ==
  ASSUME TerrainInv, [TerrainNext]_terrainVars
  PROVE  TerrainInv'
<1> USE DEF TerrainInv
<1>1. TerrainTypeOK <=>
        /\ latest \in Message \cup {NoMap} /\ source \in Message \cup {NoMap}
        /\ fresh \in BOOLEAN /\ have \in BOOLEAN
        /\ ref \in Int \cup {NoHeight} /\ alt \in Int
        /\ eff \in [lo : Int, hi : Int] /\ aim \in [lo : Int, hi : Int]
        /\ cut \in [lo : Int, hi : Int]
        /\ cache \in [solid : SUBSET Voxel, free : SUBSET Voxel]
        /\ AskedTypeOK
  BY DEF TerrainTypeOK, AskedTypeOK
<1>2. TerrainTypeOK' <=>
        /\ latest' \in Message \cup {NoMap} /\ source' \in Message \cup {NoMap}
        /\ fresh' \in BOOLEAN /\ have' \in BOOLEAN
        /\ ref' \in Int \cup {NoHeight} /\ alt' \in Int
        /\ eff' \in [lo : Int, hi : Int] /\ aim' \in [lo : Int, hi : Int]
        /\ cut' \in [lo : Int, hi : Int]
        /\ cache' \in [solid : SUBSET Voxel, free : SUBSET Voxel]
        /\ AskedTypeOK'
  BY DEF TerrainTypeOK, AskedTypeOK
<1>3. CASE OnScovoxMap
  <2>1. CopyOfSource'
    BY <1>3, TerrainAssumption DEF OnScovoxMap, CopyOfSource
  <2> QED BY <1>1, <1>2, <1>3, <2>1, SilenceType DEF OnScovoxMap
<1>4. CASE Climb
  <2>1. CopyOfSource'
    BY <1>4 DEF Climb, CopyOfSource
  <2> QED BY <1>1, <1>2, <1>4, <2>1, SilenceType, TerrainAssumption DEF Climb
<1>5. CASE WaitForMap
  <2>1. UNCHANGED << latest, aim, alt >> /\ LoadLatestMap /\ asked' = Silence
        /\ have' = HasVoxels
    BY <1>5 DEF WaitForMap
  <2>2. have' \in BOOLEAN
    BY <2>1 DEF HasVoxels
  <2> QED BY <1>1, <1>2, <2>1, <2>2, LoadKeeps, SilenceType
<1>6. CASE Plan
  <2>1. /\ UNCHANGED << latest, have, alt >> /\ LoadLatestMap
        /\ aim' = aim \/ aim' = eff'
    BY <1>6 DEF Plan, SetRoiZ
  <2>2. /\ aim' \in [lo : Int, hi : Int] /\ cut' \in [lo : Int, hi : Int]
        /\ fresh' \in BOOLEAN /\ alt \in Int
    BY <1>1, <2>1, LoadKeeps
  <2>3. AskedTypeOK'
    <3>1. CASE asked' = Silence
      BY <3>1, SilenceType
    <3>2. ASSUME NEW c \in Column, Candidate("PLAN", c, alt)
          PROVE  AskedTypeOK'
      BY <2>2, <3>2, CandidateType
    <3>3. ASSUME NEW v \in Frontiers, Candidate("FRONTIER", v[1], Corner(v[2]))
          PROVE  AskedTypeOK'
      <4>1. v \in Voxel
        BY <2>1, LoadKeeps DEF Frontiers
      <4>2. Corner(v[2]) \in Int
        BY <4>1, TerrainAssumption DEF Voxel, Corner
      <4> QED BY <2>2, <3>3, <4>2, CandidateType
    <3> QED BY <1>6, <3>1, <3>2, <3>3 DEF Plan
  <2> QED BY <1>1, <1>2, <2>1, <2>2, <2>3, LoadKeeps
<1>7. CASE ExploitPlan
  <2>1. UNCHANGED << latest, aim, have, alt >> /\ LoadLatestMap
    BY <1>7 DEF ExploitPlan
  <2>2. AskedTypeOK'
    <3>1. CASE asked' = Silence
      BY <3>1, SilenceType
    <3>2. ASSUME NEW c \in Column,
                 asked' = Asked("EXPLOIT_PLAN", c, alt, source, cut, cut',
                                GroundNear(cache.solid, c, alt),
                                Sightline(GroundNear(cache.solid, c, alt), eff), fresh')
          PROVE  AskedTypeOK'
      BY <1>1, <2>1, <3>2, LoadKeeps, SightlineAsked
    <3> QED BY <1>7, <3>1, <3>2 DEF ExploitPlan
  <2> QED BY <1>1, <1>2, <2>1, <2>2, LoadKeeps
<1>8. CASE DwellEnds
  <2>1. UNCHANGED << latest, aim, have, alt >> /\ LoadLatestMap
    BY <1>8 DEF DwellEnds
  <2>2. AskedTypeOK'
    <3>1. CASE asked' = Silence
      BY <3>1, SilenceType
    <3>2. ASSUME NEW c \in Column,
                 asked' = Asked("EXPLOIT_DWELL", c, alt, source', cut', cut',
                                GroundNear(cache'.solid, c, alt),
                                Sightline(GroundNear(cache'.solid, c, alt), eff'), fresh')
          PROVE  AskedTypeOK'
      BY <1>1, <2>1, <3>2, LoadKeeps, SightlineAsked
    <3> QED BY <1>8, <3>1, <3>2 DEF DwellEnds
  <2> QED BY <1>1, <1>2, <2>1, <2>2, LoadKeeps
<1>9. CASE UNCHANGED terrainVars
  BY <1>9 DEF terrainVars, TerrainTypeOK, CopyOfSource
<1> QED BY <1>3, <1>4, <1>5, <1>6, <1>7, <1>8, <1>9 DEF TerrainNext

LEMMA TerrainStart == TerrainInit => TerrainInv
<1> SUFFICES ASSUME TerrainInit PROVE TerrainInv
  OBVIOUS
<1>1. Band(0) \in [lo : Int, hi : Int]
  BY BandType
<1>2. AskedTypeOK
  <2>1. asked = Silence
    BY DEF TerrainInit
  <2> QED BY <1>1, <2>1 DEF AskedTypeOK, Silence, Asked
<1>3. TerrainTypeOK
  <2>1. eff = Band(0) /\ aim = Band(0) /\ cut = Band(0)
    BY DEF TerrainInit
  <2>2. {eff, aim, cut} \subseteq [lo : Int, hi : Int]
    BY <1>1, <2>1
  <2>3. cache \in [solid : SUBSET Voxel, free : SUBSET Voxel]
    BY DEF TerrainInit
  <2>4. fresh \in BOOLEAN /\ have \in BOOLEAN
    BY DEF TerrainInit
  <2>5. /\ alt \in Int /\ ref \in Int \cup {NoHeight}
        /\ latest \in Message \cup {NoMap} /\ source \in Message \cup {NoMap}
    BY DEF TerrainInit
  <2> QED BY <1>2, <2>2, <2>3, <2>4, <2>5 DEF TerrainTypeOK, AskedTypeOK
<1> QED BY <1>3 DEF TerrainInv, TerrainInit, CopyOfSource

LEMMA TerrainInvariant == TerrainSpec => []TerrainInv
BY TerrainStart, TerrainStep, PTL DEF TerrainSpec

\* Every variable of the map keeps its type.
THEOREM TerrainTypes == TerrainSpec => []TerrainTypeOK
<1>1. TerrainInv => TerrainTypeOK
  BY DEF TerrainInv
<1> QED BY <1>1, TerrainInvariant, PTL

----------------------------------------------------------------------------
(* With a band that covers the search. *)

LEMMA LoadedBand ==
  ASSUME TerrainInv, have, LoadLatestMap, UNCHANGED << latest, alt >>
  PROVE  /\ source' # NoMap /\ ref' \in Int /\ alt \in Int
         /\ eff' = cut' /\ cut' = Band(ref') /\ cut'.lo =< cut'.hi
         /\ cut' \in [lo : Int, hi : Int]
         /\ cache'.solid = Clip(source', cut').solid
         /\ ~ fresh' => Distance(alt, ref') =< Hysteresis
<1>1. source # NoMap /\ latest # NoMap /\ alt \in Int
  BY DEF TerrainInv, CopyOfSource, TerrainTypeOK
<1>2. source' # NoMap /\ CopyOfSource'
  BY <1>1, LoadKeeps
<1>3. ref' \in Int /\ eff' = cut' /\ cut' = Band(ref') /\ cache' = Clip(source', cut')
  BY <1>2 DEF CopyOfSource
<1>4. cut' \in [lo : Int, hi : Int] /\ cut'.lo =< cut'.hi
  BY <1>3, BandType
<1>5. ~ fresh' => Distance(alt, ref') =< Hysteresis
  BY <1>1, LoadKeeps
<1> QED BY <1>1, <1>2, <1>3, <1>4, <1>5

LEMMA FindsGround ==
  ASSUME BandCovers, TerrainInv, have, LoadLatestMap, UNCHANGED << latest, alt >>,
         ~ fresh', NEW c
  PROVE  GroundNear(cache'.solid, c, alt) = GroundNear(source'.solid, c, alt)
<1>1. /\ ref' \in Int /\ alt \in Int /\ cut' = Band(ref')
      /\ cache'.solid = Clip(source', cut').solid /\ Distance(alt, ref') =< Hysteresis
  BY LoadedBand
<1> QED BY <1>1, ClipKeepsWindow

LEMMA GroundStep ==
  ASSUME BandCovers, TerrainInv, GroundAsMapped, [TerrainNext]_terrainVars
  PROVE  GroundAsMapped'
<1>1. CASE asked' = Silence
  BY <1>1 DEF GroundAsMapped, Silence, Asked
<1>2. CASE Plan
  <2>1. have /\ LoadLatestMap /\ UNCHANGED << latest, alt >>
    BY <1>2 DEF Plan
  <2>2. ASSUME NEW c \in Column, Candidate("PLAN", c, alt)
        PROVE  GroundAsMapped'
    <3>1. /\ asked'.column = c /\ asked'.near = alt /\ asked'.map = source'
          /\ asked'.found = GroundNear(cache'.solid, c, alt) /\ asked'.rejected = fresh'
      BY <2>2 DEF Candidate, Asked
    <3>2. ~ fresh' => asked'.found = GroundNear(source'.solid, c, alt)
      BY <2>1, <3>1, FindsGround
    <3> QED BY <3>1, <3>2 DEF GroundAsMapped
  <2>3. ASSUME NEW v \in Frontiers, Candidate("FRONTIER", v[1], Corner(v[2]))
        PROVE  GroundAsMapped'
    <3>1. asked'.who = "FRONTIER"
      BY <2>3 DEF Candidate, Asked
    <3> QED BY <3>1 DEF GroundAsMapped
  <2> QED BY <1>1, <1>2, <2>2, <2>3 DEF Plan
<1>3. CASE ExploitPlan
  <2>1. asked' = Silence \/ asked'.who = "EXPLOIT_PLAN"
    BY <1>3 DEF ExploitPlan, Asked
  <2> QED BY <1>1, <2>1 DEF GroundAsMapped
<1>4. CASE DwellEnds
  <2>1. have /\ LoadLatestMap /\ UNCHANGED << latest, alt >>
    BY <1>4 DEF DwellEnds
  <2>2. ASSUME NEW c \in Column,
               asked' = Asked("EXPLOIT_DWELL", c, alt, source', cut', cut',
                              GroundNear(cache'.solid, c, alt),
                              Sightline(GroundNear(cache'.solid, c, alt), eff'), fresh')
        PROVE  GroundAsMapped'
    <3>1. /\ asked'.column = c /\ asked'.near = alt /\ asked'.map = source'
          /\ asked'.found = GroundNear(cache'.solid, c, alt) /\ asked'.rejected = fresh'
      BY <2>2 DEF Asked
    <3>2. ~ fresh' => asked'.found = GroundNear(source'.solid, c, alt)
      BY <2>1, <3>1, FindsGround
    <3> QED BY <3>1, <3>2 DEF GroundAsMapped
  <2> QED BY <1>1, <1>4, <2>2 DEF DwellEnds
<1>5. CASE UNCHANGED terrainVars
  BY <1>5 DEF terrainVars, GroundAsMapped
<1>6. OnScovoxMap \/ Climb \/ WaitForMap => asked' = Silence
  BY DEF OnScovoxMap, Climb, WaitForMap
<1> QED BY <1>1, <1>2, <1>3, <1>4, <1>5, <1>6 DEF TerrainNext

\* If the band covers the search, what PLAN and the end of a dwell find is the
\* ground of the whole map, for any map, terrain, climb and window
\* (loadLatestMap, groundZAt).
THEOREM GroundAlwaysAsMapped ==
  ASSUME BandCovers
  PROVE  TerrainSpec => []GroundAsMapped
<1>1. TerrainInit => GroundAsMapped
  BY DEF TerrainInit, GroundAsMapped, Silence, Asked
<1>2. TerrainInv /\ GroundAsMapped /\ [TerrainNext]_terrainVars => GroundAsMapped'
  BY GroundStep
<1> QED BY <1>1, <1>2, TerrainInvariant, PTL DEF TerrainSpec

\* A height clamped to a band, over ground or not.
LEMMA SightlineInside ==
  ASSUME NEW found \in Int \cup {NoHeight}, NEW band \in [lo : Int, hi : Int],
         band.lo =< band.hi, Sightline(found, band) # NoHeight
  PROVE  band.lo =< Sightline(found, band) /\ Sightline(found, band) =< band.hi
<1>1. found \in Int /\ Sightline(found, band) = Clamp(found + Clearance, band.lo, band.hi)
  BY DEF Sightline
<1>2. found + Clearance \in Int /\ band.lo \in Int /\ band.hi \in Int
  BY <1>1, TerrainAssumption
<1> QED BY <1>1, <1>2, ClampInside

LEMMA CandidateInside ==
  ASSUME TerrainInv, have, LoadLatestMap, UNCHANGED << latest, alt >>, SetRoiZ,
         NEW who, NEW c, NEW z \in Int, Candidate(who, c, z)
  PROVE  SightInsideBand'
<1> DEFINE found == GroundNear(cache'.solid, c, z)
           wish  == IF found = NoHeight THEN z ELSE found + Clearance
           height == Clamp(wish, aim'.lo, aim'.hi)
<1>1. found \in Int \cup {NoHeight}
  BY GroundType
<1>2. asked' = Asked(who, c, z, source', cut', cut', found, height, fresh')
  BY DEF Candidate
<1> HIDE DEF found
<1>3. wish \in Int
  BY <1>1, TerrainAssumption
<1>4. aim' = cut' /\ cut'.lo \in Int /\ cut'.hi \in Int /\ cut'.lo =< cut'.hi
  BY LoadedBand DEF SetRoiZ
<1> HIDE DEF wish
<1>5. cut'.lo =< height /\ height =< cut'.hi
  BY <1>3, <1>4, ClampInside
<1> QED BY <1>2, <1>5 DEF SightInsideBand, Asked

\* A vantage lifted in the old band is inside the new one too: its ground was
\* found near the robot, and the new band is centred on the robot.
LEMMA LiftedInside ==
  ASSUME BandCovers, TerrainInv, have, NEW c,
         Sightline(GroundNear(cache.solid, c, alt), eff) # NoHeight
  PROVE  LET height == Sightline(GroundNear(cache.solid, c, alt), eff)
         IN  Band(alt).lo =< height /\ height =< Band(alt).hi
<1> DEFINE found == GroundNear(cache.solid, c, alt)
<1>1. /\ alt \in Int /\ ref \in Int /\ eff = Band(ref) /\ cache = Clip(source, eff)
  BY DEF TerrainInv, CopyOfSource, TerrainTypeOK
<1>2. found # NoHeight /\ Sightline(found, eff) = Clamp(found + Clearance, eff.lo, eff.hi)
  BY DEF Sightline
<1>3. alt - Below \in Int /\ alt + Above \in Int
  BY <1>1, TerrainAssumption
<1>4. PICK top \in Met(cache.solid, c, alt - Below, alt + Above) : found = (top + 1) * Res
  BY <1>2, <1>3, GroundIsMet DEF GroundNear
<1>5. /\ top \in Int /\ << c, top >> \in cache.solid
      /\ alt - Below - Res < top * Res /\ top * Res =< alt + Above + StackMax * Res
  BY <1>1, WindowBounds
<1>6. /\ Position(top) \in Int /\ top * Res \in Int
      /\ top * Res =< Position(top) /\ Position(top) < top * Res + Res
      /\ found = top * Res + Res
  BY <1>4, <1>5, PositionBounds
<1>7. eff.lo =< Position(top) /\ Position(top) =< eff.hi /\ eff.lo \in Int /\ eff.hi \in Int
  BY <1>1, <1>5, BandType DEF Clip, Inside
<1>8. (StackMax + 1) * Res = StackMax * Res + Res /\ StackMax * Res \in Int
  BY TerrainAssumption
<1>9. /\ -RoiMin >= Below + Hysteresis + Res
      /\ RoiMax >= Above + Hysteresis + StackMax * Res + Res + Clearance
  BY <1>8, HysteresisNat, TerrainAssumption DEF BandCovers
<1> HIDE DEF found
<1>10. Clamp(found + Clearance, eff.lo, eff.hi)
         = IF found + Clearance > eff.hi THEN eff.hi ELSE found + Clearance
  BY <1>6, <1>7, TerrainAssumption DEF Clamp
<1>11. /\ alt + RoiMin =< Clamp(found + Clearance, eff.lo, eff.hi)
       /\ Clamp(found + Clearance, eff.lo, eff.hi) =< alt + RoiMax
  BY <1>1, <1>5, <1>6, <1>7, <1>8, <1>9, <1>10, HysteresisNat, TerrainAssumption
<1> QED BY <1>2, <1>11 DEF Band, found

LEMMA SightStep ==
  ASSUME BandCovers, TerrainInv, SightInsideBand, [TerrainNext]_terrainVars
  PROVE  SightInsideBand'
<1>1. CASE asked' = Silence
  BY <1>1 DEF SightInsideBand, Silence, Asked
<1>2. CASE Plan
  <2>1. have /\ LoadLatestMap /\ UNCHANGED << latest, alt >> /\ alt \in Int
    BY <1>2 DEF Plan, TerrainInv, TerrainTypeOK
  <2>2. ASSUME SetRoiZ, NEW c \in Column, Candidate("PLAN", c, alt)
        PROVE  SightInsideBand'
    BY <2>1, <2>2, CandidateInside
  <2>3. ASSUME SetRoiZ, NEW v \in Frontiers, Candidate("FRONTIER", v[1], Corner(v[2]))
        PROVE  SightInsideBand'
    <3>1. v \in Voxel
      BY <2>1, LoadKeeps DEF Frontiers
    <3>2. Corner(v[2]) \in Int
      BY <3>1, TerrainAssumption DEF Voxel, Corner
    <3> QED BY <2>1, <2>3, <3>2, CandidateInside
  <2> QED BY <1>1, <1>2, <2>2, <2>3 DEF Plan
<1>3. CASE ExploitPlan
  <2>1. have /\ LoadLatestMap /\ UNCHANGED << latest, alt >> /\ alt \in Int
    BY <1>3 DEF ExploitPlan, TerrainInv, TerrainTypeOK
  <2>2. ASSUME NEW c \in Column,
               asked' = Asked("EXPLOIT_PLAN", c, alt, source, cut, cut',
                              GroundNear(cache.solid, c, alt),
                              Sightline(GroundNear(cache.solid, c, alt), eff), fresh')
        PROVE  SightInsideBand'
    <3> DEFINE height == Sightline(GroundNear(cache.solid, c, alt), eff)
    <3>1. asked'.height = height /\ asked'.walked = cut'
      BY <2>2 DEF Asked
    <3>2. CASE cut' = Band(alt)
      <4>1. height # NoHeight => Band(alt).lo =< height /\ height =< Band(alt).hi
        BY <2>1, LiftedInside
      <4> HIDE DEF height
      <4> QED BY <3>1, <3>2, <4>1 DEF SightInsideBand
    <3>3. CASE cut' = cut
      <4>1. eff = cut /\ cut = Band(ref) /\ ref \in Int
        BY <2>1 DEF TerrainInv, CopyOfSource
      <4>2. eff \in [lo : Int, hi : Int] /\ eff.lo =< eff.hi
        BY <4>1, BandType
      <4>3. height # NoHeight => eff.lo =< height /\ height =< eff.hi
        BY <2>1, <4>2, GroundType, SightlineInside
      <4> QED BY <3>1, <3>3, <4>1, <4>3 DEF SightInsideBand
    <3> QED BY <2>1, <3>2, <3>3, LoadKeeps
  <2> QED BY <1>1, <1>3, <2>2 DEF ExploitPlan
<1>4. CASE DwellEnds
  <2>1. have /\ LoadLatestMap /\ UNCHANGED << latest, alt >> /\ alt \in Int
    BY <1>4 DEF DwellEnds, TerrainInv, TerrainTypeOK
  <2>2. ASSUME NEW c \in Column,
               asked' = Asked("EXPLOIT_DWELL", c, alt, source', cut', cut',
                              GroundNear(cache'.solid, c, alt),
                              Sightline(GroundNear(cache'.solid, c, alt), eff'), fresh')
        PROVE  SightInsideBand'
    <3> DEFINE height == Sightline(GroundNear(cache'.solid, c, alt), eff')
    <3>1. asked'.height = height /\ asked'.walked = cut'
      BY <2>2 DEF Asked
    <3>2. eff' = cut' /\ cut' \in [lo : Int, hi : Int] /\ cut'.lo =< cut'.hi
      BY <2>1, LoadedBand
    <3>3. height # NoHeight => eff'.lo =< height /\ height =< eff'.hi
      BY <2>1, <3>2, GroundType, SightlineInside
    <3> QED BY <3>1, <3>2, <3>3 DEF SightInsideBand
  <2> QED BY <1>1, <1>4, <2>2 DEF DwellEnds
<1>5. CASE UNCHANGED terrainVars
  BY <1>5 DEF terrainVars, SightInsideBand
<1>6. OnScovoxMap \/ Climb \/ WaitForMap => asked' = Silence
  BY DEF OnScovoxMap, Climb, WaitForMap
<1> QED BY <1>1, <1>2, <1>3, <1>4, <1>5, <1>6 DEF TerrainNext

\* If the band covers the search, every candidate and every sightline stands
\* in the band of the copy its rays walk through, the vantages that were
\* lifted before the band moved too (terrainZ, exploitZAt, setRoiZ).
THEOREM SightAlwaysInside ==
  ASSUME BandCovers
  PROVE  TerrainSpec => []SightInsideBand
<1>1. TerrainInit => SightInsideBand
  BY DEF TerrainInit, SightInsideBand, Silence, Asked
<1>2. TerrainInv /\ SightInsideBand /\ [TerrainNext]_terrainVars => SightInsideBand'
  BY SightStep
<1> QED BY <1>1, <1>2, TerrainInvariant, PTL DEF TerrainSpec
=============================================================================
