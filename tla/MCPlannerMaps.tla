--------------------------- MODULE MCPlannerMaps ----------------------------
(***************************************************************************)
(* The two maps a planner reads.  The ticks that flood the cost grid also  *)
(* load the voxel map, but the maps share no state: each is explored with  *)
(* the other at rest.                                                      *)
(*                                                                         *)
(* Paths: a grid of three by three, every set of obstacles on it, seen     *)
(* from off the grid, a corner, an edge and the centre; the map stays.     *)
(*                                                                         *)
(* Cache: an open map and one whose wall makes a detour longer than the    *)
(* diagonal come and go, and the robot moves.                              *)
(*                                                                         *)
(* Slopes: one column whose ground lies low under a branch, or high, or is *)
(* a stack that starts at one search's floor; robots that climb by less,   *)
(* as much and more than the hysteresis.                                   *)
(***************************************************************************)
EXTENDS CostGrid, TerrainMap, TLC

CONSTANT c1
VARIABLE world

MCMaps    == SUBSET Cell
MCUpdates == {{}, {1, 4}}
MCStarts  == {None, 0, 1, 4}
MCPoses   == {None, 0, 2}
MCNear    == {<< 0, 1 >>, << 1, 0 >>, << 1, 2 >>, << 2, 1 >>, << 1, 4 >>, << 4, 1 >>}

\* Heights are half voxels, positions the middle of a voxel.
Column1(solid, free, usable) ==
  [usable |-> usable, solid |-> {c1} \X solid, free |-> {c1} \X free]
MCMessage ==
  {Column1(solid, {0}, TRUE) : solid \in {{-5, 1}, {-3, -2, 3}, {0, 1, 2}}}
  \cup {Column1({0}, {-2, 2}, TRUE), Column1({}, {}, TRUE), Column1({}, {}, FALSE)}
MCRoiMin == -8
MCRelief == {-5, -2, 0, 2, 5}

Rest(now) ==
  /\ world = now
  /\ UNCHANGED world

MCInit ==
  /\ Init /\ TerrainInit
  /\ \/ world = "paths"
     \/ world = "cache" /\ map \in MCUpdates
     \/ world = "slopes" /\ map = {} /\ pose = 0

MCNext ==
  \/ Rest("paths") /\ TickStep /\ UNCHANGED terrainVars
  \/ Rest("cache") /\ Next /\ UNCHANGED terrainVars
  \/ Rest("slopes") /\ TerrainNext /\ UNCHANGED vars

MCSpec == MCInit /\ [][MCNext]_<< vars, terrainVars, world >>

Addresses == Permutations(Address)
=============================================================================
