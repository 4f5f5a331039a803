------------------------------ MODULE TrunkRing -----------------------------
(***************************************************************************)
(* The names the planners share without talking: target ids (TreeTarget    *)
(* .msg) and the ring of vantages every robot derives alike from a         *)
(* target's centre and radius (vantage_planner.cpp), index by index.       *)
(***************************************************************************)
EXTENDS Naturals, FiniteSets

CONSTANTS
  Target,    \* target ids, as the detectors and the scheduler publish them
  NoTarget,  \* the absence of a target, or of anything indexed by one
  Angle,     \* ring indices of the vantages around one trunk
  Trunk      \* Trunk[t]: the tree id t was reported for; ids of one tree lie
             \* within target_dedup_radius_m of each other

Spot == Target \X Angle

(***************************************************************************)
(* clear_mask_ is a uint32_t: a ring index above 31 would be counted but   *)
(* never shared.  The shipped ring has three vantages.                     *)
(***************************************************************************)
ASSUME AngleAssumption == IsFiniteSet(Angle) /\ Cardinality(Angle) =< 32
ASSUME TargetAssumption == NoTarget \notin Target /\ NoTarget \notin Spot
ASSUME TrunkAssumption == DOMAIN Trunk = Target
=============================================================================
