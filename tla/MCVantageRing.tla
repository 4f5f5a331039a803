---------------------------- MODULE MCVantageRing ---------------------------
(***************************************************************************)
(* Small worlds for VantageRing: a home waypoint, in some a waypoint near  *)
(* the trunk, and the spots.  Every drive is one step.                     *)
(***************************************************************************)
EXTENDS VantageRing, TLC

CONSTANTS Near, t1, a1, a2, a3

Distance(p, s) ==
  CASE p = s                          -> 0
    [] p \in Spot /\ p[1] = s[1]       -> 1
    [] p = Near                       -> 2
    [] OTHER                          -> 3

MCDist == [p \in Place |-> [s \in Spot |-> Distance(p, s)]]

\* Every place is one step from every other.
MCDirect == [p \in Place |-> [g \in Place |-> g]]

MCVantageDisc == [p \in Place |-> {p} \cap Spot]
MCExploreDisc == [p \in Place |-> IF p = Near THEN Spot ELSE {}]

\* From home, and from another trunk's ring, the near waypoint is closer.
MCApproachPoints ==
  [p \in Place |-> [t \in Target |->
     IF p = Near \/ p \in {t} \X Angle THEN {} ELSE {Near}]]

\* No waypoint is worth a stop.
MCNoApproach == [p \in Place |-> [t \in Target |-> {}]]

MCSpot == Spot
MCTrunk == [t \in Target |-> t]

\* The angles are alike in every world above.
AngleSymmetry == Permutations(Angle)
=============================================================================
