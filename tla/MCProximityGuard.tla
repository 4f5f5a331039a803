--------------------------- MODULE MCProximityGuard --------------------------
(***************************************************************************)
(* A lane of Length places for ProximityGuard.  Robot 1 starts at one end, *)
(* the others at the other, each with its anchor where it starts and its   *)
(* goal at the far end, so that their routes cross.                        *)
(***************************************************************************)
EXTENDS ProximityGuard

CONSTANTS Length, Trips

Lane == 1 .. Length
Gap(a, b) == IF a < b THEN b - a ELSE a - b

MCDist == [a \in Lane |-> [b \in Lane |-> Gap(a, b)]]
MCStep ==
  [a \in Lane |-> [b \in Lane |->
     IF a = b THEN a ELSE IF a < b THEN a + 1 ELSE a - 1]]

MCStart == [r \in Robot |-> IF r = 1 THEN 1 ELSE Length]

\* The robot that never yields drives once, the others Trips times.
MCTrips == [r \in Robot |-> IF r = 1 THEN 1 ELSE Trips]
MCGoals == [r \in Robot |-> IF r = 1 THEN {Length} ELSE {1}]
=============================================================================
