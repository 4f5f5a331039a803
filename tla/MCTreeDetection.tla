-------------------------- MODULE MCTreeDetection --------------------------
(***************************************************************************)
(* Either one trunk whose estimate drifts across the border of an id cell, *)
(* or two trunks that stand closer than the match radius.                  *)
(***************************************************************************)
EXTENDS TreeDetection, TLC

CONSTANTS drifting, left, right, Enough, s1, s2

MCForests   == {{drifting}, {left, right}}
MCCentre    == {0, 1, 3}
MCEstimates == (drifting :> {0, 1}) @@ (left :> {1}) @@ (right :> {3})
MCDist      == [c \in MCCentre |-> [d \in MCCentre |-> IF c < d THEN d - c ELSE c - d]]
MCCellOf    == [c \in MCCentre |-> IF c = 0 THEN 0 ELSE 1]

\* One sector short of Enough the other terms of the score decide.
MCVerdict ==
  [n \in 0 .. Cardinality(Sector) |->
     IF n >= Enough THEN {FALSE} ELSE IF n = Enough - 1 THEN BOOLEAN ELSE {TRUE}]
=============================================================================
