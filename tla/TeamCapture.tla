----------------------------- MODULE TeamCapture ----------------------------
(***************************************************************************)
(* What the exploitation protocol promises, with the messages left out: a  *)
(* robot earns credit for an angle by seeing the trunk from it or by       *)
(* learning that a teammate did, calls a target COMPLETE only when its     *)
(* credit is enough, and never reopens a target it has closed unless it    *)
(* loses its memory.  Each robot closes a target for itself.               *)
(***************************************************************************)
EXTENDS TrunkRing

CONSTANTS
  Robot,
  Enough  \* the sets of angles that complete a trunk

VARIABLES
  captured,  \* captured[t]: the angles some robot had a clear view from
  credit,    \* credit[r][t]: the angles r counts towards the quota
  outcome    \* outcome[r][t]: how r closed t

vars == << captured, credit, outcome >>

TypeOK ==
  /\ captured \in [Target -> SUBSET Angle]
  /\ credit \in [Robot -> [Target -> SUBSET Angle]]
  /\ outcome \in [Robot -> [Target -> {"open", "complete", "partial"}]]

Init ==
  /\ captured = [t \in Target |-> {}]
  /\ credit = [r \in Robot |-> [t \in Target |-> {}]]
  /\ outcome = [r \in Robot |-> [t \in Target |-> "open"]]

\* A clear view counts for the robot that has it, once.
Capture(r, t, k) ==
  /\ outcome[r][t] = "open"
  /\ captured' = [captured EXCEPT ![t] = @ \cup {k}]
  /\ credit' = [credit EXCEPT ![r][t] = @ \cup {k}]
  /\ UNCHANGED outcome

\* What a robot learns was seen by someone.
Learn(r, t) ==
  /\ outcome[r][t] = "open"
  /\ \E S \in SUBSET captured[t] : credit' = [credit EXCEPT ![r][t] = @ \cup S]
  /\ UNCHANGED captured

Close(r, t) ==
  /\ Learn(r, t)
  /\ outcome' = [outcome EXCEPT ![r][t] =
       IF credit'[r][t] \in Enough THEN "complete" ELSE "partial"]

Forget(r) ==
  /\ credit' = [credit EXCEPT ![r] = [t \in Target |-> {}]]
  /\ outcome' = [outcome EXCEPT ![r] = [t \in Target |-> "open"]]
  /\ UNCHANGED captured

Next ==
  \E r \in Robot :
    \/ Forget(r)
    \/ \E t \in Target : \/ \E k \in Angle : Capture(r, t, k)
                         \/ Learn(r, t) /\ UNCHANGED outcome
                         \/ Close(r, t)

Spec == Init /\ [][Next]_vars

=============================================================================
