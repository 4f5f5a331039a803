---------------------------- MODULE TargetQueue ----------------------------
(***************************************************************************)
(* The queue of tree targets one planner keeps (target_queue.cpp): a data  *)
(* structure and its lifecycle, with no process of its own.  A queue is a  *)
(* record of the arrival order, the slot of the ACTIVE target and one      *)
(* entry per target.  Every operator takes a queue and returns the queue   *)
(* the C++ method leaves behind; the modules that own a queue call them.   *)
(***************************************************************************)
EXTENDS TrunkRing, Sequences

Status == {"ABSENT", "PENDING", "ACTIVE", "DONE"}

Entry == [status : Status, mask : SUBSET Angle, dwells : Nat,
          visited : SUBSET Angle]

Queue == [order  : Seq(Target),
          active : Target \cup {NoTarget},
          rec    : [Target -> Entry]]

FreshEntry(status) ==
  [status |-> status, mask |-> {}, dwells |-> 0, visited |-> {}]

EmptyQueue ==
  [order |-> << >>, active |-> NoTarget,
   rec |-> [t \in Target |-> FreshEntry("ABSENT")]]

\* Slip: a closed target is forgotten and can be queued again.
KnownOpen(q) == {t \in Target : q.rec[t].status \in {"PENDING", "ACTIVE"}}

Known(q)   == {t \in Target : q.rec[t].status # "ABSENT"}
Open(q)    == {t \in Target : q.rec[t].status \in {"PENDING", "ACTIVE"}}

----------------------------------------------------------------------------
\* A second report of a known id, or of a tree already queued under another
\* id (DONE entries included), leaves the queue as it is.
Duplicate(q, t) == \E u \in Known(q) : u = t \/ Trunk[u] = Trunk[t]

Ingest(q, t) ==
  IF Duplicate(q, t)
    THEN q
    ELSE [q EXCEPT !.order = Append(@, t), !.rec[t] = FreshEntry("PENDING")]

\* Slip: closed targets count as pending.
HasQueued(q) == Known(q) # {}

HasPending(q) == Open(q) # {}

\* The target active() returns, which is NoTarget when the slot is empty or
\* its entry is no longer ACTIVE.
ActiveTarget(q) ==
  IF q.active \in Target /\ q.rec[q.active].status = "ACTIVE"
    THEN q.active
    ELSE NoTarget

\* No entry is ACTIVE but the one in the slot.
OneActive(q) ==
  \A u \in Target : q.rec[u].status = "ACTIVE" => u = ActiveTarget(q)

\* t is the first PENDING entry in arrival order.
FirstPending(q, t) ==
  \E i \in DOMAIN q.order :
    /\ q.order[i] = t
    /\ q.rec[t].status = "PENDING"
    /\ \A j \in DOMAIN q.order :
         j < i => q.rec[q.order[j]].status # "PENDING"

\* activate() settles on t: the target already ACTIVE, else the next one.
Promotes(q, t) ==
  IF ActiveTarget(q) = NoTarget THEN FirstPending(q, t)
                                ELSE t = ActiveTarget(q)

Activate(q, t) == [q EXCEPT !.rec[t].status = "ACTIVE", !.active = t]

SetActiveStatus(q, status) ==
  LET t == ActiveTarget(q)
  IN  IF t = NoTarget
        THEN [q EXCEPT !.active = NoTarget]
        ELSE [q EXCEPT !.rec[t].status = status, !.active = NoTarget]

MarkActiveDone(q) == SetActiveStatus(q, "DONE")

\* Slip: standing down destroys the entry instead of demoting it.
DeactivateFresh(q) ==
  LET t == ActiveTarget(q)
  IN  IF t = NoTarget THEN q
                      ELSE [q EXCEPT !.rec[t] = FreshEntry("PENDING"), !.active = NoTarget]

Deactivate(q) == SetActiveStatus(q, "PENDING")

----------------------------------------------------------------------------
\* Slip: an occluded view is credited.
DwelledBlind(e, k, clear) ==
  IF k \notin e.mask
    THEN [e EXCEPT !.visited = @ \cup {k}, !.mask = @ \cup {k}, !.dwells = @ + 1]
    ELSE e

\* A dwell at ring index k: the angle is visited whatever it showed, and
\* credited once if the trunk was in clear sight.
Dwelled(e, k, clear) ==
  IF clear /\ k \notin e.mask
    THEN [e EXCEPT !.visited = @ \cup {k}, !.mask = @ \cup {k},
                   !.dwells = @ + 1]
    ELSE [e EXCEPT !.visited = @ \cup {k}]

RecordVantageDwell(q, k, clear) ==
  LET t == ActiveTarget(q)
  IN  IF t = NoTarget THEN q
                      ELSE [q EXCEPT !.rec[t] = Dwelled(@, k, clear)]

\* Slip: an index heard again counts again.
CreditedAgain(e, peerMask) ==
  [e EXCEPT !.mask    = @ \cup peerMask,
            !.dwells  = @ + Cardinality(peerMask),
            !.visited = @ \cup peerMask]

\* A peer's credit: each index not credited yet counts once, and its ring
\* pose is recorded so that this robot does not drive there again.
Credited(e, peerMask) ==
  [e EXCEPT !.mask    = @ \cup peerMask,
            !.dwells  = @ + Cardinality(peerMask \ e.mask),
            !.visited = @ \cup (peerMask \ e.mask)]

MergePeerDwells(q, t, peerMask) ==
  IF t \in Open(q) THEN [q EXCEPT !.rec[t] = Credited(@, peerMask)] ELSE q

\* Ring spacing exceeds vantage_visited_tol_m, so proximity to a recorded
\* pose is equality of ring indices.
IsVantageVisited(q, k) ==
  LET t == ActiveTarget(q) IN t # NoTarget /\ k \in q.rec[t].visited

=============================================================================
