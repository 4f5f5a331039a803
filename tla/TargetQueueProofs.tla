-------------------------- MODULE TargetQueueProofs -------------------------
(***************************************************************************)
(* What each operation of the target queue returns, for every queue: its   *)
(* type, the credit it may add, and what it does to the ACTIVE target.     *)
(***************************************************************************)
EXTENDS TargetQueue, FiniteSetTheorems, TLAPS

LEMMA MaskFinite ==
  ASSUME NEW S \in SUBSET Angle
  PROVE  IsFiniteSet(S) /\ Cardinality(S) \in Nat
BY AngleAssumption, FS_Subset, FS_CardinalityType

LEMMA CreditedType ==
  ASSUME NEW e \in Entry, NEW S \in SUBSET Angle
  PROVE  Credited(e, S) \in Entry
<1>1. Cardinality(S \ e.mask) \in Nat
  BY MaskFinite, S \ e.mask \subseteq Angle
<1>2. /\ e.mask \cup S \in SUBSET Angle
      /\ e.visited \cup (S \ e.mask) \in SUBSET Angle
  BY DEF Entry
<1>3. e.dwells + Cardinality(S \ e.mask) \in Nat
  BY <1>1 DEF Entry
<1> QED
  BY <1>2, <1>3 DEF Credited, Entry

LEMMA DwelledType ==
  ASSUME NEW e \in Entry, NEW k \in Angle, NEW clear \in BOOLEAN
  PROVE  Dwelled(e, k, clear) \in Entry
<1>1. /\ e.mask \cup {k} \in SUBSET Angle
      /\ e.visited \cup {k} \in SUBSET Angle
  BY DEF Entry
<1>2. e.dwells + 1 \in Nat
  BY DEF Entry
<1> QED
  BY <1>1, <1>2 DEF Dwelled, Entry

LEMMA EmptyQueueType == EmptyQueue \in Queue
BY DEF EmptyQueue, Queue, FreshEntry, Entry, Status

LEMMA ActiveTargetType ==
  ASSUME NEW q \in Queue
  PROVE  ActiveTarget(q) \in Target \cup {NoTarget}
BY DEF ActiveTarget

LEMMA IngestType ==
  ASSUME NEW q \in Queue, NEW t \in Target
  PROVE  Ingest(q, t) \in Queue
<1>1. FreshEntry("PENDING") \in Entry
  BY DEF FreshEntry, Entry, Status
<1>2. Append(q.order, t) \in Seq(Target)
  BY DEF Queue
<1>3. [q.rec EXCEPT ![t] = FreshEntry("PENDING")] \in [Target -> Entry]
  BY <1>1 DEF Queue
<1>4. CASE Duplicate(q, t)
  BY <1>4 DEF Ingest
<1>5. CASE ~ Duplicate(q, t)
  <2>1. Ingest(q, t) = [order  |-> Append(q.order, t), active |-> q.active,
                        rec    |-> [q.rec EXCEPT ![t] = FreshEntry("PENDING")]]
    BY <1>5 DEF Ingest, Queue
  <2> QED
    BY <1>2, <1>3, <2>1 DEF Queue
<1> QED
  BY <1>4, <1>5

LEMMA ActivateType ==
  ASSUME NEW q \in Queue, NEW t \in Target
  PROVE  Activate(q, t) \in Queue
BY DEF Activate, Queue, Entry, Status

LEMMA SetActiveStatusType ==
  ASSUME NEW q \in Queue, NEW s \in Status
  PROVE  SetActiveStatus(q, s) \in Queue
BY ActiveTargetType DEF SetActiveStatus, Queue, Entry

LEMMA RecordVantageDwellType ==
  ASSUME NEW q \in Queue, NEW k \in Angle, NEW clear \in BOOLEAN
  PROVE  RecordVantageDwell(q, k, clear) \in Queue
BY ActiveTargetType, DwelledType DEF RecordVantageDwell, Queue

LEMMA MergePeerDwellsType ==
  ASSUME NEW q \in Queue, NEW t, NEW S \in SUBSET Angle
  PROVE  MergePeerDwells(q, t, S) \in Queue
BY CreditedType DEF MergePeerDwells, Queue, Open

----------------------------------------------------------------------------
\* The credit of a queue: the part of it that changes of status leave alone.
SameCredit(q1, q2) ==
  \A u \in Target : /\ q2.rec[u].mask = q1.rec[u].mask
                    /\ q2.rec[u].dwells = q1.rec[u].dwells
                    /\ q2.rec[u].visited = q1.rec[u].visited

EntryCounted(e) == e.dwells = Cardinality(e.mask) /\ e.mask \subseteq e.visited
QueueCounted(q) == \A u \in Target : EntryCounted(q.rec[u])

LEMMA ActivateCredit ==
  ASSUME NEW q \in Queue, NEW t \in Target
  PROVE  SameCredit(q, Activate(q, t))
BY DEF SameCredit, Activate, Queue, Entry

LEMMA SetActiveStatusCredit ==
  ASSUME NEW q \in Queue, NEW s \in Status
  PROVE  SameCredit(q, SetActiveStatus(q, s))
BY ActiveTargetType DEF SameCredit, SetActiveStatus, Queue, Entry

LEMMA SameCreditCounted ==
  ASSUME NEW q1, NEW q2, SameCredit(q1, q2), QueueCounted(q1)
  PROVE  QueueCounted(q2)
BY DEF SameCredit, QueueCounted, EntryCounted

LEMMA EmptyQueueCounted == QueueCounted(EmptyQueue)
BY FS_EmptySet DEF QueueCounted, EntryCounted, EmptyQueue, FreshEntry

LEMMA IngestCredit ==
  ASSUME NEW q \in Queue, NEW t \in Target, NEW u \in Target
  PROVE  Ingest(q, t).rec[u] \in {q.rec[u], FreshEntry("PENDING")}
<1>1. CASE Duplicate(q, t)
  BY <1>1 DEF Ingest
<1>2. CASE ~ Duplicate(q, t)
  <2>1. Ingest(q, t).rec = [q.rec EXCEPT ![t] = FreshEntry("PENDING")]
    BY <1>2 DEF Ingest, Queue
  <2> QED
    BY <2>1 DEF Queue
<1> QED
  BY <1>1, <1>2

LEMMA IngestCounted ==
  ASSUME NEW q \in Queue, NEW t \in Target, QueueCounted(q)
  PROVE  QueueCounted(Ingest(q, t))
<1>1. EntryCounted(FreshEntry("PENDING"))
  BY FS_EmptySet DEF EntryCounted, FreshEntry
<1> QED
  BY <1>1, IngestCredit DEF QueueCounted

\* A dwell credits its own angle and nothing else.
LEMMA DwelledMask ==
  ASSUME NEW e \in Entry, NEW k \in Angle, NEW clear \in BOOLEAN
  PROVE  Dwelled(e, k, clear).mask = IF clear THEN e.mask \cup {k} ELSE e.mask
BY DEF Dwelled, Entry

LEMMA DwelledCounted ==
  ASSUME NEW e \in Entry, NEW k \in Angle, NEW clear \in BOOLEAN, EntryCounted(e)
  PROVE  EntryCounted(Dwelled(e, k, clear))
<1>1. IsFiniteSet(e.mask)
  BY MaskFinite DEF Entry
<1>2. CASE clear /\ k \notin e.mask
  <2>1. Cardinality(e.mask \cup {k}) = Cardinality(e.mask) + 1
    BY <1>1, <1>2, FS_AddElement
  <2>2. /\ Dwelled(e, k, clear).mask = e.mask \cup {k}
        /\ Dwelled(e, k, clear).dwells = e.dwells + 1
        /\ Dwelled(e, k, clear).visited = e.visited \cup {k}
    BY <1>2 DEF Dwelled, Entry
  <2> QED
    BY <2>1, <2>2 DEF EntryCounted
<1>3. CASE ~ (clear /\ k \notin e.mask)
  BY <1>3 DEF Dwelled, Entry, EntryCounted
<1> QED
  BY <1>2, <1>3

\* A merge credits what the peer reports and nothing else.
LEMMA CreditedMask ==
  ASSUME NEW e \in Entry, NEW S \in SUBSET Angle
  PROVE  Credited(e, S).mask = e.mask \cup S
BY DEF Credited, Entry

LEMMA CreditedCounted ==
  ASSUME NEW e \in Entry, NEW S \in SUBSET Angle, EntryCounted(e)
  PROVE  EntryCounted(Credited(e, S))
<1>1. IsFiniteSet(e.mask) /\ IsFiniteSet(S \ e.mask)
  BY MaskFinite, S \ e.mask \subseteq Angle DEF Entry
<1>2. /\ e.mask \cup S = e.mask \cup (S \ e.mask)
      /\ e.mask \cap (S \ e.mask) = {}
  OBVIOUS
<1>3. Cardinality(e.mask \cup S)
        = Cardinality(e.mask) + Cardinality(S \ e.mask)
          - Cardinality(e.mask \cap (S \ e.mask))
  BY <1>1, <1>2, FS_Union
<1>4. Cardinality(e.mask) \in Nat /\ Cardinality(S \ e.mask) \in Nat
  BY <1>1, FS_CardinalityType
<1>5. Cardinality(e.mask \cup S) = Cardinality(e.mask) + Cardinality(S \ e.mask)
  BY <1>2, <1>3, <1>4, FS_EmptySet
<1>6. /\ Credited(e, S).mask = e.mask \cup S
      /\ Credited(e, S).dwells = e.dwells + Cardinality(S \ e.mask)
      /\ Credited(e, S).visited = e.visited \cup (S \ e.mask)
  BY DEF Credited, Entry
<1> QED
  BY <1>5, <1>6 DEF EntryCounted

\* What the two operations that add credit do to each entry of a queue.
LEMMA RecordVantageDwellEntry ==
  ASSUME NEW q \in Queue, NEW k \in Angle, NEW clear \in BOOLEAN,
         NEW u \in Target
  PROVE  RecordVantageDwell(q, k, clear).rec[u] =
           IF u = ActiveTarget(q) THEN Dwelled(q.rec[u], k, clear) ELSE q.rec[u]
<1>1. CASE ActiveTarget(q) = NoTarget
  BY <1>1, TargetAssumption DEF RecordVantageDwell
<1>2. CASE ActiveTarget(q) # NoTarget
  <2> DEFINE t == ActiveTarget(q)
  <2>1. t \in Target
    BY <1>2, ActiveTargetType
  <2>2. RecordVantageDwell(q, k, clear).rec
          = [q.rec EXCEPT ![t] = Dwelled(q.rec[t], k, clear)]
    BY <1>2 DEF RecordVantageDwell, Queue
  <2> QED
    BY <2>1, <2>2 DEF Queue
<1> QED
  BY <1>1, <1>2

LEMMA MergePeerDwellsEntry ==
  ASSUME NEW q \in Queue, NEW t, NEW S \in SUBSET Angle, NEW u \in Target
  PROVE  MergePeerDwells(q, t, S).rec[u] =
           IF u = t /\ t \in Open(q) THEN Credited(q.rec[u], S) ELSE q.rec[u]
<1>1. CASE t \notin Open(q)
  BY <1>1 DEF MergePeerDwells
<1>2. CASE t \in Open(q)
  <2>1. MergePeerDwells(q, t, S).rec = [q.rec EXCEPT ![t] = Credited(q.rec[t], S)]
    BY <1>2 DEF MergePeerDwells, Queue
  <2> QED
    BY <1>2, <2>1 DEF Queue
<1> QED
  BY <1>1, <1>2

LEMMA RecordVantageDwellCounted ==
  ASSUME NEW q \in Queue, NEW k \in Angle, NEW clear \in BOOLEAN, QueueCounted(q)
  PROVE  QueueCounted(RecordVantageDwell(q, k, clear))
<1>1. \A u \in Target : q.rec[u] \in Entry
  BY DEF Queue
<1> QED
  BY <1>1, RecordVantageDwellEntry, DwelledCounted DEF QueueCounted

LEMMA MergePeerDwellsCounted ==
  ASSUME NEW q \in Queue, NEW t, NEW S \in SUBSET Angle, QueueCounted(q)
  PROVE  QueueCounted(MergePeerDwells(q, t, S))
<1>1. \A u \in Target : q.rec[u] \in Entry
  BY DEF Queue
<1> QED
  BY <1>1, MergePeerDwellsEntry, CreditedCounted DEF QueueCounted

----------------------------------------------------------------------------
\* The lifecycle of a queue: the part of it that credit leaves alone.
SameStatus(q1, q2) ==
  /\ q2.active = q1.active
  /\ \A u \in Target : q2.rec[u].status = q1.rec[u].status

LEMMA SameStatusActive ==
  ASSUME NEW q1, NEW q2, SameStatus(q1, q2)
  PROVE  /\ ActiveTarget(q2) = ActiveTarget(q1)
         /\ Open(q2) = Open(q1)
         /\ OneActive(q1) => OneActive(q2)
<1>1. ActiveTarget(q2) = ActiveTarget(q1)
  BY DEF SameStatus, ActiveTarget
<1> QED
  BY <1>1 DEF SameStatus, Open, OneActive

LEMMA RecordVantageDwellStatus ==
  ASSUME NEW q \in Queue, NEW k \in Angle, NEW clear \in BOOLEAN
  PROVE  SameStatus(q, RecordVantageDwell(q, k, clear))
<1>1. \A e \in Entry : Dwelled(e, k, clear).status = e.status
  BY DEF Dwelled, Entry
<1>2. \A u \in Target : q.rec[u] \in Entry
  BY DEF Queue
<1>3. RecordVantageDwell(q, k, clear).active = q.active
  BY DEF RecordVantageDwell, Queue
<1> QED
  BY <1>1, <1>2, <1>3, RecordVantageDwellEntry DEF SameStatus

LEMMA MergePeerDwellsStatus ==
  ASSUME NEW q \in Queue, NEW t, NEW S \in SUBSET Angle
  PROVE  SameStatus(q, MergePeerDwells(q, t, S))
<1>1. \A e \in Entry : Credited(e, S).status = e.status
  BY DEF Credited, Entry
<1>2. \A u \in Target : q.rec[u] \in Entry
  BY DEF Queue
<1>3. MergePeerDwells(q, t, S).active = q.active
  BY DEF MergePeerDwells, Queue
<1> QED
  BY <1>1, <1>2, <1>3, MergePeerDwellsEntry DEF SameStatus

LEMMA ActiveIsOpen ==
  ASSUME NEW q, ActiveTarget(q) # NoTarget
  PROVE  ActiveTarget(q) \in Open(q)
BY DEF ActiveTarget, Open

LEMMA EmptyQueueActive == OneActive(EmptyQueue)
BY DEF OneActive, EmptyQueue, FreshEntry

LEMMA IngestActive ==
  ASSUME NEW q \in Queue, NEW t \in Target, OneActive(q)
  PROVE  /\ OneActive(Ingest(q, t))
         /\ ActiveTarget(Ingest(q, t)) = ActiveTarget(q)
         /\ Open(q) \subseteq Open(Ingest(q, t))
<1>1. CASE Duplicate(q, t)
  BY <1>1 DEF Ingest
<1>2. CASE ~ Duplicate(q, t)
  <2>1. q.rec[t].status = "ABSENT"
    BY <1>2 DEF Duplicate, Known
  <2>2. /\ Ingest(q, t).active = q.active
        /\ Ingest(q, t).rec = [q.rec EXCEPT ![t] = FreshEntry("PENDING")]
    BY <1>2 DEF Ingest, Queue
  <2>3. \A u \in Target : Ingest(q, t).rec[u] =
          IF u = t THEN FreshEntry("PENDING") ELSE q.rec[u]
    BY <2>2 DEF Queue
  <2>4. FreshEntry("PENDING").status = "PENDING"
    BY DEF FreshEntry
  <2>5. ActiveTarget(Ingest(q, t)) = ActiveTarget(q)
    BY <2>1, <2>2, <2>3, <2>4 DEF ActiveTarget
  <2> QED
    BY <2>1, <2>3, <2>4, <2>5 DEF OneActive, Open
<1> QED
  BY <1>1, <1>2

LEMMA ActivateActive ==
  ASSUME NEW q \in Queue, NEW t \in Target, Promotes(q, t), OneActive(q)
  PROVE  OneActive(Activate(q, t)) /\ ActiveTarget(Activate(q, t)) = t
<1>1. Activate(q, t).active = t
  BY DEF Activate, Queue
<1>2. \A u \in Target : Activate(q, t).rec[u].status =
        IF u = t THEN "ACTIVE" ELSE q.rec[u].status
  BY DEF Activate, Queue, Entry
<1>3. ActiveTarget(Activate(q, t)) = t
  BY <1>1, <1>2 DEF ActiveTarget
<1>4. \A u \in Target : q.rec[u].status = "ACTIVE" => u = t
  BY TargetAssumption DEF Promotes, OneActive
<1> QED
  BY <1>2, <1>3, <1>4 DEF OneActive

LEMMA SetActiveStatusActive ==
  ASSUME NEW q \in Queue, NEW s \in Status \ {"ACTIVE"}, OneActive(q)
  PROVE  OneActive(SetActiveStatus(q, s))
<1> DEFINE t == ActiveTarget(q)
<1>1. SetActiveStatus(q, s).active = NoTarget
  BY DEF SetActiveStatus, Queue
<1>2. ActiveTarget(SetActiveStatus(q, s)) = NoTarget
  BY <1>1, TargetAssumption DEF ActiveTarget
<1>3. CASE t = NoTarget
  <2>1. SetActiveStatus(q, s).rec = q.rec
    BY <1>3 DEF SetActiveStatus, Queue
  <2> QED
    BY <1>2, <1>3, <2>1, TargetAssumption DEF OneActive
<1>4. CASE t # NoTarget
  <2>1. t \in Target
    BY <1>4, ActiveTargetType
  <2>2. \A u \in Target : SetActiveStatus(q, s).rec[u].status =
          IF u = t THEN s ELSE q.rec[u].status
    BY <1>4, <2>1 DEF SetActiveStatus, Queue, Entry
  <2> QED
    BY <2>2, TargetAssumption DEF OneActive
<1> QED
  BY <1>3, <1>4

=============================================================================
