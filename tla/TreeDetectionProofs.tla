------------------------ MODULE TreeDetectionProofs ------------------------
(***************************************************************************)
(* Type correctness of the detector, and that a tree with no other tree    *)
(* within the match radius is published once, on consecutive readings.     *)
(***************************************************************************)
EXTENDS TreeDetection, FiniteSetTheorems, TLAPS

\* What a detection leaves behind: a track stands where its tree may be, and
\* so does an emitted target.
WhereTheTreeIs ==
  /\ \A s \in Slot : s \in Live =>
       /\ track[s].of \in sighted
       /\ track[s].centre \in Estimates[track[s].of]
  /\ \A i \in DOMAIN emitted :
       emitted[i].centre \in Estimates[emitted[i].tree]

\* A claimed track belongs to a detection already handled.
ClaimsHandled ==
  /\ \A s \in claimed : s \in Live /\ track[s].of \notin pending
  /\ pending = {} => claimed = {}

\* A tree that stands alone has one track at most, which knows whether the
\* tree was published and counts no reading the tree did not give.
OneTrack ==
  \A t \in Tree : Alone(t) =>
    \A s \in Slot : s \in Live /\ track[s].of = t =>
      /\ \A u \in Slot : u \in Live /\ track[u].of = t => u = s
      /\ Published(t) => track[s].emitted
      /\ track[s].confirm <= row[t]

IInv == TypeOK /\ WhereTheTreeIs /\ ClaimsHandled /\ OneTrack /\ EmitOnce
----------------------------------------------------------------------------
USE SectorAssumption, ForestAssumption, EstimateAssumption, DistAssumption,
    VerdictAssumption, SettingAssumption, CellAssumption, DriftAssumption,
    NoTrackAssumption

\* What one turn of the loop does with the gate g it continues, in slot s.
Turn(t, c, s, g, after) ==
  /\ track' = [track EXCEPT ![s] = after]
  /\ after.of = t /\ after.centre = c /\ after.age = 0
  /\ g.emitted => after.emitted
  /\ IF after.emitted /\ ~g.emitted
       THEN /\ emitted' = Append(emitted, [id |-> after.id, centre |-> c, tree |-> t])
            /\ row'[t] = UpTo(ConfirmTicks, row[t])
            /\ UpTo(ConfirmTicks, g.confirm) >= ConfirmTicks
       ELSE emitted' = emitted
  /\ \/ row' = [row EXCEPT ![t] = UpTo(ConfirmTicks, @)]
          /\ after.confirm = UpTo(ConfirmTicks, g.confirm)
     \/ row' = [row EXCEPT ![t] = 0] /\ after.confirm = 0
  /\ t \in pending /\ pending' = pending \ {t}
  /\ claimed' = IF pending' = {} THEN {} ELSE claimed \cup {s}
  /\ pose' \in BOOLEAN
  /\ UNCHANGED <<forest, scene, sighted>>

\* The gate a turn starts from: an unclaimed track near c, or a new one.
Start(t, c, s, g) ==
  \/ /\ s \in Live \ claimed /\ g = track[s]
     /\ Dist[g.centre][c] <= MatchRadius
  \/ /\ Claimable(c) = {} /\ s \notin Live
     /\ g.confirm = 0 /\ g.emitted = (EmittedNear(c) # {})

\* The cap leaves a counter in its range and keeps its order.
LEMMA UpToBound ==
  ASSUME NEW b \in Nat, NEW n \in 0 .. b
  PROVE  UpTo(b, n) \in 0 .. b /\ n <= UpTo(b, n)
BY DEF UpTo

LEMMA UpToMonotone ==
  ASSUME NEW b \in Nat, NEW m \in 0 .. b, NEW n \in 0 .. b, m <= n
  PROVE  UpTo(b, m) <= UpTo(b, n)
BY DEF UpTo

\* observeBearing keeps a track a track.
LEMMA ViewedType ==
  ASSUME TypeOK, NEW g \in Track, NEW k \in Sector
  PROVE  /\ Viewed(g, k) \in Track
         /\ Viewed(g, k).emitted = g.emitted /\ Viewed(g, k).confirm = g.confirm
<1> DEFINE x == IF k \in g.mask THEN UpTo(SettleTicks, g.settle) ELSE 0
<1>1. x \in 0 .. SettleTicks
  BY UpToBound DEF Track
<1>2. g.mask \cup {k} \in SUBSET Sector
  BY DEF Track
<1>3. ObserveBearing(g, k) = [g EXCEPT !.settle = x, !.mask = g.mask \cup {k}]
  BY DEF ObserveBearing
<1> HIDE DEF x
<1>4. /\ ObserveBearing(g, k) \in Track
      /\ ObserveBearing(g, k).emitted = g.emitted
      /\ ObserveBearing(g, k).confirm = g.confirm
  BY <1>1, <1>2, <1>3 DEF Track
<1>5. QED BY <1>4 DEF Viewed

LEMMA SeenType ==
  ASSUME TypeOK, NEW g \in Track, NEW k \in Sector, NEW c \in Centre, NEW t \in Tree
  PROVE  /\ Seen(t, c, k, g) \in Track
         /\ Seen(t, c, k, g).of = t /\ Seen(t, c, k, g).centre = c
         /\ Seen(t, c, k, g).age = 0
         /\ Seen(t, c, k, g).emitted = g.emitted
         /\ Seen(t, c, k, g).confirm = g.confirm
<1> DEFINE v == Viewed(g, k)
<1>1. v \in Track /\ v.emitted = g.emitted /\ v.confirm = g.confirm
  BY ViewedType
<1>2. Seen(t, c, k, g) = [v EXCEPT !.centre = c, !.age = 0, !.of = t]
  BY DEF Seen
<1> HIDE DEF v
<1> DEFINE v1 == [v EXCEPT !.centre = c]
           v2 == [v1 EXCEPT !.age = 0]
<1>3. /\ v1 \in Track /\ v1.centre = c
      /\ v1.emitted = g.emitted /\ v1.confirm = g.confirm
  BY <1>1 DEF Track
<1>4. Seen(t, c, k, g) = [v2 EXCEPT !.of = t]
  BY <1>2
<1> HIDE DEF v1
<1>5. /\ v2 \in Track /\ v2.centre = c /\ v2.age = 0
      /\ v2.emitted = g.emitted /\ v2.confirm = g.confirm
  <2>1. 0 \in 0 .. TrackTimeout + 1
    OBVIOUS
  <2>2. QED BY <1>3, <2>1, Zenon DEF Track
<1> HIDE DEF v2
<1>6. QED BY <1>4, <1>5 DEF Track

\* stepEmitGate: a target is emitted by an under-informed reading only, on a
\* streak long enough.
LEMMA GateType ==
  ASSUME NEW g \in Track, NEW needy \in BOOLEAN, NEW hasBearing
  PROVE  /\ StepEmitGate(g, needy, hasBearing) \in Track
         /\ StepEmitGate(g, needy, hasBearing).of = g.of
         /\ StepEmitGate(g, needy, hasBearing).centre = g.centre
         /\ StepEmitGate(g, needy, hasBearing).age = g.age
         /\ g.emitted => StepEmitGate(g, needy, hasBearing).emitted
         /\ StepEmitGate(g, needy, hasBearing).emitted /\ ~g.emitted =>
              needy /\ UpTo(ConfirmTicks, g.confirm) >= ConfirmTicks
         /\ StepEmitGate(g, needy, hasBearing).confirm =
              IF needy THEN UpTo(ConfirmTicks, g.confirm) ELSE 0
<1> DEFINE n == UpTo(ConfirmTicks, g.confirm)
           e == g.emitted \/ (n >= ConfirmTicks /\ Settled(g, hasBearing))
<1>1. n \in 0 .. ConfirmTicks
  BY UpToBound DEF Track
<1>2. e \in BOOLEAN /\ (g.emitted => e) /\ (e /\ ~g.emitted => n >= ConfirmTicks)
  BY DEF Track
<1>3. CASE ~needy
  <2>1. StepEmitGate(g, needy, hasBearing) = [g EXCEPT !.confirm = 0]
    BY <1>3 DEF StepEmitGate
  <2>2. /\ [g EXCEPT !.confirm = 0] \in Track
        /\ [g EXCEPT !.confirm = 0].of = g.of
        /\ [g EXCEPT !.confirm = 0].centre = g.centre
        /\ [g EXCEPT !.confirm = 0].age = g.age
        /\ [g EXCEPT !.confirm = 0].emitted = g.emitted
        /\ [g EXCEPT !.confirm = 0].confirm = 0
    <3>1. 0 \in 0 .. ConfirmTicks
      OBVIOUS
    <3>2. QED BY <3>1, Zenon DEF Track
  <2>3. QED BY <1>3, <2>1, <2>2
<1>4. CASE needy
  <2>1. StepEmitGate(g, needy, hasBearing) = [g EXCEPT !.confirm = n, !.emitted = e]
    BY <1>4 DEF StepEmitGate
  <2> HIDE DEF n, e
  <2>2. /\ StepEmitGate(g, needy, hasBearing) \in Track
        /\ StepEmitGate(g, needy, hasBearing).of = g.of
        /\ StepEmitGate(g, needy, hasBearing).centre = g.centre
        /\ StepEmitGate(g, needy, hasBearing).age = g.age
        /\ StepEmitGate(g, needy, hasBearing).emitted = e
        /\ StepEmitGate(g, needy, hasBearing).confirm = n
    BY <1>1, <1>2, <2>1 DEF Track
  <2>3. QED BY <1>2, <1>4, <2>2 DEF n
<1>5. QED BY <1>3, <1>4

LEMMA LiveTracks == ASSUME TypeOK, NEW s \in Live PROVE s \in Slot /\ track[s] \in Track
BY DEF TypeOK, Live

LEMMA ObserveIsTurn ==
  ASSUME TypeOK, NEW t \in pending, NEW c \in Estimates[t], NEW k \in Sector,
         Observe(t, c, k)
  PROVE  \E s \in Slot, g \in Track, after \in Track :
           Start(t, c, s, g) /\ Turn(t, c, s, g, after)
<1>1. t \in Tree /\ c \in Centre
  BY DEF TypeOK
<1> DEFINE After(m, needy) == StepEmitGate(Seen(t, c, k, m[2]), needy, pose)
           Step(m, needy) ==
             /\ t \in pending
             /\ track' = [track EXCEPT ![m[1]] = After(m, needy)]
             /\ emitted' = IF After(m, needy).emitted /\ ~m[2].emitted
                             THEN Append(emitted, [id |-> After(m, needy).id, centre |-> c,
                                                   tree |-> t])
                             ELSE emitted
             /\ pending' = pending \ {t}
             /\ claimed' = IF pending' = {} THEN {} ELSE claimed \cup {m[1]}
             /\ pose' = (pose /\ pending' # {})
             /\ row' = [row EXCEPT ![t] = IF needy THEN UpTo(ConfirmTicks, @) ELSE 0]
             /\ UNCHANGED <<forest, scene, sighted>>
<1>2. PICK m \in Matches(t, c) : \E needy \in Readings(Viewed(m[2], k)) : Step(m, needy)
  BY DEF Observe
<1>4. PICK needy \in Readings(Viewed(m[2], k)) : Step(m, needy)
  BY <1>2
<1>3. m[1] \in Slot /\ m[2] \in Track /\ Start(t, c, m[1], m[2])
  <2>1. CASE Claimable(c) # {}
    <3>1. PICK s \in Nearest(c) : m = <<s, track[s]>>
      BY <2>1 DEF Matches
    <3>2. s \in Live \ claimed /\ Dist[track[s].centre][c] <= MatchRadius
      BY <3>1 DEF Nearest, Claimable
    <3>3. QED BY <3>1, <3>2, LiveTracks DEF Start
  <2>2. CASE Claimable(c) = {}
    <3>1. Live # Slot
      BY <2>2 DEF Matches
    <3>2. PICK i \in Previous(c) : m = <<FreeSlot, NewTrack(t, c, i)>>
      BY <2>2, <3>1 DEF Matches
    <3>3. FreeSlot \in Slot /\ FreeSlot \notin Live
      BY <3>1 DEF FreeSlot, Live
    <3>4. /\ i # 0 => i \in DOMAIN emitted
          /\ (i # 0) = (EmittedNear(c) # {})
      <4>1. DOMAIN emitted = 1 .. Len(emitted)
        BY DEF TypeOK
      <4>2. QED BY <4>1 DEF Previous, EmittedNear
    <3>5. i # 0 => emitted[i].id \in CellId
      <4>1. emitted \in Seq(Target)
        BY DEF TypeOK
      <4>2. i # 0 => emitted[i] \in Target
        BY <3>4, <4>1
      <4>3. QED BY <4>2 DEF Target
    <3>6. NewTrack(t, c, i) \in Track
      BY <1>1, <3>5 DEF NewTrack, Track
    <3>7. /\ NewTrack(t, c, i).confirm = 0
          /\ NewTrack(t, c, i).emitted = (EmittedNear(c) # {})
      BY <3>4 DEF NewTrack
    <3>8. QED BY <2>2, <3>2, <3>3, <3>6, <3>7 DEF Start
  <2>3. QED BY <2>1, <2>2
<1>5. needy \in BOOLEAN
  <2>1. Viewed(m[2], k).mask \in SUBSET Sector
    BY <1>3, ViewedType DEF Track
  <2>2. Cardinality(Viewed(m[2], k).mask) \in 0 .. Cardinality(Sector)
    BY <2>1, FS_Subset, FS_CardinalityType
  <2>3. QED BY <2>2 DEF Readings
<1> DEFINE seen  == Seen(t, c, k, m[2])
           after == After(m, needy)
<1>6. /\ after \in Track /\ after.of = t /\ after.centre = c /\ after.age = 0
      /\ m[2].emitted => after.emitted
      /\ after.emitted /\ ~m[2].emitted =>
           needy /\ UpTo(ConfirmTicks, m[2].confirm) >= ConfirmTicks
      /\ after.confirm = IF needy THEN UpTo(ConfirmTicks, m[2].confirm) ELSE 0
  <2>1. /\ seen \in Track /\ seen.of = t /\ seen.centre = c /\ seen.age = 0
        /\ seen.emitted = m[2].emitted /\ seen.confirm = m[2].confirm
    BY <1>1, <1>3, SeenType
  <2>2. after = StepEmitGate(seen, needy, pose)
    OBVIOUS
  <2> HIDE DEF seen, after
  <2>3. QED BY <1>5, <2>1, <2>2, GateType
<1>7. needy => row'[t] = UpTo(ConfirmTicks, row[t])
  BY <1>1, <1>4 DEF TypeOK
<1>8. Turn(t, c, m[1], m[2], after)
  <2>1. /\ track' = [track EXCEPT ![m[1]] = after]
        /\ emitted' = IF after.emitted /\ ~m[2].emitted
                         THEN Append(emitted, [id |-> after.id, centre |-> c, tree |-> t])
                         ELSE emitted
        /\ t \in pending /\ pending' = pending \ {t}
        /\ claimed' = IF pending' = {} THEN {} ELSE claimed \cup {m[1]}
        /\ pose' \in BOOLEAN
        /\ row' = [row EXCEPT ![t] = IF needy THEN UpTo(ConfirmTicks, @) ELSE 0]
        /\ UNCHANGED <<forest, scene, sighted>>
    BY <1>4 DEF TypeOK
  <2> HIDE DEF after
  <2>2. QED BY <1>5, <1>6, <1>7, <2>1 DEF Turn
<1>9. QED BY <1>3, <1>6, <1>8

----------------------------------------------------------------------------
\* Type correctness.

LEMMA TurnType ==
  ASSUME TypeOK, NEW t \in pending, NEW c \in Estimates[t],
         NEW s \in Slot, NEW g \in Track, NEW after \in Track,
         Turn(t, c, s, g, after)
  PROVE  TypeOK'
<1>1. t \in Tree /\ c \in Centre
  BY DEF TypeOK
<1>2. (track \in [Slot -> Track \cup {NoTrack}])'
  BY DEF Turn, TypeOK
<1>3. (emitted \in Seq(Target))'
  <2>1. [id |-> after.id, centre |-> c, tree |-> t] \in Target
    BY <1>1 DEF Track, Target
  <2>2. emitted \in Seq(Target)
    BY DEF TypeOK
  <2>3. Append(emitted, [id |-> after.id, centre |-> c, tree |-> t]) \in Seq(Target)
    BY <2>1, <2>2
  <2>4. QED BY <2>2, <2>3 DEF Turn
<1>4. (row \in [Tree -> 0 .. ConfirmTicks])'
  <2>1. UpTo(ConfirmTicks, row[t]) \in 0 .. ConfirmTicks
    BY <1>1, UpToBound DEF TypeOK
  <2>2. 0 \in 0 .. ConfirmTicks
    OBVIOUS
  <2>3. \/ row' = [row EXCEPT ![t] = UpTo(ConfirmTicks, row[t])]
        \/ row' = [row EXCEPT ![t] = 0]
    BY DEF Turn
  <2>4. PICK v \in 0 .. ConfirmTicks : row' = [row EXCEPT ![t] = v]
    BY <2>1, <2>2, <2>3
  <2>5. row \in [Tree -> 0 .. ConfirmTicks]
    BY DEF TypeOK
  <2>6. QED BY <2>4, <2>5
<1>5. QED BY <1>2, <1>3, <1>4 DEF Turn, TypeOK

LEMMA AgedType ==
  ASSUME NEW g \in Track
  PROVE  /\ Aged(g) \in Track /\ Aged(g).of = g.of /\ Aged(g).centre = g.centre
         /\ Aged(g).emitted = g.emitted /\ Aged(g).confirm = g.confirm
<1>1. UpTo(TrackTimeout + 1, g.age) \in 0 .. TrackTimeout + 1
  BY UpToBound DEF Track
<1>2. QED BY <1>1 DEF Aged, Track

LEMMA TypeStep == ASSUME TypeOK, [Next]_vars PROVE TypeOK'
<1>1. CASE Scan
  <2>1. PICK S \in SUBSET forest, hasPose \in BOOLEAN : BeginScan(S, hasPose)
    BY <1>1 DEF Scan
  <2>2. \A s \in Slot : s \in Live => Aged(track[s]) \in Track
    BY LiveTracks, AgedType
  <2>3. (track \in [Slot -> Track \cup {NoTrack}])'
    BY <2>1, <2>2 DEF BeginScan
  <2>4. QED BY <2>1, <2>3 DEF BeginScan, TypeOK
<1>2. CASE SkipScan
  <2>1. \A s \in Slot : s \in Live => Aged(track[s]) \in Track
    BY LiveTracks, AgedType
  <2>2. (track \in [Slot -> Track \cup {NoTrack}])'
    BY <1>2, <2>1 DEF SkipScan
  <2>3. QED BY <1>2, <2>2 DEF SkipScan, TypeOK
<1>3. CASE HandleDetection
  <2>1. PICK t \in pending : \E c \in Estimates[t], k \in Sector : Observe(t, c, k)
    BY <1>3 DEF HandleDetection
  <2>2. PICK c \in Estimates[t], k \in Sector : Observe(t, c, k)
    BY <2>1
  <2>3. QED BY <2>2, ObserveIsTurn, TurnType
<1>4. CASE UNCHANGED vars
  BY <1>4 DEF vars, TypeOK
<1>5. QED BY <1>1, <1>2, <1>3, <1>4 DEF Next

LEMMA TypeInit == Init => TypeOK
<1> SUFFICES ASSUME Init PROVE TypeOK
  OBVIOUS
<1>1. row \in [Tree -> 0 .. ConfirmTicks]
  BY DEF Init
<1>2. emitted \in Seq(Target)
  BY DEF Init
<1>3. QED BY <1>1, <1>2 DEF Init, TypeOK

\* Every variable of the detector keeps its type, the counters of a track
\* included (Track, EmitGate).
THEOREM TypeCorrect == Spec => []TypeOK
BY TypeInit, TypeStep, PTL DEF Spec

----------------------------------------------------------------------------
\* Published once.

LEMMA NearTogether ==
  ASSUME NEW t \in Tree, NEW u \in Tree, NEW c \in Estimates[t], NEW d \in Estimates[u],
         Dist[d][c] <= MatchRadius
  PROVE  ~Apart(t, u) /\ ~Apart(u, t)
<1>1. c \in Centre /\ d \in Centre
  OBVIOUS
<1>2. Dist[c][d] = Dist[d][c] /\ Dist[c][d] \in Nat
  BY <1>1
<1>3. QED BY <1>2 DEF Apart

\* Before a turn that finds a tree alone, the gate it starts from is that
\* tree's own: the tree was published only if the gate says so.
LEMMA StartIsOwn ==
  ASSUME IInv, NEW t \in pending, NEW c \in Estimates[t], Alone(t),
         NEW s \in Slot, NEW g \in Track, Start(t, c, s, g)
  PROVE  /\ \A u \in Slot : u \in Live /\ track[u].of = t => u = s
         /\ Published(t) => g.emitted
         /\ g.confirm <= row[t]
<1>1. t \in Tree /\ t \in sighted /\ c \in Centre /\ row[t] \in Nat
  BY DEF IInv, TypeOK
<1>2. CASE /\ s \in Live \ claimed /\ g = track[s] /\ Dist[g.centre][c] <= MatchRadius
  <2>1. /\ g.of \in sighted /\ g.of \in Tree /\ g.centre \in Estimates[g.of]
    BY <1>2 DEF IInv, WhereTheTreeIs, Track
  <2>2. g.of = t
    BY <1>1, <1>2, <2>1, NearTogether DEF Alone
  <2>3. QED BY <1>1, <1>2, <2>2 DEF IInv, OneTrack
<1>3. CASE /\ Claimable(c) = {} /\ s \notin Live
           /\ g.confirm = 0 /\ g.emitted = (EmittedNear(c) # {})
  <2>1. ASSUME NEW u \in Slot, u \in Live, track[u].of = t
        PROVE  FALSE
    <3>1. track[u].centre \in Estimates[t]
      BY <2>1 DEF IInv, WhereTheTreeIs
    <3>2. Dist[track[u].centre][c] <= MatchRadius
      BY <1>1, <3>1
    <3>3. u \notin claimed
      BY <2>1 DEF IInv, ClaimsHandled
    <3>4. QED BY <1>3, <2>1, <3>2, <3>3 DEF Claimable
  <2>2. ASSUME Published(t) PROVE g.emitted
    <3>1. PICK i \in DOMAIN emitted : emitted[i].tree = t
      BY <2>2 DEF Published
    <3>2. emitted[i].centre \in Estimates[t]
      BY <3>1 DEF IInv, WhereTheTreeIs
    <3>3. Dist[emitted[i].centre][c] <= MatchRadius
      BY <1>1, <3>2
    <3>4. QED BY <1>3, <3>1, <3>3 DEF EmittedNear
  <2>3. QED BY <1>1, <1>3, <2>1, <2>2
<1>4. QED BY <1>2, <1>3 DEF Start

\* A turn of tree t takes no track from a tree that stands alone.
LEMMA StartSpares ==
  ASSUME IInv, NEW t \in pending, NEW c \in Estimates[t],
         NEW s \in Slot, NEW g \in Track, Start(t, c, s, g),
         NEW v \in Tree, v # t, Alone(v), s \in Live
  PROVE  track[s].of # v
<1>1. t \in Tree /\ t \in sighted
  BY DEF IInv, TypeOK
<1>2. /\ g = track[s] /\ Dist[g.centre][c] <= MatchRadius
      /\ g.centre \in Estimates[g.of]
  BY DEF Start, IInv, WhereTheTreeIs
<1>3. QED BY <1>1, <1>2, NearTogether DEF Alone

\* What a turn adds to emitted_: nothing, or the target of t at the end.
LEMMA TurnEmits ==
  ASSUME IInv, NEW t \in pending, NEW c \in Estimates[t],
         NEW s \in Slot, NEW g \in Track, NEW after \in Track,
         Turn(t, c, s, g, after)
  PROVE  \/ emitted' = emitted /\ (after.emitted => g.emitted)
         \/ /\ ~g.emitted /\ after.emitted
            /\ Len(emitted') = Len(emitted) + 1
            /\ DOMAIN emitted' = DOMAIN emitted \cup {Len(emitted) + 1}
            /\ \A i \in DOMAIN emitted : emitted'[i] = emitted[i]
            /\ Len(emitted) + 1 \notin DOMAIN emitted
            /\ emitted'[Len(emitted) + 1].tree = t
            /\ emitted'[Len(emitted) + 1].centre = c
<1>1. t \in Tree /\ c \in Centre
  BY DEF IInv, TypeOK
<1>2. CASE ~(after.emitted /\ ~g.emitted)
  BY <1>2 DEF Turn
<1>3. CASE after.emitted /\ ~g.emitted
  <2> DEFINE e == [id |-> after.id, centre |-> c, tree |-> t]
  <2>1. e \in Target /\ e.tree = t /\ e.centre = c
    BY <1>1 DEF Track, Target
  <2>2. emitted \in Seq(Target) /\ emitted' = Append(emitted, e)
    BY <1>3 DEF Turn, IInv, TypeOK
  <2> HIDE DEF e
  <2>3. /\ Len(emitted') = Len(emitted) + 1
        /\ \A i \in 1 .. Len(emitted) : emitted'[i] = emitted[i]
        /\ emitted'[Len(emitted) + 1] = e
        /\ DOMAIN emitted = 1 .. Len(emitted) /\ DOMAIN emitted' = 1 .. Len(emitted) + 1
        /\ Len(emitted) \in Nat
    BY <2>1, <2>2
  <2>4. QED BY <1>3, <2>1, <2>3
<1>4. QED BY <1>2, <1>3

\* Which slots are live after a turn, and whose they are.
LEMMA TurnLive ==
  ASSUME IInv, NEW t \in pending, NEW c \in Estimates[t],
         NEW s \in Slot, NEW g \in Track, NEW after \in Track,
         Turn(t, c, s, g, after)
  PROVE  /\ Live' = Live \cup {s}
         /\ \A u \in Slot : u # s => track'[u] = track[u]
         /\ track'[s] = after
<1>1. /\ track' = [track EXCEPT ![s] = after]
      /\ track \in [Slot -> Track \cup {NoTrack}]
  BY DEF Turn, IInv, TypeOK
<1>2. /\ \A u \in Slot : u # s => track'[u] = track[u]
      /\ track'[s] = after /\ after # NoTrack
  BY <1>1
<1>3. QED BY <1>2 DEF Live

LEMMA TurnKeepsPlaces ==
  ASSUME IInv, NEW t \in pending, NEW c \in Estimates[t],
         NEW s \in Slot, NEW g \in Track, NEW after \in Track,
         Turn(t, c, s, g, after)
  PROVE  WhereTheTreeIs'
<1>1. t \in sighted /\ sighted' = sighted /\ after.of = t /\ after.centre = c
  BY DEF Turn, IInv, TypeOK
<1>2. ASSUME NEW u \in Slot, u \in Live'
      PROVE  track'[u].of \in sighted' /\ track'[u].centre \in Estimates[track'[u].of]
  <2>1. CASE u = s
    BY <1>1, <2>1, TurnLive
  <2>2. CASE u # s
    <3>1. track'[u] = track[u] /\ u \in Live
      BY <1>2, <2>2, TurnLive
    <3>2. QED BY <1>1, <3>1 DEF IInv, WhereTheTreeIs
  <2>3. QED BY <2>1, <2>2
<1>3. ASSUME NEW i \in DOMAIN emitted'
      PROVE  emitted'[i].centre \in Estimates[emitted'[i].tree]
  <2>1. \/ i \in DOMAIN emitted /\ emitted'[i] = emitted[i]
        \/ emitted'[i].tree = t /\ emitted'[i].centre = c
    <3>1. CASE emitted' = emitted
      BY <1>3, <3>1
    <3>2. CASE emitted' # emitted
      <4>1. /\ DOMAIN emitted' = DOMAIN emitted \cup {Len(emitted) + 1}
            /\ \A n \in DOMAIN emitted : emitted'[n] = emitted[n]
            /\ emitted'[Len(emitted) + 1].tree = t
            /\ emitted'[Len(emitted) + 1].centre = c
        BY <3>2, TurnEmits
      <4>2. QED BY <1>3, <4>1
    <3>3. QED BY <3>1, <3>2
  <2>2. QED BY <2>1 DEF IInv, WhereTheTreeIs
<1>4. QED BY <1>2, <1>3 DEF WhereTheTreeIs

LEMMA TurnKeepsClaims ==
  ASSUME IInv, NEW t \in pending, NEW c \in Estimates[t],
         NEW s \in Slot, NEW g \in Track, NEW after \in Track,
         Start(t, c, s, g), Turn(t, c, s, g, after)
  PROVE  ClaimsHandled'
<1>1. /\ after.of = t /\ pending' = pending \ {t}
      /\ claimed' = IF pending' = {} THEN {} ELSE claimed \cup {s}
  BY DEF Turn
<1>2. ASSUME NEW u \in claimed'
      PROVE  u \in Live' /\ track'[u].of \notin pending'
  <2>1. CASE u = s
    BY <1>1, <2>1, TurnLive
  <2>2. CASE u # s
    <3>1. u \in claimed
      BY <1>1, <1>2, <2>2
    <3>2. u \in Live /\ track[u].of \notin pending
      BY <3>1 DEF IInv, ClaimsHandled
    <3>3. QED BY <1>1, <2>2, <3>2, TurnLive DEF Live
  <2>3. QED BY <2>1, <2>2
<1>3. QED BY <1>1, <1>2 DEF ClaimsHandled

LEMMA TurnKeepsOneTrack ==
  ASSUME IInv, NEW t \in pending, NEW c \in Estimates[t],
         NEW s \in Slot, NEW g \in Track, NEW after \in Track,
         Start(t, c, s, g), Turn(t, c, s, g, after)
  PROVE  OneTrack'
<1>1. sighted' = sighted /\ after.of = t /\ t \in Tree
  BY DEF Turn, IInv, TypeOK
<1>2. SUFFICES ASSUME NEW v \in Tree, Alone(v), NEW x \in Slot, x \in Live',
                      track'[x].of = v
               PROVE  /\ \A u \in Slot : u \in Live' /\ track'[u].of = v => u = x
                      /\ Published(v)' => track'[x].emitted
                      /\ track'[x].confirm <= row'[v]
  BY <1>1 DEF OneTrack, Alone
<1>3. CASE v = t
  <2>1. /\ \A u \in Slot : u \in Live /\ track[u].of = t => u = s
        /\ Published(t) => g.emitted
        /\ g.confirm <= row[t]
    BY <1>2, <1>3, StartIsOwn
  <2>2. x = s /\ \A u \in Slot : u \in Live' /\ track'[u].of = v => u = s
    <3>1. /\ Live' = Live \cup {s}
          /\ \A u \in Slot : u # s => track'[u] = track[u]
      BY TurnLive
    <3>2. \A u \in Slot : u \in Live' /\ track'[u].of = v => u = s
      BY <1>3, <2>1, <3>1
    <3>3. QED BY <1>2, <3>2
  <2>3. Published(t)' => after.emitted
    BY <2>1, TurnEmits DEF Published, Turn
  <2>4. after.confirm <= row'[t]
    <3>1. row[t] \in 0 .. ConfirmTicks /\ g.confirm \in 0 .. ConfirmTicks
      BY <1>1 DEF IInv, TypeOK, Track
    <3>2. UpTo(ConfirmTicks, g.confirm) <= UpTo(ConfirmTicks, row[t])
      BY <2>1, <3>1, UpToMonotone
    <3>3. QED BY <1>1, <3>2 DEF Turn, IInv, TypeOK
  <2>5. QED BY <1>3, <2>2, <2>3, <2>4, TurnLive
<1>4. CASE v # t
  <2>1. x # s
    BY <1>1, <1>2, <1>4, TurnLive
  <2>2. x \in Live /\ track'[x] = track[x]
    BY <1>2, <2>1, TurnLive
  <2>3. \A u \in Slot : u \in Live' /\ track'[u].of = v => u \in Live /\ track[u].of = v
    BY <1>1, <1>4, TurnLive
  <2>4. Published(v)' => Published(v)
    <3>1. CASE emitted' = emitted
      BY <3>1 DEF Published
    <3>2. CASE emitted' # emitted
      <4>1. /\ DOMAIN emitted' = DOMAIN emitted \cup {Len(emitted) + 1}
            /\ \A n \in DOMAIN emitted : emitted'[n] = emitted[n]
            /\ emitted'[Len(emitted) + 1].tree = t
        BY <3>2, TurnEmits
      <4>2. QED BY <1>4, <4>1 DEF Published
    <3>3. QED BY <3>1, <3>2
  <2>5. row'[v] = row[v]
    BY <1>1, <1>4 DEF Turn, IInv, TypeOK
  <2>6. QED BY <1>2, <2>2, <2>3, <2>4, <2>5 DEF IInv, OneTrack
<1>5. QED BY <1>3, <1>4

LEMMA TurnKeepsOnce ==
  ASSUME IInv, NEW t \in pending, NEW c \in Estimates[t],
         NEW s \in Slot, NEW g \in Track, NEW after \in Track,
         Start(t, c, s, g), Turn(t, c, s, g, after)
  PROVE  EmitOnce'
<1>1. sighted' = sighted
  BY DEF Turn
<1>2. SUFFICES ASSUME NEW i \in DOMAIN emitted', NEW j \in DOMAIN emitted',
                      emitted'[i].tree = emitted'[j].tree, Alone(emitted'[i].tree)
               PROVE  i = j
  BY <1>1 DEF EmitOnce, Alone
<1>3. CASE emitted' = emitted
  BY <1>2, <1>3 DEF IInv, EmitOnce
<1>4. CASE emitted' # emitted
  <2>1. /\ ~g.emitted
        /\ DOMAIN emitted' = DOMAIN emitted \cup {Len(emitted) + 1}
        /\ \A n \in DOMAIN emitted : emitted'[n] = emitted[n]
        /\ emitted'[Len(emitted) + 1].tree = t
    BY <1>4, TurnEmits
  <2>2. Alone(t) => ~Published(t)
    BY <2>1, StartIsOwn
  <2>3. QED BY <1>2, <2>1, <2>2 DEF Published, IInv, EmitOnce
<1>5. QED BY <1>3, <1>4

\* A scan that begins, or an empty one, keeps a track's tree, place, gate.
LEMMA BetweenScans ==
  ASSUME IInv, pending = {}, UNCHANGED <<emitted, claimed, row>>, sighted \subseteq sighted',
         NEW L \in SUBSET Live,
         track' = [s \in Slot |-> IF s \in L THEN Aged(track[s]) ELSE NoTrack]
  PROVE  WhereTheTreeIs' /\ OneTrack' /\ EmitOnce' /\ claimed' = {}
<1>1. \A s \in Slot : s \in Live' => s \in L /\ track'[s] = Aged(track[s])
  BY DEF Live
<1>2. \A s \in Slot : s \in Live' =>
        /\ s \in Live /\ track'[s].of = track[s].of /\ track'[s].centre = track[s].centre
        /\ track'[s].emitted = track[s].emitted /\ track'[s].confirm = track[s].confirm
  BY <1>1, LiveTracks, AgedType DEF IInv
<1>3. WhereTheTreeIs'
  BY <1>2 DEF IInv, WhereTheTreeIs
<1>4. \A t \in Tree : Alone(t)' => Alone(t)
  BY DEF Alone
<1>5. OneTrack'
  <2>1. \A t \in Tree : Published(t)' <=> Published(t)
    BY DEF Published
  <2>2. SUFFICES ASSUME NEW t \in Tree, Alone(t)', NEW s \in Slot, s \in Live',
                        track'[s].of = t
                 PROVE  /\ \A u \in Slot : u \in Live' /\ track'[u].of = t => u = s
                        /\ Published(t)' => track'[s].emitted
                        /\ track'[s].confirm <= row'[t]
    BY DEF OneTrack
  <2>3. s \in Live /\ track[s].of = t /\ Alone(t)
    BY <1>2, <1>4, <2>2
  <2>4. /\ \A u \in Slot : u \in Live /\ track[u].of = t => u = s
        /\ Published(t) => track[s].emitted
        /\ track[s].confirm <= row[t]
    BY <2>3 DEF IInv, OneTrack
  <2>5. \A u \in Slot : u \in Live' /\ track'[u].of = t => u = s
    BY <1>2, <2>4
  <2>6. track'[s].emitted = track[s].emitted /\ track'[s].confirm = track[s].confirm
    BY <1>2, <2>2
  <2>7. QED BY <2>1, <2>4, <2>5, <2>6
<1>6. EmitOnce'
  <2>1. SUFFICES ASSUME NEW i \in DOMAIN emitted, NEW j \in DOMAIN emitted,
                        emitted[i].tree = emitted[j].tree, Alone(emitted[i].tree)'
                 PROVE  i = j
    BY DEF EmitOnce
  <2>2. emitted[i].tree \in Tree
    <3>1. emitted \in Seq(Target)
      BY DEF IInv, TypeOK
    <3>2. emitted[i] \in Target
      BY <3>1
    <3>3. QED BY <3>2 DEF Target
  <2>3. QED BY <1>4, <2>1, <2>2 DEF IInv, EmitOnce
<1>7. QED BY <1>3, <1>5, <1>6 DEF IInv, ClaimsHandled

LEMMA InvStep == ASSUME IInv, [Next]_vars PROVE IInv'
<1>1. TypeOK'
  BY TypeStep DEF IInv
<1>2. CASE Scan
  <2>1. PICK S \in SUBSET forest, hasPose \in BOOLEAN : BeginScan(S, hasPose)
    BY <1>2 DEF Scan
  <2> DEFINE L == {s \in Live : Aged(track[s]).age <= TrackTimeout}
  <2>2. /\ track' = [s \in Slot |-> IF s \in L THEN Aged(track[s]) ELSE NoTrack]
        /\ L \in SUBSET Live
    BY <2>1 DEF BeginScan
  <2> HIDE DEF L
  <2>3. WhereTheTreeIs' /\ OneTrack' /\ EmitOnce' /\ claimed' = {}
    BY <2>1, <2>2, BetweenScans DEF BeginScan
  <2>4. QED BY <1>1, <2>3 DEF IInv, ClaimsHandled
<1>3. CASE SkipScan
  <2>1. WhereTheTreeIs' /\ OneTrack' /\ EmitOnce' /\ claimed' = {}
    BY <1>3, BetweenScans DEF SkipScan
  <2>2. QED BY <1>1, <2>1 DEF IInv, ClaimsHandled
<1>4. CASE HandleDetection
  <2>1. PICK t \in pending : \E c \in Estimates[t], k \in Sector : Observe(t, c, k)
    BY <1>4 DEF HandleDetection
  <2>2. PICK c \in Estimates[t], k \in Sector : Observe(t, c, k)
    BY <2>1
  <2>3. PICK s \in Slot, g \in Track, after \in Track :
          Start(t, c, s, g) /\ Turn(t, c, s, g, after)
    BY <2>2, ObserveIsTurn DEF IInv
  <2>4. QED BY <1>1, <2>3, TurnKeepsPlaces, TurnKeepsClaims, TurnKeepsOneTrack, TurnKeepsOnce
            DEF IInv
<1>5. CASE UNCHANGED vars
  BY <1>5 DEF vars, IInv, TypeOK, WhereTheTreeIs, ClaimsHandled, OneTrack, EmitOnce, Alone,
              Published, Live
<1>6. QED BY <1>2, <1>3, <1>4, <1>5 DEF Next

LEMMA InvInit == Init => IInv
BY TypeInit DEF Init, IInv, WhereTheTreeIs, ClaimsHandled, OneTrack, EmitOnce, Live

LEMMA InvHolds == Spec => []IInv
BY InvInit, InvStep, PTL DEF Spec

\* A tree with no other within the match radius is published once, however
\* its track is lost and found and however its estimate drifts (emittedNear).
THEOREM AlwaysEmitOnce == Spec => []EmitOnce
<1>1. IInv => EmitOnce
  BY DEF IInv
<1>2. QED BY <1>1, InvHolds, PTL

----------------------------------------------------------------------------
\* The readings behind a target.

LEMMA ConfirmedStep ==
  ASSUME IInv, [Next]_vars, NEW t \in Tree, Alone(t)',
         Len(emitted') > Len(emitted), emitted'[Len(emitted')].tree = t
  PROVE  row'[t] = ConfirmTicks
<1>1. emitted' # emitted
  <2>1. Len(emitted) \in Nat
    BY DEF IInv, TypeOK
  <2>2. QED BY <2>1
<1>2. HandleDetection
  BY <1>1 DEF Next, Scan, BeginScan, SkipScan, vars
<1>3. PICK u \in pending : \E c \in Estimates[u], k \in Sector : Observe(u, c, k)
  BY <1>2 DEF HandleDetection
<1>4. PICK c \in Estimates[u], k \in Sector : Observe(u, c, k)
  BY <1>3
<1>5. PICK s \in Slot, g \in Track, after \in Track :
        Start(u, c, s, g) /\ Turn(u, c, s, g, after)
  BY <1>4, ObserveIsTurn DEF IInv
<1>6. /\ after.emitted /\ ~g.emitted /\ u = t
  BY <1>1, <1>5, TurnEmits DEF Turn
<1>7. /\ row'[t] = UpTo(ConfirmTicks, row[t])
      /\ UpTo(ConfirmTicks, g.confirm) >= ConfirmTicks
      /\ sighted' = sighted
  BY <1>5, <1>6 DEF Turn
<1>8. g.confirm <= row[t]
  <2>1. Alone(t)
    BY <1>7 DEF Alone
  <2>2. QED BY <1>5, <1>6, <2>1, StartIsOwn
<1>9. row[t] \in 0 .. ConfirmTicks /\ g.confirm \in 0 .. ConfirmTicks
  BY DEF IInv, TypeOK, Track
<1>10. /\ UpTo(ConfirmTicks, g.confirm) <= UpTo(ConfirmTicks, row[t])
       /\ UpTo(ConfirmTicks, row[t]) \in 0 .. ConfirmTicks
       /\ UpTo(ConfirmTicks, g.confirm) \in 0 .. ConfirmTicks
  BY <1>8, <1>9, UpToMonotone, UpToBound
<1>11. QED BY <1>7, <1>10

\* A lone tree is published only on confirm_ticks consecutive under-informed
\* readings (stepEmitGate), its lost tracks included.
THEOREM AlwaysConfirmedInARow == Spec => ConfirmedInARow
<1>1. IInv /\ [Next]_vars =>
        [\A t \in Tree :
           /\ Alone(t)'
           /\ Len(emitted') > Len(emitted) /\ emitted'[Len(emitted')].tree = t
           => row'[t] = ConfirmTicks]_vars
  BY ConfirmedStep
<1>2. QED BY <1>1, InvHolds, PTL DEF Spec, ConfirmedInARow

----------------------------------------------------------------------------
\* The tracks matched in the running scan, or in the last one.
Fresh == {s \in Live : track[s].age = 0}

\* Each detection handled so far has a track of its own: until the scan ends
\* these are the claimed ones.
OwnTracks ==
  /\ IsFiniteSet(scene \ pending) /\ IsFiniteSet(Fresh)
  /\ Cardinality(Fresh) = Cardinality(scene \ pending)
  /\ pending # {} => Fresh = claimed
  /\ pending = {} => claimed = {}

LEMMA AgedIsOld ==
  ASSUME NEW g \in Track
  PROVE  Aged(g).age \in 1 .. TrackTimeout + 1
<1>1. g.age \in 0 .. TrackTimeout + 1
  BY DEF Track
<1>2. UpTo(TrackTimeout + 1, g.age) \in 1 .. TrackTimeout + 1
  BY <1>1 DEF UpTo
<1> QED BY <1>2 DEF Aged, Track

\* Between scans every track gets older, so none is fresh any more.
LEMMA BetweenScansOwn ==
  ASSUME TypeOK, OwnTracks, pending = {},
         \A s \in Slot : track'[s] \in {NoTrack, Aged(track[s])},
         \A s \in Slot : track'[s] # NoTrack => s \in Live,
         pending' = scene', UNCHANGED claimed
  PROVE  OwnTracks'
<1>1. Fresh' = {}
  <2> SUFFICES ASSUME NEW s \in Slot, track'[s] # NoTrack, track'[s].age = 0
               PROVE  FALSE
    BY DEF Fresh, Live
  <2>1. s \in Live /\ track'[s] = Aged(track[s])
    OBVIOUS
  <2>2. Aged(track[s]).age \in 1 .. TrackTimeout + 1
    BY <2>1, LiveTracks, AgedIsOld
  <2> QED BY <2>1, <2>2
<1>2. scene' \ pending' = {}
  OBVIOUS
<1>3. claimed' = {}
  BY DEF OwnTracks
<1> QED BY <1>1, <1>2, <1>3, FS_EmptySet DEF OwnTracks

\* A turn of the loop takes one more track, which nothing took before.
LEMMA TurnOwn ==
  ASSUME TypeOK, OwnTracks, NEW t \in pending, NEW c \in Estimates[t],
         NEW s \in Slot, NEW g \in Track, NEW after \in Track,
         Start(t, c, s, g), Turn(t, c, s, g, after)
  PROVE  OwnTracks'
<1>1. s \notin Fresh /\ Fresh = claimed
  BY DEF OwnTracks, Start, Fresh
<1>2. /\ track'[s] = after /\ after # NoTrack /\ after.age = 0
      /\ \A u \in Slot : u # s => track'[u] = track[u]
  BY DEF Turn, TypeOK
<1>3. Fresh' = Fresh \cup {s}
  BY <1>2 DEF Fresh, Live
<1>4. /\ IsFiniteSet(Fresh')
      /\ Cardinality(Fresh') = Cardinality(Fresh) + 1
  BY <1>1, <1>3, FS_AddElement DEF OwnTracks
<1> DEFINE handled == scene \ pending
<1>5. scene' \ pending' = handled \cup {t} /\ t \notin handled
  BY DEF Turn, TypeOK
<1>6. /\ IsFiniteSet(scene' \ pending')
      /\ Cardinality(scene' \ pending') = Cardinality(scene \ pending) + 1
  <2>1. IsFiniteSet(handled)
    BY DEF OwnTracks
  <2> HIDE DEF handled
  <2>2. /\ IsFiniteSet(handled \cup {t})
        /\ Cardinality(handled \cup {t}) = Cardinality(handled) + 1
    BY <1>5, <2>1, FS_AddElement
  <2> QED BY <1>5, <2>2 DEF handled
<1>7. claimed' = IF pending' = {} THEN {} ELSE claimed \cup {s}
  BY DEF Turn
<1> QED BY <1>1, <1>3, <1>4, <1>6, <1>7 DEF OwnTracks

LEMMA OwnStep == ASSUME TypeOK, OwnTracks, [Next]_vars PROVE OwnTracks'
<1>1. CASE Scan
  <2>1. PICK S \in SUBSET forest, hasPose \in BOOLEAN : BeginScan(S, hasPose)
    BY <1>1 DEF Scan
  <2>2. /\ \A s \in Slot : track'[s] \in {NoTrack, Aged(track[s])}
        /\ \A s \in Slot : track'[s] # NoTrack => s \in Live
    BY <2>1 DEF BeginScan
  <2> QED BY <2>1, <2>2, BetweenScansOwn DEF BeginScan
<1>2. CASE SkipScan
  <2>1. /\ \A s \in Slot : track'[s] \in {NoTrack, Aged(track[s])}
        /\ \A s \in Slot : track'[s] # NoTrack => s \in Live
    BY <1>2 DEF SkipScan
  <2> QED BY <1>2, <2>1, BetweenScansOwn DEF SkipScan
<1>3. CASE HandleDetection
  <2>1. PICK t \in pending : \E c \in Estimates[t], k \in Sector : Observe(t, c, k)
    BY <1>3 DEF HandleDetection
  <2>2. PICK c \in Estimates[t], k \in Sector : Observe(t, c, k)
    BY <2>1
  <2> QED BY <2>2, ObserveIsTurn, TurnOwn
<1>4. CASE UNCHANGED vars
  BY <1>4 DEF vars, OwnTracks, Fresh, Live
<1> QED BY <1>1, <1>2, <1>3, <1>4 DEF Next

LEMMA OwnInit == Init => OwnTracks
<1> SUFFICES ASSUME Init PROVE OwnTracks
  OBVIOUS
<1>1. Fresh = {} /\ scene \ pending = {}
  BY DEF Init, Fresh, Live
<1> QED BY <1>1, FS_EmptySet DEF Init, OwnTracks

\* After every scan as many tracks are fresh as trees were found, whatever
\* stands within one match radius and in whatever order it was listed.
THEOREM EachHasItsOwnTrack == Spec => []EachItsOwnTrack
<1>1. OwnTracks => EachItsOwnTrack
  BY DEF OwnTracks, EachItsOwnTrack, Fresh
<1>2. TypeOK /\ OwnTracks /\ [Next]_vars => OwnTracks'
  BY OwnStep
<1> QED BY <1>1, <1>2, OwnInit, TypeCorrect, PTL DEF Spec
=============================================================================
