----------------------------- MODULE TerrainMap -----------------------------
(***************************************************************************)
(* The voxel map a planner works on in terrain mode (map_cache.cpp and     *)
(* loadLatestMap of explo_planner_node.cpp).  The fused map arrives as a   *)
(* whole; the planner keeps the voxels of a band of heights around its     *)
(* robot and moves the band only after the robot has climbed further than  *)
(* a hysteresis.  Everything that needs the height of the ground (the      *)
(* candidates of PLAN, the vantages of EXPLOIT_PLAN, the sightline of a    *)
(* dwell) searches that copy.                                              *)
(*                                                                         *)
(* Heights are integers in any unit.  A voxel is a column and an index; a  *)
(* map message is the set of its occupied and the set of its free voxels,  *)
(* and whether its resolution can be used.                                 *)
(***************************************************************************)
EXTENDS Integers

CONSTANTS
  Column,           \* ground cells (x, y)
  Res,              \* resolution_, the height of a voxel
  Off,              \* where in a voxel the mapper puts its position
  RoiMin, RoiMax,   \* roi_min_z_, roi_max_z_, relative to the robot
  HystMin, HystMax, \* the limits of the hysteresis (0.5 m and 2 m)
  Below, Above,     \* ground_search_below, ground_search_above
  StackMax,         \* ground_stack_max_m in voxels
  Clearance,        \* z_clearance
  Message,          \* map messages
  Relief,           \* altitudes of the robot
  NoMap, NoHeight   \* no message; NaN

Voxel == Column \X Int

ASSUME TerrainAssumption ==
  /\ Res \in Nat \ {0} /\ Off \in 0 .. Res - 1
  /\ RoiMin \in Int /\ RoiMax \in Int /\ RoiMin =< RoiMax
  /\ HystMin \in Nat /\ HystMax \in Nat /\ HystMin =< HystMax
  /\ Below \in Nat /\ Above \in Nat /\ Below + Above > 0
  /\ StackMax \in Nat /\ Clearance \in Nat
  /\ Message \subseteq [usable : BOOLEAN, solid : SUBSET Voxel, free : SUBSET Voxel]
  /\ Relief \subseteq Int
  /\ NoMap \notin Message /\ NoHeight \notin Int

VARIABLES
  latest,   \* latest_scovox_map_
  fresh,    \* it is not ingested_scovox_map_
  ref,      \* ingest_ref_z_
  eff,      \* eff_roi_min_z_, eff_roi_max_z_
  aim,      \* the band of the candidate generator and of the FOV evaluator
  cache,    \* map_cache_: occupied and free voxels
  have,     \* have_map_
  alt,      \* latest_pos_.z(), 0 before the first pose
  source,   \* history: the message the cache was built from
  cut,      \* history: the band it was clipped to
  asked     \* history: the height the last step asked for

terrainVars ==
  << latest, fresh, ref, eff, aim, cache, have, alt, source, cut, asked >>

\* The hysteresis: a quarter of the half-width of the band, within its limits.
Clamp(v, low, high) == IF v < low THEN low ELSE IF v > high THEN high ELSE v
Hysteresis == Clamp((RoiMax - RoiMin) \div 8, HystMin, HystMax)

Band(z) == [lo |-> z + RoiMin, hi |-> z + RoiMax]
Distance(y, z) == IF y < z THEN z - y ELSE y - z

----------------------------------------------------------------------------
(* The voxel cache (MapCache). *)

CellOf(z)   == z \div Res
Corner(k)   == k * Res
Position(k) == Corner(k) + Off

\* updateFromScovoxMap: voxels are clipped by their positions.
Inside(voxels, band) ==
  {v \in voxels : band.lo =< Position(v[2]) /\ Position(v[2]) =< band.hi}
Clip(m, band) == [solid |-> Inside(m.solid, band), free |-> Inside(m.free, band)]

\* The occupied voxels a search of a column can meet: those of its window, and
\* the stack on top of one.
Met(solid, c, lo, hi) ==
  {k \in CellOf(lo) .. CellOf(hi) + StackMax : << c, k >> \in solid}

\* groundZAt: the lowest occupied voxel of the window anchors the ground, whose
\* height is the top face of the stack on it, no more than StackMax higher.
GroundZ(solid, c, lo, hi) ==
  LET met   == Met(solid, c, lo, hi)
      hits  == {k \in met : k =< CellOf(hi)}
      base  == CHOOSE k \in hits : \A j \in hits : k =< j
      stack == {k \in base .. base + StackMax : base .. k \subseteq met}
  IN  IF hits = {} THEN NoHeight
      ELSE ((CHOOSE k \in stack : \A j \in stack : j =< k) + 1) * Res

\* The window around a height that a ground search covers.
GroundNear(solid, c, z) == GroundZ(solid, c, z - Below, z + Above)

----------------------------------------------------------------------------
(* Ingesting the map (loadLatestMap). *)

\* What the planner holds of the map.
Held == [fresh |-> fresh, ref |-> ref, eff |-> eff, cache |-> cache,
         source |-> source, cut |-> cut]

\* The robot has left the hysteresis around the middle of the band.
Reband == IF ref = NoHeight THEN TRUE ELSE Distance(alt, ref) > Hysteresis

\* Slip: nothing is rebuilt while the message is the same.
RebuildWhenFresh == latest # NoMap /\ fresh /\ latest.usable

\* The copy is rebuilt from a new message, or from the old one when the robot
\* has left the hysteresis; a message that cannot be used changes nothing.
Rebuild == latest # NoMap /\ (fresh \/ Reband) /\ latest.usable

Loaded ==
  LET centre == IF Reband THEN alt ELSE ref
      band   == Band(centre)
  IN  IF ~ Rebuild THEN Held
      ELSE [fresh |-> FALSE, ref |-> centre, eff |-> band,
            cache |-> Clip(latest, band), source |-> latest, cut |-> band]

LoadLatestMap ==
  /\ fresh' = Loaded.fresh /\ ref' = Loaded.ref /\ eff' = Loaded.eff
  /\ cache' = Loaded.cache /\ source' = Loaded.source /\ cut' = Loaded.cut

\* voxelCount() > 0
HasVoxels == cache'.solid # {} \/ cache'.free # {}

\* A height asked for: by whom, in which column and near which height; the
\* message and the band that were searched, what was found, the height it led
\* to, the band that is looked through from there; and whether the map of the
\* tick was rejected.
Asked(who, c, z, map, searched, walked, found, height, rejected) ==
  [who |-> who, column |-> c, near |-> z, map |-> map, searched |-> searched,
   walked |-> walked, found |-> found, height |-> height, rejected |-> rejected]

Silence ==
  Asked("nobody", NoMap, 0, NoMap, Band(0), Band(0), NoHeight, NoHeight, FALSE)

----------------------------------------------------------------------------
TerrainInit ==
  /\ latest = NoMap /\ fresh = FALSE /\ ref = NoHeight
  /\ eff = Band(0) /\ aim = Band(0)
  /\ cache = [solid |-> {}, free |-> {}] /\ have = FALSE
  /\ alt = 0
  /\ source = NoMap /\ cut = Band(0)
  /\ asked = Silence

\* The callback keeps the last message only.
OnScovoxMap ==
  /\ latest' \in Message
  /\ fresh' = TRUE
  /\ asked' = Silence
  /\ UNCHANGED << ref, eff, aim, cache, have, alt, source, cut >>

Climb ==
  /\ alt' \in Relief \ {alt}
  /\ asked' = Silence
  /\ UNCHANGED << latest, fresh, ref, eff, aim, cache, have, source, cut >>

WaitForMap ==
  /\ ~ have
  /\ LoadLatestMap
  /\ have' = HasVoxels
  /\ asked' = Silence
  /\ UNCHANGED << latest, aim, alt >>

\* Slip: the candidates are held in the band of the start.
AimKept == aim' = aim

\* setRoiZ: candidates and rays get the band of the cache.
SetRoiZ == aim' = eff'

\* terrainZ: the height of a candidate over the ground near z, or z itself.
Candidate(who, c, z) ==
  LET found == GroundNear(cache'.solid, c, z)
      wish  == IF found = NoHeight THEN z ELSE found + Clearance
  IN  asked' = Asked(who, c, z, source', cut', cut', found,
                     Clamp(wish, aim'.lo, aim'.hi), fresh')

\* findFrontierCentroids: free voxels whose corner lies in the band (which of
\* them border the unknown, and the centroids of several, are not told apart).
Frontiers == {v \in cache'.free : eff'.lo =< Corner(v[2]) /\ Corner(v[2]) =< eff'.hi}

\* A tick of PLAN: it may stop for want of voxels, or because the area is
\* covered.  Else it looks near the robot's height, and near a frontier's.
Plan ==
  /\ have
  /\ LoadLatestMap
  /\ \/ UNCHANGED aim /\ asked' = Silence
     \/ /\ HasVoxels
        /\ SetRoiZ
        /\ \/ asked' = Silence
           \/ \E c \in Column : Candidate("PLAN", c, alt)
           \/ \E v \in Frontiers : Candidate("FRONTIER", v[1], Corner(v[2]))
  /\ UNCHANGED << latest, have, alt >>

\* exploitZAt: the height of a sightline over the ground, or none.
Sightline(found, band) ==
  IF found = NoHeight THEN NoHeight ELSE Clamp(found + Clearance, band.lo, band.hi)

\* A tick of EXPLOIT_PLAN: the vantages are lifted to the ground before the map
\* is loaded, and looked from after.
ExploitPlan ==
  /\ have
  /\ LoadLatestMap
  /\ \/ asked' = Silence
     \/ /\ HasVoxels
        /\ \E c \in Column :
             LET found == GroundNear(cache.solid, c, alt)
             IN  asked' = Asked("EXPLOIT_PLAN", c, alt, source, cut, cut', found,
                                Sightline(found, eff), fresh')
  /\ UNCHANGED << latest, aim, have, alt >>

\* The end of a dwell: the map is loaded first.
DwellEnds ==
  /\ have
  /\ LoadLatestMap
  /\ IF HasVoxels
       THEN \E c \in Column :
              LET found == GroundNear(cache'.solid, c, alt)
              IN  asked' = Asked("EXPLOIT_DWELL", c, alt, source', cut', cut', found,
                                 Sightline(found, eff'), fresh')
       ELSE asked' = Silence
  /\ UNCHANGED << latest, aim, have, alt >>

TerrainNext ==
  OnScovoxMap \/ Climb \/ WaitForMap \/ Plan \/ ExploitPlan \/ DwellEnds

TerrainSpec == TerrainInit /\ [][TerrainNext]_terrainVars

----------------------------------------------------------------------------
TerrainTypeOK ==
  /\ latest \in Message \cup {NoMap} /\ source \in Message \cup {NoMap}
  /\ fresh \in BOOLEAN /\ have \in BOOLEAN
  /\ ref \in Int \cup {NoHeight} /\ alt \in Int
  /\ {eff, aim, cut} \subseteq [lo : Int, hi : Int]
  /\ cache \in [solid : SUBSET Voxel, free : SUBSET Voxel]
  /\ asked.near \in Int /\ asked.rejected \in BOOLEAN
  /\ asked.found \in Int \cup {NoHeight} /\ asked.height \in Int \cup {NoHeight}
  /\ {asked.searched, asked.walked} \subseteq [lo : Int, hi : Int]

\* What the band must hold, with the robot a hysteresis away from its middle:
\* the window of a search with the voxel its floor lies in and the stack on its
\* ceiling, and whoever stands on the highest ground found.
BandCovers ==
  /\ -RoiMin >= Below + Hysteresis + Res
  /\ RoiMax >= Above + Hysteresis + (StackMax + 1) * Res + Clearance

\* The ground that PLAN and a dwell find in their copy of the map is the ground
\* of the whole map, however the robot climbed and whatever was received: the
\* band cuts off neither the ground below nor the stack above (loadLatestMap
\* re-bands before the search).
GroundAsMapped ==
  asked.who \in {"PLAN", "EXPLOIT_DWELL"} /\ ~ asked.rejected =>
    asked.found = GroundNear(asked.map.solid, asked.column, asked.near)

\* Candidates and sightlines stand in the band their rays walk through, in the
\* tick that moves the band and after a map was rejected too; above or below
\* it every ray would pass (terrainZ, exploitZAt, setRoiZ).
SightInsideBand ==
  asked.height # NoHeight =>
    asked.walked.lo =< asked.height /\ asked.height =< asked.walked.hi

\* "Ground search must stay inside the ingested slab from anywhere the robot can
\* sit" before the band is moved.  No run checks this and the code does not keep
\* it: EXPLOIT_PLAN looks for the ground of its vantages before it moves the band
\* (README, section 4).
VantageSearchInsideBand ==
  asked.who = "EXPLOIT_PLAN" /\ ~ asked.rejected =>
    /\ asked.searched.lo =< asked.near - Below
    /\ asked.near + Above =< asked.searched.hi
=============================================================================
