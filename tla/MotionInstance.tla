--------------------------- MODULE MotionInstance ---------------------------
(***************************************************************************)
(* One native motion instance (rvResource) and the configuration it is fed *)
(* with.                                                                   *)
(*                                                                         *)
(* A context keeps its configuration as long as its instance lives; a      *)
(* frame with the action "open" replaces both.  Every feed parses the      *)
(* configuration again, turns its zones into a map by zone id, removes     *)
(* nested zones and goes over the rest in the order of their ids.  The     *)
(* background model of a zone is found by its place in that order.  The    *)
(* models of all zones are built from the first frame; the flag that says  *)
(* so, isModelUpdate, is reset behind the loop.                            *)
(*                                                                         *)
(* Rectangles are in percent of the image.  What the image processing      *)
(* finds in a zone is an area from a small set.                            *)
(***************************************************************************)
EXTENDS Integers, Sequences, FiniteSets

CONSTANTS
    Configs,          \* sequences of zones [id, pos]; pos may be NULL
    Areas,            \* area of the boxes found in a zone; 0: none found
    INNER_SENSITIVITY,
    NULL

Rects == [x : Nat, y : Nat, width : Nat, height : Nat]

ASSUME ConfigsType == \A c \in Configs : c \in Seq([id : Int, pos : Rects \cup {NULL}])
ASSUME AreasAreNat == Areas \subseteq Nat /\ INNER_SENSITIVITY \in Nat
ASSUME NullIsNoRect == NULL \notin Rects

VARIABLES
    config,         \* of the context
    isModelUpdate,
    model,          \* ROI each vibe model was built for, or NULL
    bg_frame,       \* ROI of each background image, or NULL
    motion_zones,   \* of the present frame: a map from ids to rectangles
    todo,           \* zones the loop has not reached; NULL: no frame is worked on
    bg_update,
    detect_results, \* zones with boxes in the present frame, and their area
    report          \* zones named in the result of the last feed

frameVars == <<motion_zones, todo, bg_update, detect_results>>
modelVars == <<isModelUpdate, model, bg_frame>>
vars == <<config, modelVars, frameVars, report>>

-----------------------------------------------------------------------------
(* Parsing: CopyAlgorithmParams.                                           *)

Zero == [x |-> 0, y |-> 0, width |-> 0, height |-> 0]

\* More than three zones are an error: the frame is ignored.  (So it is for text
\* that is no JSON and for a missing sensitivity or list.)
Parses(c) == Len(c) <= 3

\* A zone without a position (fastjson leaves null fields out) ends the loop
\* without an error: its rectangle and all that comes later stay zero.
Params(c) == [i \in DOMAIN c |->
    IF \E j \in 1 .. i - 1 : c[j].pos = NULL THEN [id |-> 0, pos |-> Zero]
    ELSE IF c[i].pos = NULL THEN [id |-> c[i].id, pos |-> Zero]
    ELSE c[i]]

\* The map: of two zones with the same id the later one stays.
ZoneMap(p) == [z \in {p[i].id : i \in DOMAIN p} |->
    LET last == CHOOSE i \in DOMAIN p :
                    p[i].id = z /\ \A j \in DOMAIN p : p[j].id = z => j <= i
    IN p[last].pos]

-----------------------------------------------------------------------------
(* Removal of nested zones.                                                *)

\* r lies inside q, away from all its sides but the left one.
InsideFrom(q, r) ==
    /\ q.y < r.y
    /\ q.x + q.width > r.x + r.width
    /\ q.y + q.height > r.y + r.height

Inside(q, r) == q.x < r.x /\ InsideFrom(q, r)

Without(zones, ids) == [z \in DOMAIN zones \ ids |-> zones[z]]

\* Two zones: the one around the other is erased.
Unnest2(p, zones) ==
    Without(zones, {p[i].id : i \in {j \in 1 .. 2 :
                        Inside(zones[p[j].id], zones[p[3 - j].id])}})

\* The three zones by x, ties in the order of the comparisons.
ByX(p, zones) ==
    LET x(i) == zones[p[i].id].x
        order == CASE x(1) <= x(2) /\ x(1) <= x(3) /\ x(2) <= x(3) -> <<1, 2, 3>>
                   [] x(1) <= x(2) /\ x(1) <= x(3) /\ x(2) > x(3) -> <<1, 3, 2>>
                   [] x(1) <= x(2) /\ x(1) > x(3) -> <<3, 1, 2>>
                   [] x(1) > x(2) /\ x(2) <= x(3) /\ x(1) <= x(3) -> <<2, 1, 3>>
                   [] x(1) > x(2) /\ x(2) <= x(3) /\ x(1) > x(3) -> <<2, 3, 1>>
                   [] x(1) > x(2) /\ x(2) > x(3) -> <<3, 2, 1>>
    IN [k \in 1 .. 3 |-> p[order[k]].id]

\* Three zones: those inside the first, or else the last inside the second, are
\* erased.  When second and last are one zone, looking at the last one puts the
\* erased id back, with a zero rectangle.
Unnest3(p, zones) ==
    LET o == ByX(p, zones)
        inFirst == {o[k] : k \in {m \in 2 .. 3 : InsideFrom(zones[o[1]], zones[o[m]])}}
    IN CASE inFirst # {} /\ o[2] = o[3] -> [zones EXCEPT ![o[2]] = Zero]
         [] inFirst # {} /\ o[2] # o[3] -> Without(zones, inFirst)
         [] inFirst = {} /\ InsideFrom(zones[o[2]], zones[o[3]]) -> Without(zones, {o[3]})
         [] OTHER -> zones

\* motion_zones as the loop finds it.
Unnested(p) ==
    CASE Len(p) = 2 -> Unnest2(p, ZoneMap(p))
      [] Len(p) = 3 -> Unnest3(p, ZoneMap(p))
      [] OTHER -> ZoneMap(p)

Zones(c) == Unnested(Params(c))

ASSUME NullIsNoWork == \A c \in Configs : \A S \in SUBSET DOMAIN Zones(c) : NULL # S

-----------------------------------------------------------------------------
(* Regions of interest.                                                    *)

Whole == [x |-> 0, y |-> 0, width |-> 100, height |-> 100]

Clipped(r) == [r EXCEPT
    !.width = IF r.x + @ > 100 THEN 100 - r.x ELSE @,
    !.height = IF r.y + @ > 100 THEN 100 - r.y ELSE @]

\* What is cut out of the image: OpenCV refuses a rectangle beyond the image,
\* and the whole image is taken instead.
Roi(r) == IF Clipped(r).width < 0 \/ Clipped(r).height < 0 THEN Whole ELSE Clipped(r)

\* Mutant: a zone at the left edge is taken for one without an area.
IsWatchable_NotAtEdge(r) ==
    r.x > 0 /\ r.width > 0 /\ r.height > 0 /\ Roi(r).width > 0 /\ Roi(r).height > 0

\* The loop passes over a zone without an area, and getForegroundMask over an
\* empty image.
IsWatchable(r) == r.width > 0 /\ r.height > 0 /\ Roi(r).width > 0 /\ Roi(r).height > 0

\* distance(motion_zones.begin(), it): unwatchable zones count, too.
Place(zones, z) == Cardinality({y \in DOMAIN zones : y < z})

-----------------------------------------------------------------------------
TypeOK ==
    /\ config \in Configs
    /\ isModelUpdate \in BOOLEAN
    /\ DOMAIN model = 0 .. 2 /\ DOMAIN bg_frame = 0 .. 2
    /\ todo = NULL \/ todo \subseteq DOMAIN motion_zones
    /\ bg_update \in BOOLEAN
    /\ \A z \in DOMAIN detect_results : detect_results[z] \in Nat

\* A context gets its configuration and a new native instance.
NewInstance(c) ==
    /\ config' = c
    /\ isModelUpdate' = TRUE
    /\ model' = [k \in 0 .. 2 |-> NULL]
    /\ bg_frame' = [k \in 0 .. 2 |-> NULL]
    /\ motion_zones' = <<>>
    /\ todo' = NULL
    /\ bg_update' = FALSE
    /\ detect_results' = <<>>
    /\ report' = {}

Init ==
    /\ config \in Configs
    /\ isModelUpdate = TRUE
    /\ model = [k \in 0 .. 2 |-> NULL]
    /\ bg_frame = [k \in 0 .. 2 |-> NULL]
    /\ motion_zones = <<>>
    /\ todo = NULL
    /\ bg_update = FALSE
    /\ detect_results = <<>>
    /\ report = {}

\* Mutant: the context gets the new configuration but keeps its instance.
Reopen_KeepsInstance(c) ==
    /\ todo = NULL
    /\ config' = c
    /\ UNCHANGED <<modelVars, frameVars, report>>

\* findOrCreate of a frame with the action "open", between two feeds.
Reopen(c) == todo = NULL /\ NewInstance(c)

-----------------------------------------------------------------------------
(* feed2: DispatchAlgorithm and mMotionAction.                             *)

\* The frame is ignored and the result empty.
FeedRejected ==
    /\ todo = NULL
    /\ ~Parses(config)
    /\ report' = {}
    /\ UNCHANGED <<config, modelVars, frameVars>>

FeedBegins ==
    /\ todo = NULL
    /\ Parses(config)
    /\ config # <<>>
    /\ motion_zones' = Zones(config)
    /\ todo' = DOMAIN motion_zones'
    /\ bg_update' = FALSE
    /\ detect_results' = <<>>
    /\ UNCHANGED <<config, modelVars, report>>

IsNext(z) == todo # NULL /\ z \in todo /\ \A y \in todo : z <= y

SkipZone(z) ==
    /\ IsNext(z)
    /\ ~IsWatchable(motion_zones[z])
    /\ todo' = todo \ {z}
    /\ UNCHANGED <<config, modelVars, motion_zones, bg_update, detect_results, report>>

BuildModel(z) ==
    LET k == Place(motion_zones, z)
        roi == Roi(motion_zones[z]) IN
    /\ IsNext(z)
    /\ IsWatchable(motion_zones[z])
    /\ isModelUpdate
    /\ model' = [model EXCEPT ![k] = roi]
    /\ bg_frame' = [bg_frame EXCEPT ![k] = roi]
    /\ bg_update' = TRUE
    /\ todo' = todo \ {z}
    /\ UNCHANGED <<config, isModelUpdate, motion_zones, detect_results, report>>

\* getForegroundMask and getValidContours find boxes of some area in the zone.
\* A zone whose model is missing is passed over.
AnalyseZone(z, area) ==
    LET k == Place(motion_zones, z)
        roi == Roi(motion_zones[z]) IN
    /\ IsNext(z)
    /\ IsWatchable(motion_zones[z])
    /\ ~isModelUpdate
    /\ IF model[k] = NULL
       THEN UNCHANGED <<bg_frame, detect_results>>
       ELSE /\ bg_frame' = [bg_frame EXCEPT ![k] = roi]
            /\ detect_results' =
                IF area = 0 THEN detect_results
                ELSE [y \in DOMAIN detect_results \cup {z} |->
                        IF y = z THEN area ELSE detect_results[y]]
    /\ todo' = todo \ {z}
    /\ UNCHANGED <<config, isModelUpdate, model, motion_zones, bg_update, report>>

\* At most three zones can have boxes.
TotalArea(found) ==
    LET of(k) == IF \E z \in DOMAIN found : Place(found, z) = k
                 THEN found[CHOOSE z \in DOMAIN found : Place(found, z) = k] ELSE 0
    IN of(0) + of(1) + of(2)

\* reportMotionEvent: boxes too small in all are no motion.
Reported(found) == IF TotalArea(found) < INNER_SENSITIVITY THEN {} ELSE DOMAIN found

\* Mutant: the flag is not reset.
FeedEnds_KeepsFlag ==
    /\ todo = {}
    /\ todo' = NULL
    /\ report' = Reported(detect_results)
    /\ UNCHANGED <<config, isModelUpdate, model, bg_frame, motion_zones, bg_update, detect_results>>

FeedEnds ==
    /\ todo = {}
    /\ isModelUpdate' = (isModelUpdate /\ ~bg_update)
    /\ report' = Reported(detect_results)
    /\ todo' = NULL
    /\ UNCHANGED <<config, model, bg_frame, motion_zones, bg_update, detect_results>>

\* Without zones the whole image is watched, and motion is reported for -1.
FeedWithoutZones(area) ==
    /\ todo = NULL
    /\ config = <<>>
    /\ IF isModelUpdate
       THEN /\ model' = [model EXCEPT ![0] = Whole]
            /\ isModelUpdate' = FALSE
            /\ report' = {}
       ELSE /\ report' = IF area > 0 /\ area >= INNER_SENSITIVITY THEN {-1} ELSE {}
            /\ UNCHANGED <<model, isModelUpdate>>
    /\ bg_frame' = [bg_frame EXCEPT ![0] = Whole]
    /\ UNCHANGED <<config, frameVars>>

-----------------------------------------------------------------------------
Next ==
    \/ \E c \in Configs : Reopen(c)
    \/ FeedRejected
    \/ FeedBegins
    \/ \E z \in DOMAIN motion_zones :
        \/ SkipZone(z)
        \/ BuildModel(z)
        \/ \E area \in Areas : AnalyseZone(z, area)
    \/ FeedEnds
    \/ \E area \in Areas : FeedWithoutZones(area)

Spec == Init /\ [][Next]_vars

-----------------------------------------------------------------------------
(* Properties.                                                             *)

Watched(c) == {z \in DOMAIN Zones(c) : IsWatchable(Zones(c)[z])}

\* The loop goes over the zones of the configuration.
FrameInPlace ==
    todo # NULL =>
        /\ Parses(config) /\ config # <<>>
        /\ motion_zones = Zones(config)
        /\ todo \subseteq DOMAIN motion_zones

IsBuilt(z) == ~isModelUpdate \/ (todo # NULL /\ z \notin todo)

\* A zone has its model and its background once the loop came by, and neither
\* before that.
ModelsInPlace ==
    Parses(config) => \A z \in Watched(config) :
        LET k == Place(Zones(config), z)
            roi == Roi(Zones(config)[z]) IN
        /\ model[k] = IF IsBuilt(z) THEN roi ELSE NULL
        /\ bg_frame[k] = model[k]

\* bg_update remembers that a model was built.
BuildsAreFlagged ==
    todo # NULL /\ isModelUpdate /\ ~(Watched(config) \subseteq todo) => bg_update

\* The flags are moved by models only: without a zone to watch both stay.
FlagsNeedModels ==
    /\ todo # NULL /\ bg_update => Watched(config) # {}
    /\ ~isModelUpdate => config = <<>> \/ Watched(config) # {}

\* The inductive invariant.
MotionInv ==
    TypeOK /\ FrameInPlace /\ ModelsInPlace /\ BuildsAreFlagged /\ FlagsNeedModels

\* The model and the background a zone is analysed with were built for its own
\* region, though they are found by position in a map that is made anew for
\* every frame; and after the frame that built them no zone is without.
ModelsFitZones ==
    Parses(config) => \A z \in Watched(config) :
        LET k == Place(Zones(config), z)
            roi == Roi(Zones(config)[z]) IN
        /\ model[k] \in {NULL, roi} /\ bg_frame[k] = model[k]
        /\ ~isModelUpdate => model[k] = roi

\* A model is never built where there is one: the old one would be lost, and
\* the zone would start to learn its background again.
ModelsBuiltOnce ==
    todo # NULL /\ isModelUpdate =>
        \A z \in todo : IsWatchable(motion_zones[z]) =>
            model[Place(motion_zones, z)] = NULL

\* Once the models are built, every configured zone has one, unless it shares
\* its id with a later zone, has no area, follows a zone without a position,
\* lies around the only other zone, or lies inside one of two others.  And of
\* two zones that have models none lies inside the other.
ZonesUnwatchedForAReason ==
    LET c == config
        n == Len(c)
        others(i) == {j \in (1 .. n) \ {i} : c[j].pos # NULL}
    IN
    Parses(c) /\ ~isModelUpdate =>
        /\ \A i \in 1 .. n :
            \/ c[i].id \in Watched(c) /\ Zones(c)[c[i].id] = c[i].pos
               /\ model[Place(Zones(c), c[i].id)] = Roi(c[i].pos)
            \/ \E j \in i + 1 .. n : c[j].id = c[i].id
            \/ \E j \in 1 .. i : c[j].pos = NULL
            \/ c[i].pos.width = 0 \/ c[i].pos.height = 0
            \/ c[i].pos.x = 100 \/ c[i].pos.y = 100
            \/ n = 2 /\ \E j \in others(i) : Inside(c[i].pos, c[j].pos)
            \/ n = 3 /\ \E j \in others(i) : InsideFrom(c[j].pos, c[i].pos)
        /\ \A y, z \in Watched(c) : ~Inside(Zones(c)[y], Zones(c)[z])
=============================================================================
