-------------------------- MODULE MCMotionInstance --------------------------
(* Instances of MotionInstance for TLC: no zone, one or two zones of any   *)
(* kind, ids repeated or not, and three or four zones of some kinds.       *)
EXTENDS MotionInstance, TLC

Rect(a, b, c, d) == [x |-> a, y |-> b, width |-> c, height |-> d]

MCRects == {Rect(10, 10, 80, 80),   \* around the next one
            Rect(20, 20, 30, 30),
            Rect(0, 60, 70, 20),    \* crosses the first one
            Rect(90, 90, 50, 50),   \* beyond the image, to be clipped
            Rect(120, 0, 10, 10),   \* outside the image
            Rect(100, 0, 10, 10),
            Rect(0, 0, 0, 0)}
MCPos == MCRects \cup {NULL}
MCZones(ids) == [id : ids, pos : MCPos]

MCConfigs ==
    {<<>>}
    \cup {<<a>> : a \in MCZones({7})}
    \cup {<<a, b>> : a \in MCZones({7}), b \in MCZones({5, 7})}
    \cup {<<[id |-> 5, pos |-> Rect(10, 10, 80, 80)], a, b>> :
            a \in MCZones({5, 3}), b \in MCZones({7, 3})}
    \cup {<<[id |-> 0, pos |-> Rect(20, 20, 30, 30)], a, [id |-> 7, pos |-> Rect(0, 60, 70, 20)]>> :
            a \in MCZones({3})}
    \cup {[i \in 1 .. 4 |-> [id |-> i, pos |-> Rect(20, 20, 30, 30)]]}
=============================================================================
