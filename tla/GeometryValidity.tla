-------------------------- MODULE GeometryValidity --------------------------
(***************************************************************************)
(* validate_multi_polygon (algo/geometry_validity.rs): the last check of   *)
(* an assembled watershed. A ring is given by the tiles of its disk, a     *)
(* polygon by its rings, the shell first, and a geometry by its polygons.  *)
(* Whether the interior of a polygon hangs together is decided without     *)
(* looking at the interior: the rings and the points where they touch must *)
(* form a forest.                                                          *)
(***************************************************************************)
EXTENDS Sequences, GridRegion

CONSTANTS
  MultiPolygons, \* the multi-polygons to check
  None

VARIABLES
  geometry,
  stage,    \* the check that comes next
  polygon,  \* the polygon it looks at
  contacts, \* points where rings of the polygon touch, still to be united
  root,     \* union-find: the representative of each ring
  verdict   \* "valid", an error, or None

vars == <<geometry, stage, polygon, contacts, root, verdict>>

Rings == geometry[polygon]

Segments(r) == Boundary(Rings[r].tiles)

NonEmpty == {r \in DOMAIN Rings : Rings[r].tiles # {}}

Init ==
  /\ geometry \in MultiPolygons
  /\ stage = "coordinates" /\ polygon = 1 /\ contacts = {} /\ root = <<>> /\ verdict = None

Fails(error) == verdict' = error /\ stage' = "done" /\ UNCHANGED <<geometry, polygon, contacts, root>>

Then(next) == stage' = next /\ UNCHANGED <<geometry, polygon, contacts, root, verdict>>

NextPolygon ==
  /\ polygon' = polygon + 1
  /\ stage' = IF polygon < Len(geometry) THEN "rings" ELSE "members"
  /\ contacts' = {} /\ root' = <<>>
  /\ UNCHANGED <<geometry, verdict>>

\* Every coordinate of every polygon, before any predicate is used.
CheckCoordinates ==
  /\ stage = "coordinates"
  /\ IF \E p \in DOMAIN geometry : \E r \in DOMAIN geometry[p] : geometry[p][r].form = "nonfinite"
     THEN Fails("NonFinite")
     ELSE Then(IF geometry = <<>> THEN "members" ELSE "rings")

\* An empty polygon and an empty hole are passed over; a nonempty ring, and
\* the shell of a nonempty polygon, must be closed.
CheckRings ==
  /\ stage = "rings"
  /\ IF NonEmpty = {} THEN NextPolygon
     ELSE IF \E r \in NonEmpty \cup {1} : Rings[r].form = "unclosed" \/ Rings[r].tiles = {}
     THEN Fails("DegenerateRing")
     ELSE Then("segments")

\* Mutant: envelopes that only touch are pruned.
EnvelopesMeetInside(a, b) == \A k \in 1 .. 2 : a[1][k] < b[2][k] /\ b[1][k] < a[2][k]

\* locate_in_envelope_intersecting: closed boxes, lower corner first.
EnvelopesMeet(a, b) == \A k \in 1 .. 2 : a[1][k] <= b[2][k] /\ b[1][k] <= a[2][k]

Envelope(S) ==
  LET points == UNION {Ends(e) : e \in Boundary(S)}
      xs == {p[1] : p \in points}  ys == {p[2] : p \in points}
  IN <<<<Min(xs), Min(ys)>>, <<Max(xs), Max(ys)>>>>

\* The smallest upright box around a segment.
SegmentEnvelope(e) ==
  IF e[1][2] <= e[2][2] THEN e ELSE <<<<e[1][1], e[2][2]>>, <<e[2][1], e[1][2]>>>>

\* The pairs of segments of two rings that the tree offers and that meet.
Hits(r, s) ==
  {h \in Segments(r) \X Segments(s) :
     EnvelopesMeet(SegmentEnvelope(h[1]), SegmentEnvelope(h[2])) /\ Ends(h[1]) \cap Ends(h[2]) # {}}

\* A ring that comes to one of its points twice.
SelfTouching(r) ==
  LET edges == Segments(r)
  IN \E p \in UNION {Ends(e) : e \in edges} : Cardinality({e \in edges : p \in Ends(e)}) > 2

\* The edges go straight through p along the direction of e.
Through(edges, p, e) ==
  \E f \in edges : /\ f # e /\ p \in Ends(f) \cap Ends(e)
                   /\ \A k \in 1 .. 2 : f[2][k] - f[1][k] = e[2][k] - e[1][k]

\* Two rings share a segment, or both go straight through a point, so that
\* one segment of each would cross there.
Conflicting(r, s) ==
  \E h \in Hits(r, s) :
    \/ h[1] = h[2]
    \/ \E p \in Ends(h[1]) \cap Ends(h[2]) :
         Through(Segments(r), p, h[1]) /\ Through(Segments(s), p, h[2])

Pairs == {q \in NonEmpty \X NonEmpty : q[1] < q[2]}

\* The segments in order: the first bad pair is reported, whichever it is.
CheckSegments ==
  /\ stage = "segments"
  /\ LET touching == {r \in NonEmpty : SelfTouching(r)}
         conflicts == {q \in Pairs : Conflicting(q[1], q[2])}
     IN \/ touching # {} /\ Fails("RingIntersection")
        \/ conflicts # {} /\ Fails("RingConflict")
        \/ /\ touching = {} /\ conflicts = {}
           /\ contacts' = UNION {UNION {Ends(h[1]) \cap Ends(h[2]) : h \in Hits(q[1], q[2])} : q \in Pairs}
           /\ root' = [r \in DOMAIN Rings |-> r]
           /\ stage' = "holes"
           /\ UNCHANGED <<geometry, polygon, verdict>>

CheckHoles ==
  /\ stage = "holes"
  /\ IF \E r \in NonEmpty \ {1} : ~(Rings[r].tiles \subseteq Rings[1].tiles)
     THEN Fails("HoleOutsideShell")
     ELSE Then("overlap")

CheckOverlap ==
  /\ stage = "overlap"
  /\ IF \E q \in Pairs :
          /\ q[1] > 1 /\ EnvelopesMeet(Envelope(Rings[q[1]].tiles), Envelope(Rings[q[2]].tiles))
          /\ Rings[q[1]].tiles \cap Rings[q[2]].tiles # {}
     THEN Fails("HoleOverlap")
     ELSE Then("forest")

\* The rings that come to a point.
Incident(p) == {r \in NonEmpty : \E e \in Segments(r) : p \in Ends(e)}

\* Mutant: the rings of a contact are joined pair by pair.
ClosesCyclePairwise(I) == Cardinality(I) > 2 \/ \E i, j \in I : i < j /\ root[i] = root[j]

\* Two of the rings are connected already.
ClosesCycle(I) == \E i, j \in I : i < j /\ root[i] = root[j]

\* One contact after the other, in an order that does not matter; its rings
\* are joined once.
UniteContact(p) ==
  /\ stage = "forest" /\ p \in contacts
  /\ IF ClosesCycle(Incident(p)) THEN Fails("DisconnectedInterior")
     ELSE /\ root' = [r \in DOMAIN root |->
                        IF \E i \in Incident(p) : root[r] = root[i] THEN root[Min(Incident(p))] ELSE root[r]]
          /\ contacts' = contacts \ {p}
          /\ UNCHANGED <<geometry, stage, polygon, verdict>>

ForestDone == stage = "forest" /\ contacts = {} /\ NextPolygon

Region(p) == p[1].tiles \ UNION {p[r].tiles : r \in 2 .. Len(p)}

\* Polygons share neither interior nor a length of boundary.
CheckMembers ==
  /\ stage = "members"
  /\ LET present == {p \in DOMAIN geometry : geometry[p][1].tiles # {}}
         bad == {q \in present \X present :
                   /\ q[1] < q[2]
                   /\ EnvelopesMeet(Envelope(geometry[q[1]][1].tiles), Envelope(geometry[q[2]][1].tiles))
                   /\ \/ Region(geometry[q[1]]) \cap Region(geometry[q[2]]) # {}
                      \/ Boundary(Region(geometry[q[1]])) \cap Boundary(Region(geometry[q[2]])) # {}}
     IN IF bad # {} THEN Fails("PolygonConflict")
        ELSE verdict' = "valid" /\ stage' = "done" /\ UNCHANGED <<geometry, polygon, contacts, root>>

Next ==
  \/ CheckCoordinates \/ CheckRings \/ CheckSegments \/ CheckHoles \/ CheckOverlap
  \/ \E p \in contacts : UniteContact(p)
  \/ ForestDone \/ CheckMembers

Spec == Init /\ [][Next]_vars

-----------------------------------------------------------------------------

\* The interior of a polygon, its hole disks taken out, in one piece.
OnePiece(p) == Connected(Region(p))

\* What the verdicts claim, said of the regions instead of the rings: the
\* interior itself is searched for its pieces.
Claims ==
  [valid |->
     \A p \in DOMAIN geometry :
       LET g == geometry[p]
       IN \/ \A r \in DOMAIN g : g[r].tiles = {}
          \/ /\ g[1].tiles # {} /\ \A r \in DOMAIN g : g[r].form = "closed"
             /\ \A r \in DOMAIN g : g[r].tiles = {} \/ IsDisk(g[r].tiles)
             /\ \A r \in 2 .. Len(g) : g[r].tiles \subseteq g[1].tiles
             /\ \A r, s \in 2 .. Len(g) : r < s => g[r].tiles \cap g[s].tiles = {}
             /\ \A r, s \in DOMAIN g : r < s => Boundary(g[r].tiles) \cap Boundary(g[s].tiles) = {}
             /\ OnePiece(g)
             /\ \A q \in 1 .. p - 1 :
                  /\ Region(geometry[q]) \cap Region(g) = {}
                  /\ Boundary(Region(geometry[q])) \cap Boundary(Region(g)) = {},
   torn |-> \E p \in DOMAIN geometry : geometry[p][1].tiles # {} /\ ~OnePiece(geometry[p])]

\* A geometry passes exactly when it is valid, and an interior is reported
\* disconnected only when it is: neither the pruning by envelopes nor the
\* detour over the contact points changes the answer (validate_polygon,
\* geometry_validity.rs:240-388).
VerdictExact ==
  verdict # None => /\ (verdict = "valid") <=> Claims.valid
                    /\ verdict = "DisconnectedInterior" => Claims.torn

=============================================================================
