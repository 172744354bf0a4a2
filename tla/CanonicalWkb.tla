---------------------------- MODULE CanonicalWkb ----------------------------
(***************************************************************************)
(* canonical_wkb_multi_polygon (algo/canonical_wkb.rs): the form in which  *)
(* watersheds are compared with stored goldens. The backends present one   *)
(* geometry in many ways: rings start anywhere and turn either way, holes  *)
(* and polygons come in any order, coordinates carry noise. A polygon is a *)
(* sequence of rings, the exterior first; a ring its closed sequence of    *)
(* points, in tenths of the unit that is kept.                             *)
(***************************************************************************)
EXTENDS Integers, Sequences, SequencesExt

CONSTANTS
  MultiPolygons,
  Noise     \* errors that leave a coordinate of these geometries on its side of a half

VARIABLES
  geometry, \* the multi-polygon as it is presented now
  noise,    \* what was added to its coordinates
  golden    \* the canonical form of the first presentation

vars == <<geometry, noise, golden>>

\* f64::round: halves go away from zero.
Round(v) == IF v >= 0 THEN (v + 5) \div 10 ELSE -((5 - v) \div 10)

Map(s, Op(_)) == [i \in DOMAIN s |-> Op(s[i])]

Rounded(ring) == Map(ring, LAMBDA p : <<Round(p[1]), Round(p[2])>>)

Open(ring) == IF ring[1] = ring[Len(ring)] THEN Front(ring) ELSE ring

\* Twice the area, negative for a clockwise ring.
SignedAreaTwice(v) ==
  IF Len(v) < 3 THEN 0
  ELSE LET term(i) == LET w == v[(i % Len(v)) + 1] IN v[i][1] * w[2] - w[1] * v[i][2]
       IN FoldLeftDomain(LAMBDA sum, i : sum + term(i), 0, v)

Wound(v, exterior) ==
  LET area == SignedAreaTwice(v)
  IN IF (exterior /\ area < 0) \/ (~exterior /\ area > 0) THEN Reverse(v) ELSE v

BeforePoint(p, q) == p[1] < q[1] \/ (p[1] = q[1] /\ p[2] < q[2])

\* Slices are compared element by element, a prefix is the lesser: how many
\* elements two slices begin with in common.
Shared(a, b) ==
  CHOOSE n \in 0 .. Len(a) :
    /\ n <= Len(b) /\ SubSeq(a, 1, n) = SubSeq(b, 1, n)
    /\ n < Len(a) /\ n < Len(b) => a[n + 1] # b[n + 1]

LessPoints(a, b) ==
  LET n == Shared(a, b)
  IN  n < Len(b) /\ (n < Len(a) => BeforePoint(a[n + 1], b[n + 1]))

RotatedTo(v, i) == SubSeq(v, i, Len(v)) \o SubSeq(v, 1, i - 1)

\* Mutant: the ring starts at its first least point.
ToTotalOrderStartByPoint(v) ==
  RotatedTo(v, CHOOSE i \in DOMAIN v : \A j \in DOMAIN v : ~BeforePoint(v[j], v[i]) /\ (j < i => BeforePoint(v[i], v[j])))

\* The rotation that is least as a whole.
ToTotalOrderStart(v) ==
  RotatedTo(v, CHOOSE i \in DOMAIN v : \A j \in DOMAIN v : ~LessPoints(RotatedTo(v, j), RotatedTo(v, i)))

NormalizeRing(ring, exterior) == ToTotalOrderStart(Wound(Open(Rounded(ring)), exterior))

Bbox(v) ==
  LET xs == {v[i][1] : i \in DOMAIN v}  ys == {v[i][2] : i \in DOMAIN v}
      min(S) == CHOOSE x \in S : \A y \in S : x <= y
      max(S) == CHOOSE x \in S : \A y \in S : x >= y
  IN << <<min(xs), min(ys)>>, <<max(xs), max(ys)>> >>

\* A ring is ordered by its box, its area and its points.
RingKey(v) == <<Bbox(v), << <<SignedAreaTwice(v), 0>> >>, v>>

LessKeys(a, b) ==
  LET n == Shared(a, b)
  IN  n < Len(b) /\ (n < Len(a) => LessPoints(a[n + 1], b[n + 1]))

NormalizePolygon(polygon) ==
  LET holes == [i \in 1 .. Len(polygon) - 1 |-> NormalizeRing(polygon[i + 1], FALSE)]
  IN <<NormalizeRing(polygon[1], TRUE)>> \o SortSeq(holes, LAMBDA a, b : LessKeys(RingKey(a), RingKey(b)))

Size(v) == LET a == SignedAreaTwice(v) IN IF a < 0 THEN -a ELSE a

\* A polygon by its box, its area, its holes' number, its points, its holes.
PolygonKey(p) ==
  LET area == FoldLeftDomain(LAMBDA a, i : IF i = 1 THEN a + Size(p[i]) ELSE a - Size(p[i]), 0, p)
  IN <<Bbox(p[1]), << <<area, 0>>, <<Len(p), 0>> >>, p[1]>> \o FlattenSeq(Map(Tail(p), RingKey))

Canonical(mp) ==
  SortSeq(Map(mp, NormalizePolygon), LAMBDA a, b : LessKeys(PolygonKey(a), PolygonKey(b)))

\* What encode_wkb_multi_polygon writes: the rings closed again.
Encoded(canonical) ==
  Map(canonical, LAMBDA polygon :
    Map(polygon, LAMBDA v : Map(Append(v, v[1]), LAMBDA p : <<10 * p[1], 10 * p[2]>>)))

Init ==
  /\ geometry \in MultiPolygons
  /\ noise = 0 /\ golden = Canonical(geometry)

RotateRing(p, r) ==
  /\ geometry' = [geometry EXCEPT ![p][r] = Append(Tail(@), @[2])]
  /\ UNCHANGED <<noise, golden>>

ReverseRing(p, r) ==
  /\ geometry' = [geometry EXCEPT ![p][r] = Reverse(@)]
  /\ UNCHANGED <<noise, golden>>

RotateHoles(p) ==
  /\ Len(geometry[p]) > 2
  /\ geometry' = [geometry EXCEPT ![p] = <<Head(@)>> \o Append(Tail(Tail(@)), @[2])]
  /\ UNCHANGED <<noise, golden>>

RotatePolygons ==
  /\ geometry' = Append(Tail(geometry), Head(geometry))
  /\ UNCHANGED <<noise, golden>>

\* Another backend computes the same coordinates with an error.
Jitter(d) ==
  /\ noise = 0 /\ noise' = d
  /\ geometry' = Map(geometry, LAMBDA polygon :
                   Map(polygon, LAMBDA ring : Map(ring, LAMBDA p : <<p[1] + d, p[2] + d>>)))
  /\ UNCHANGED golden

\* The golden is written and read back.
Store ==
  /\ geometry' = Encoded(Canonical(geometry)) /\ noise' = 0
  /\ UNCHANGED golden

Next ==
  \/ \E p \in DOMAIN geometry : \E r \in DOMAIN geometry[p] : RotateRing(p, r) \/ ReverseRing(p, r)
  \/ \E p \in DOMAIN geometry : RotateHoles(p)
  \/ RotatePolygons
  \/ \E d \in Noise : Jitter(d)
  \/ Store

Spec == Init /\ [][Next]_vars

-----------------------------------------------------------------------------

Segments(v) == {{v[i], v[(i % Len(v)) + 1]} : i \in DOMAIN v}

\* However a geometry is presented, and after any number of round trips, its
\* canonical form is the same, and it has the rings of the geometry, no more
\* and no less (canonical_wkb_multi_polygon, canonical_wkb.rs:29-41).
OneCanonicalForm ==
  /\ Canonical(geometry) = golden
  /\ {{Segments(golden[p][r]) : r \in DOMAIN golden[p]} : p \in DOMAIN golden}
       = {{Segments(Open(Rounded(geometry[p][r]))) : r \in DOMAIN geometry[p]} : p \in DOMAIN geometry}

=============================================================================
