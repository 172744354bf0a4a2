----------------------------- MODULE GridRegion -----------------------------
(***************************************************************************)
(* Planar regions made of finitely many tiles. The unit square <<x, y>> is *)
(* cut by its diagonals into the tiles <<x, y, k>>, k one of "n", "e", "s" *)
(* and "w"; in half units its corners are even points and its centre an    *)
(* odd one, so that up to four tiles may meet in a point and share no      *)
(* edge. Interiors hang together through edges only.                       *)
(***************************************************************************)
EXTENDS Integers, FiniteSets, FiniteSetsExt

Kinds == {"n", "e", "s", "w"}

\* All tiles of a set of squares.
Tiles(squares) == {<<s[1], s[2], k>> : s \in squares, k \in Kinds}

\* Edges are pairs of points, the left or lower one first.
Sides(c) ==
  LET x == 2 * c[1]  y == 2 * c[2]
      m == <<x - 1, y - 1>>
      sw == <<x - 2, y - 2>>  se == <<x, y - 2>>  nw == <<x - 2, y>>  ne == <<x, y>>
  IN CASE c[3] = "n" -> {<<nw, ne>>, <<nw, m>>, <<m, ne>>}
       [] c[3] = "e" -> {<<se, ne>>, <<m, se>>, <<m, ne>>}
       [] c[3] = "s" -> {<<sw, se>>, <<sw, m>>, <<m, se>>}
       [] c[3] = "w" -> {<<sw, nw>>, <<sw, m>>, <<nw, m>>}

Ends(e) == {e[1], e[2]}

Neighbours(c) ==
  LET x == c[1]  y == c[2]
  IN CASE c[3] = "n" -> {<<x, y, "e">>, <<x, y, "w">>, <<x, y + 1, "s">>}
       [] c[3] = "e" -> {<<x, y, "n">>, <<x, y, "s">>, <<x + 1, y, "w">>}
       [] c[3] = "s" -> {<<x, y, "e">>, <<x, y, "w">>, <<x, y - 1, "n">>}
       [] c[3] = "w" -> {<<x, y, "n">>, <<x, y, "s">>, <<x - 1, y, "e">>}

\* The edges with the region on one side only.
Boundary(S) == UNION {Sides(c) \ UNION {Sides(d) : d \in Neighbours(c) \cap S} : c \in S}

RECURSIVE Spread(_, _, _)

\* From the tiles just reached to their neighbours in S, until there are none.
Spread(S, reached, new) ==
  IF new = {} THEN reached
  ELSE LET next == (S \cap UNION {Neighbours(d) : d \in new}) \ reached
       IN Spread(S, reached \cup next, next)

\* The connected part of S that holds the tile c.
Component(S, c) == Spread(S, {c}, {c})

RECURSIVE Components(_)

\* One part after the other.
Components(S) ==
  IF S = {} THEN {}
  ELSE LET C == Component(S, CHOOSE c \in S : TRUE)
       IN {C} \cup Components(S \ C)

Connected(S) == S # {} /\ Component(S, CHOOSE c \in S : TRUE) = S

\* The tiles that a region closes off from the outside.
Enclosed(S) ==
  LET xs == {c[1] : c \in S}  ys == {c[2] : c \in S}
      frame == Tiles((Min(xs) - 1 .. Max(xs) + 1) \X (Min(ys) - 1 .. Max(ys) + 1))
  IN (frame \ S) \ Component(frame \ S, <<Min(xs) - 1, Min(ys) - 1, "n">>)

\* Bounded by one simple ring: in one piece and without enclosed tiles.
IsDisk(S) == Connected(S) /\ Enclosed(S) = {}

=============================================================================
