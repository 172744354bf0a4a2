--------------------------- MODULE MCBasinExport ----------------------------
\* Jobs for BasinExport: a Hilbert grid of four by four cells, row groups of two
\* to four rows.
EXTENDS Integers, Sequences

CONSTANTS
  Dot,   \* the rank of the dot
  None   \* an absent value

R(x, y, w, h) == [x0 |-> x, y0 |-> y, x1 |-> x + w, y1 |-> y + h]

\* Rectangles over all cells of the grid, two in some of them; odd coordinates
\* are not float32 values.
Shape ==
  <<R(-13, -15, 3, 4), R(11, 9, 2, 3), R(-3, -1, 2, 3), R(-12, 13, 3, 2), R(2, -13, 5, 3),
    R(3, 3, 1, 1), R(-15, -14, 1, 5), R(13, -3, 2, 2), R(-5, 5, 3, 4), R(10, -15, 3, 3),
    R(-14, 3, 5, 5), R(4, 12, 3, 3)>>

Item(i, k) ==
  [id |-> <<i>>, terminal |-> i, geometry |-> Shape[k], encodes |-> TRUE, fabric |-> 1, version |-> 1,
   method |-> 1, origin |-> i, status |-> "applied"]

Base ==
  [kind |-> "basins", caller |-> "python", inputs |-> <<>>, ids |-> None, allow |-> TRUE, method |-> 1,
   label |-> None, refinements |-> 0]

\* n rows, starting with the k-th rectangle.
Many(n, k) ==
  [Base EXCEPT !.inputs = [i \in 1 .. n |-> Item(i, ((i + k) % 12) + 1)],
               !.ids = [i \in 1 .. n |-> <<i % 4, i \div 4>>]]

Ids == {<<>>, <<1>>, <<1, 2>>, <<Dot>>, <<1, Dot>>, <<1, 1, 1, 1>>, <<77>>, <<9, 9>>}

Python ==
  {Many(n, k) : n \in 0 .. 10, k \in {0, 5}}
  \cup {[Many(2, 1) EXCEPT !.ids = <<a, <<1>>>>] : a \in Ids}
  \cup {[Many(3, 1) EXCEPT !.ids = i] : i \in {None, <<<<1>>>>}}
  \cup {[Many(1, 1) EXCEPT !.ids = None, !.allow = a, !.method = m, !.inputs[1].terminal = t] :
          a \in BOOLEAN, m \in {0, 2}, t \in {-1, 7, 12}}
  \cup {[Many(3, 1) EXCEPT !.inputs[2].geometry = None], [Many(3, 1) EXCEPT !.inputs[3].encodes = FALSE],
        [Many(3, 1) EXCEPT !.inputs[1].version = None], [Many(3, 1) EXCEPT !.inputs[2].version = None]}

\* Library calls mix explicit and default ids, versions and origins.
Mixed ==
  {[Base EXCEPT !.caller = "library", !.label = l,
                !.inputs = [i \in 1 .. 3 |-> [Item(i, i) EXCEPT !.id = f[i][1], !.terminal = f[i][2],
                                                              !.version = f[i][3], !.origin = f[i][4]]]] :
     l \in {None, <<5>>}, f \in [1 .. 3 -> {<<None, 10, 1, 1>>, <<None, 10, 2, 2>>, <<None, 9, 1, 1>>,
                                            <<None, 10, 2, 1>>, <<<<1, 0>>, 3, 2, 3>>, <<<<9>>, 3, None, 3>>}]}

Bundle(us, t) ==
  [units |-> [i \in 1 .. Len(us) |-> [Item(us[i], us[i]) EXCEPT !.id = us[i]]], terminal |-> t, fabric |-> 1,
   version |-> 1, method |-> 1, status |-> "disabled"]

Bundles ==
  {[Base EXCEPT !.kind = "units", !.inputs = b, !.refinements = n, !.caller = c] :
     b \in {<<>>, <<Bundle(<<3, 1, 2>>, 3)>>, <<Bundle(<<3, 1>>, 3), Bundle(<<>>, 4)>>,
            <<Bundle(<<10, 9>>, 10), Bundle(<<3, 1, 2, 11>>, 3)>>, <<Bundle(<<3, 1>>, 3), Bundle(<<4, 1>>, 4)>>},
     n \in {0, 1, 2}, c \in {"python", "library"}}

MCJob == Python \cup Mixed \cup Bundles

=============================================================================
