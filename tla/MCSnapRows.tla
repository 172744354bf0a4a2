----------------------------- MODULE MCSnapRows -----------------------------
(***************************************************************************)
(* Files and queries for SnapStore, exports for SnapExport.                *)
(***************************************************************************)
EXTENDS SnapRows

B(x0, y0, x1, y1) == [x0 |-> x0, y0 |-> y0, x1 |-> x1, y1 |-> y1]

\* A point with its own bounds, and a row in general.
P(id, x, y) == [id |-> id, unit |-> 10 * id, kind |-> "point", geometry |-> B(x, y, x, y),
                bbox |-> B(RoundSingle(x), RoundSingle(y), RoundSingle(x), RoundSingle(y)), bad |-> {}]

G(rows, stats) == [rows |-> rows, stats |-> stats]

Null(r) == [r EXCEPT !.bbox = None]

\* Rows at the limit, in a group with null bounds, alone in a group (an empty
\* envelope) and in a group without statistics.
Groups ==
  <<G(<<P(1, 2, 2), P(2, 6, 6)>>, TRUE), G(<<P(3, 1, 4), Null(P(4, 11, 9)), P(5, 4, 6)>>, TRUE),
    G(<<P(6, 8, 8)>>, TRUE), G(<<P(7, 12, 12), P(8, 10, 4)>>, FALSE)>>

F(groups) == [schema |-> TRUE, bbox |-> TRUE, groups |-> groups]

StoreFile ==
  {F(Groups), [F(Groups) EXCEPT !.bbox = FALSE], [F(Groups) EXCEPT !.schema = FALSE], F(<<>>)}
  \cup {F([Groups EXCEPT ![g].rows[1].bad = {b}]) : g \in {1, 2, 4}, b \in {"null", "blank", "leaves", "id", "role", "geometry"}}

StoreBox == {B(x, y, x + 2, y + 2) : x \in {0, 4, 6, 8, 10}, y \in {4, 6, 8}}

-----------------------------------------------------------------------------
(* SnapExport. *)

\* A point or a horizontal line with float32 bounds that are nearest to its own.
R(id, kind, x0, x1, y) ==
  [id |-> id, unit |-> id, kind |-> kind, geometry |-> B(x0, y, x1, y),
   bbox |-> B(RoundSingle(x0), RoundSingle(y), RoundSingle(x1), RoundSingle(y)), bad |-> {}]

\* The last points of the groups lie between two float32 values.
Rivers ==
  [schema |-> TRUE, bbox |-> TRUE,
   groups |-> <<G(<<R(1, "line", 0, 3, 2), R(2, "point", 2, 2, 3), R(3, "point", 5, 5, 5)>>, TRUE),
                G(<<R(4, "point", 7, 7, 2), [R(5, "line", 9, 11, 9) EXCEPT !.bbox = None]>>, TRUE),
                G(<<R(6, "point", 8, 8, 4), R(7, "line", 7, 9, 7)>>, TRUE)>>]

Gauges == [schema |-> TRUE, bbox |-> FALSE, groups |-> <<G(<<R(1, "point", 5, 5, 4)>>, TRUE)>>]

D(name, file) == [name |-> name, readable |-> TRUE, escapes |-> FALSE, file |-> file]

Decls == <<D("rivers", Rivers), D("gauges", Gauges)>>

Bad(g, i, b) == [Rivers EXCEPT !.groups[g].rows[i].bad = {b}]

DeclSets ==
  {<<>>, Decls, <<Decls[1], Decls[1]>>,
   <<Decls[1], [Decls[2] EXCEPT !.readable = FALSE]>>,
   <<Decls[1], [Decls[2] EXCEPT !.escapes = TRUE]>>}
  \cup {<<D("rivers", Bad(g, 2, b)), Decls[2]>> : g \in {1, 2}, b \in {"null", "blank", "weight", "leaves"}}

Scopes ==
  {All} \cup {B(x, y, x + 3, y + 3) : x \in {0, 3, 5, 6}, y \in {1, 5}}

ExportCase ==
  {c \in [decls : DeclSets, scope : Scopes, set : {None, "rivers", "lakes"},
           sink : {"package", "frame"}] :
     Len(c.decls) = 2 \/ c.scope = All}

=============================================================================
