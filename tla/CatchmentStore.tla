--------------------------- MODULE CatchmentStore ---------------------------
(***************************************************************************)
(* The reader of catchments.parquet                                        *)
(* (crates/core/src/reader/catchment_store.rs) with its id index file      *)
(* (id_index.rs).  Opening reads the footer, keeps the bounding box of     *)
(* every row group that has statistics and loads or builds the map from    *)
(* ids to row groups; queries read the row groups they need, some of them  *)
(* concurrently, and filter their rows.                                    *)
(*                                                                         *)
(* A row carries the names of its columns whose value is null or fails its *)
(* domain check; "wkb" stands for bytes that are not a polygon.  Boxes     *)
(* have integer coordinates.  An error carries the number of the row in    *)
(* the file when the code names one.                                       *)
(***************************************************************************)
EXTENDS Naturals, Integers, Sequences, FiniteSets, FiniteSetsExt

CONSTANTS
  File,         \* the files considered
  IndexFile,    \* what may be found at the path of the id index
  Request,      \* the queries considered
  Concurrency,  \* bound of `buffered`: row groups read at a time
  None          \* an absent value

Rect == {r \in [x0 : Int, y0 : Int, x1 : Int, y1 : Int] :
           r.x0 <= r.x1 /\ r.y0 <= r.y1}

Column == {"id", "level", "scalar", "geometry", "wkb"}

Row == [id : Nat, level : Nat, box : Rect, bad : SUBSET Column]

\* A file has its required columns or not (schema), an optional level column,
\* an ETag or none, and row groups with or without bbox statistics.
IsFile(f) ==
  /\ f.schema \in BOOLEAN /\ f.level \in BOOLEAN
  /\ f.etag \in Nat \cup {None}
  /\ f.groups \in Seq([rows : Seq(Row), stats : BOOLEAN])

\* The id index file: the footer's ETag (standing for the size too) and
\* version, whether the checksum holds, and the row group of every id.
IsIndexFile(x) ==
  x # None =>
    /\ x.etag \in Nat /\ x.current \in BOOLEAN /\ x.crc \in BOOLEAN
    /\ x.entries \in Seq([id : Nat, group : Nat \cup {None}])

IsRequest(q) ==
  \/ q.kind \in {"by_ids", "geometries"} /\ q.ids \in Seq(Nat)
  \/ q.kind = "by_bbox" /\ q.box \in Rect
  \/ q.kind = "id_levels"

\* The elements of s at the positions in P, in order.
Picked(s, P) ==
  LET kept[n \in 0 .. Len(s)] ==
        IF n = 0 THEN <<>> ELSE IF n \in P THEN Append(kept[n - 1], s[n]) ELSE kept[n - 1]
  IN  kept[Len(s)]

\* The sequences of s, one after the other.
Joined(s) ==
  LET glue[n \in 0 .. Len(s)] == IF n = 0 THEN <<>> ELSE glue[n - 1] \o s[n]
  IN  glue[Len(s)]

\* The rows of the first n groups of f, one after the other.
RowsOf(f, n) == Joined([g \in 1 .. n |-> f.groups[g].rows])

\* The entries are the ids of f, each with the group of its row, and no row of f
\* repeats an id.
Describes(f, e) ==
  LET all == RowsOf(f, Len(f.groups))
  IN  /\ {e[i].id : i \in 1 .. Len(e)} = {all[i].id : i \in 1 .. Len(all)}
      /\ \A i \in 1 .. Len(e) :
           /\ e[i].group \in 1 .. Len(f.groups)
           /\ \E j \in 1 .. Len(f.groups[e[i].group].rows) : f.groups[e[i].group].rows[j].id = e[i].id
      /\ \A i, j \in 1 .. Len(all) : all[i].id = all[j].id => i = j

\* The kinds of error.
Kinds == {"io", "parse", "schema", "read", "decode", "invalid_row", "duplicate"}

\* The index file names f and its footer and checksum hold.
Intact(f, x) ==
  /\ x # None
  /\ x.etag = f.etag /\ x.current /\ x.crc
  /\ \A i \in 1 .. Len(x.entries) : x.entries[i].group # None

\* What the values of the constants are assumed to be.  An index file that is
\* intact and complete and has the ETag of an object was written from that object.
CatchmentAssumption ==
  /\ None \notin Nat /\ None \notin [kind : Kinds, at : Nat \cup {None}]
  /\ \A f \in File :
       LET all == RowsOf(f, Len(f.groups))
       IN  None \notin [{all[i].id : i \in 1 .. Len(all)} -> 1 .. Len(f.groups)]
  /\ \A f \in File, x \in IndexFile : Intact(f, x) => Describes(f, x.entries)
  /\ \A f \in File : IsFile(f)
  /\ \A x \in IndexFile : IsIndexFile(x)
  /\ \A q \in Request : IsRequest(q)
  /\ Concurrency \in Nat \ {0}

VARIABLES
  file,       \* the file behind the store
  indexed,    \* is an id index path given (a remote open)
  indexFile,  \* what is stored there
  pc,         \* the stage of the open or of the query
  boxes,      \* row_groups and groups_without_stats: a box or None per group
  index,      \* id_row_groups
  levels,     \* validation_levels_from_open
  query,      \* the query, or the scan of the open
  todo,       \* the row groups it reads, in file order
  done,       \* what the reads that ended returned, by position in todo
  answer      \* the rows or the error returned

vars == <<file, indexed, indexFile, pc, boxes, index, levels, query, todo, done, answer>>

NoQuery == [kind |-> "none"]

NoAnswer == [err |-> None, rows |-> <<>>]

Init ==
  /\ file \in File
  /\ indexed \in BOOLEAN
  /\ indexFile \in IF indexed THEN IndexFile ELSE {None}
  /\ pc = "head"
  /\ boxes = <<>> /\ index = None /\ levels = None
  /\ query = NoQuery /\ todo = <<>> /\ done = <<>> /\ answer = NoAnswer

-----------------------------------------------------------------------------
(* Row groups. *)

Groups == 1 .. Len(file.groups)

Rows(g) == file.groups[g].rows

NumRows(g) == Len(Rows(g))

\* Mutant: the rows of the group itself are counted too.
AbsoluteRowStartOneGroupOn(g) ==
  LET start[h \in 0 .. g] == IF h = 0 THEN 0 ELSE start[h - 1] + NumRows(h)
  IN  start[g]

\* absolute_row_starts: the rows of the groups before.
AbsoluteRowStart(g) ==
  LET start[h \in 0 .. g - 1] == IF h = 0 THEN 0 ELSE start[h - 1] + NumRows(h)
  IN  start[g - 1]

Intersects(a, b) ==
  /\ a.x0 <= b.x1 /\ b.x0 <= a.x1
  /\ a.y0 <= b.y1 /\ b.y0 <= a.y1

\* The least and greatest values that the statistics of the four columns hold.
Envelope(g) ==
  LET R == {Rows(g)[i].box : i \in 1 .. NumRows(g)}
  IN  [x0 |-> Min({r.x0 : r \in R}), y0 |-> Min({r.y0 : r \in R}),
       x1 |-> Max({r.x1 : r \in R}), y1 |-> Max({r.y1 : r \in R})]

\* extract_row_group_bbox.  BoundingBox::new refuses a box without an inside.
GroupBox(g) ==
  IF file.groups[g].stats /\ NumRows(g) > 0
    THEN IF Envelope(g).x0 < Envelope(g).x1 /\ Envelope(g).y0 < Envelope(g).y1
           THEN Envelope(g) ELSE None
    ELSE None

\* A set of groups in file order (sort_unstable, dedup).
InOrder(S) == Picked([g \in Groups |-> g], S)

\* Mutant: groups without statistics are taken to hold nothing.
MatchingWithStats(box) ==
  {g \in Groups : boxes[g] # None /\ Intersects(boxes[g], box)}

\* query_by_bbox: the groups whose box meets the query, and those without one.
Matching(box) ==
  {g \in Groups : IF boxes[g] = None THEN TRUE ELSE Intersects(boxes[g], box)}

\* selected_row_groups_for_ids.
Selected(ids) ==
  {index[ids[i]] : i \in {j \in 1 .. Len(ids) : ids[j] \in DOMAIN index}}

-----------------------------------------------------------------------------
(* What a query makes of a row. *)

\* The columns a query looks at in a row; the geometry query skips rows it was
\* not asked for once their id is read.
Asked(q, r) ==
  CASE q.kind = "ids" -> {"id"}
    [] q.kind \in {"ids_levels", "id_levels"} -> {"id", "level"}
    [] q.kind = "geometries" ->
         IF "id" \notin r.bad /\ ~ \E i \in 1 .. Len(q.ids) : q.ids[i] = r.id
           THEN {"id"} ELSE {"id", "geometry", "wkb"}
    [] OTHER -> {"id", "level", "scalar", "geometry"}

\* extract_units_from_batch reads the level only where the column exists.
Faulty(q, r) ==
  LET seen == IF q.kind \in {"by_ids", "by_bbox"} /\ ~file.level
                THEN Asked(q, r) \ {"level"} ELSE Asked(q, r)
  IN  r.bad \cap seen # {}

\* An undecodable polygon is reported by its unit, every other fault by its row.
FaultOf(q, r, n) ==
  IF r.bad \cap (Asked(q, r) \ {"wkb"}) = {}
    THEN [kind |-> "decode", at |-> r.id]
    ELSE [kind |-> "invalid_row", at |-> n]

Wanted(q, r) ==
  CASE q.kind \in {"by_ids", "geometries"} -> \E i \in 1 .. Len(q.ids) : q.ids[i] = r.id
    [] q.kind = "by_bbox" -> Intersects(r.box, q.box)
    [] OTHER -> TRUE

\* A row as the query returns it.
Result(q, r) ==
  CASE q.kind \in {"ids", "geometries"} -> [id |-> r.id]
    [] q.kind \in {"ids_levels", "id_levels"} -> [id |-> r.id, level |-> r.level]
    [] OTHER -> [id |-> r.id, level |-> IF file.level THEN r.level ELSE 0, box |-> r.box]

\* What a query returns of rows without fault.
Answered(q, rows) ==
  Picked([i \in 1 .. Len(rows) |-> Result(q, rows[i])], {i \in 1 .. Len(rows) : Wanted(q, rows[i])})

\* Read one row group: the error of its first faulty row, or its rows.
ReadOf(q, g) ==
  LET rows == Rows(g)
      faults == {i \in 1 .. Len(rows) : Faulty(q, rows[i])}
  IN  IF faults # {}
        THEN LET i == Min(faults)
             IN  [err |-> FaultOf(q, rows[i], AbsoluteRowStart(g) + i - 1), rows |-> <<>>]
        ELSE [err |-> None, rows |-> Answered(q, rows)]

ReadError(g) == [err |-> [kind |-> "read", at |-> g], rows |-> <<>>]

-----------------------------------------------------------------------------
(* Opening. *)

Fail(kind) ==
  /\ pc' = "failed"
  /\ answer' = [err |-> [kind |-> kind, at |-> None], rows |-> <<>>]

\* A column, or a leaf of bbox, is missing or has another type.
SchemaFails == ~file.schema /\ Fail("schema")

\* The HEAD request and the footer: each may fail, and the schema is checked.
OpenFails ==
  /\ pc = "head"
  /\ Fail("io") \/ Fail("parse") \/ SchemaFails
  /\ UNCHANGED <<file, indexed, indexFile, boxes, index, levels, query, todo, done>>

\* The pass over the row groups' metadata.
OpenObject ==
  /\ pc = "head" /\ file.schema
  /\ boxes' = [g \in Groups |-> GroupBox(g)]
  /\ pc' = "index"
  /\ UNCHANGED <<file, indexed, indexFile, index, levels, query, todo, done, answer>>

\* Mutant: the checksum is not compared.
AcceptedWithoutChecksum(x) ==
  /\ x # None
  /\ x.etag = file.etag /\ x.current
  /\ x.entries # <<>> /\ \A i \in 1 .. Len(x.entries) : x.entries[i].group # None
  /\ \A i, j \in 1 .. Len(x.entries) : x.entries[i].id = x.entries[j].id => i = j

\* IdIndex::load_from_path and decode_body: of this object and this version,
\* intact, with a row group for every id, and no id twice.  An index of no
\* entries has no row groups and is built again.
Accepted(x) ==
  /\ x # None
  /\ x.etag = file.etag /\ x.current /\ x.crc
  /\ x.entries # <<>> /\ \A i \in 1 .. Len(x.entries) : x.entries[i].group # None
  /\ \A i, j \in 1 .. Len(x.entries) : x.entries[i].id = x.entries[j].id => i = j

\* Only an object with an ETag has an index file.
UsesIndexFile == indexed /\ file.etag # None

LoadIndex ==
  /\ pc = "index" /\ UsesIndexFile /\ Accepted(indexFile)
  /\ LET e == indexFile.entries
     IN  index' = [u \in {e[i].id : i \in 1 .. Len(e)} |->
                     e[CHOOSE i \in 1 .. Len(e) : e[i].id = u].group]
  /\ pc' = "open"
  /\ UNCHANGED <<file, indexed, indexFile, boxes, levels, query, todo, done, answer>>

\* read_or_build_id_index: without an acceptable index file, or when it cannot be
\* read, the file is scanned, with the levels if the index will be written.  The
\* projection needs the level column then.
BuildIndex ==
  /\ pc = "index"
  /\ IF UsesIndexFile /\ ~file.level /\ file.groups # <<>>
       THEN Fail("schema") /\ UNCHANGED <<query, todo>>
       ELSE /\ query' = [kind |-> IF UsesIndexFile THEN "ids_levels" ELSE "ids"]
            /\ todo' = InOrder(Groups)
            /\ pc' = "reading"
            /\ UNCHANGED answer
  /\ UNCHANGED <<file, indexed, indexFile, boxes, index, levels, done>>

-----------------------------------------------------------------------------
(* Queries. *)

\* Which groups a query reads.
ToRead(q) ==
  CASE q.kind = "by_bbox" -> InOrder(Matching(q.box))
    [] q.kind = "id_levels" -> InOrder(Groups)
    [] OTHER -> InOrder(Selected(q.ids))

\* The projection of read_id_levels needs the level column.
LacksLevel(q) == q.kind = "id_levels" /\ ~file.level /\ file.groups # <<>>

QueryFails(q, kind) ==
  /\ pc = "open"
  /\ query' = q
  /\ answer' = [err |-> [kind |-> kind, at |-> None], rows |-> <<>>]
  /\ UNCHANGED <<file, indexed, indexFile, pc, boxes, index, levels, todo, done>>

\* A query with groups to read reads the footer again, which may fail.
Query(q) ==
  /\ pc = "open" /\ ~LacksLevel(q)
  /\ query' = q
  /\ todo' = ToRead(q)
  /\ done' = <<>>
  /\ pc' = "reading" /\ answer' = NoAnswer
  /\ UNCHANGED <<file, indexed, indexFile, boxes, index, levels>>

\* The two scans of whole units read one group after the other.
Width == IF query.kind \in {"by_ids", "by_bbox"} THEN 1 ELSE Concurrency

\* How many results `buffered` has handed on: those before the first pending.
Handed == Min({p \in 1 .. Len(todo) + 1 : p \notin DOMAIN done}) - 1

\* A read in flight ends, in any order among those in flight.
ReadGroup(p) ==
  /\ pc = "reading"
  /\ p \notin DOMAIN done /\ p <= Handed + Width
  /\ \A i \in DOMAIN done : Width = 1 => done[i].err = None
  /\ \E r \in {ReadOf(query, todo[p]), ReadError(todo[p])} :
       done' = [i \in DOMAIN done \cup {p} |-> IF i = p THEN r ELSE done[i]]
  /\ UNCHANGED <<file, indexed, indexFile, pc, boxes, index, levels, query, todo, answer>>

Failures == {p \in DOMAIN done : done[p].err # None}

\* Every read has ended, or one of a sequential scan has failed.
Collected ==
  /\ pc = "reading"
  /\ DOMAIN done = 1 .. Len(todo) \/ (Width = 1 /\ Failures # {})

Concatenated == Joined([p \in 1 .. Len(todo) |-> done[p].rows])

CollectRows ==
  /\ Collected /\ Failures = {} /\ index # None
  /\ answer' = [err |-> None, rows |-> Concatenated]
  /\ pc' = "open"
  /\ UNCHANGED <<file, indexed, indexFile, boxes, index, levels, query, todo, done>>

\* The ids of the first n groups, in the order of the rows, with the group of each.
ScannedTo(n) ==
  Joined([p \in 1 .. n |->
            [i \in 1 .. Len(done[p].rows) |-> [id |-> done[p].rows[i].id, group |-> todo[p]]]])

Scanned == ScannedTo(Len(todo))

\* The loop that fills id_row_groups goes through the groups in order, as far as
\* the first that failed.
Met == IF Failures = {} THEN Scanned ELSE ScannedTo(Min(Failures) - 1)

Repeats(s) == {i \in 1 .. Len(s) : \E j \in 1 .. i - 1 : s[j].id = s[i].id}

\* It refuses an id it has met before.
IndexDuplicate ==
  /\ Collected /\ index = None
  /\ Repeats(Met) # {}
  /\ pc' = "failed"
  /\ answer' = [err |-> [kind |-> "duplicate", at |-> Met[Min(Repeats(Met))].id],
                rows |-> <<>>]
  /\ UNCHANGED <<file, indexed, indexFile, boxes, index, levels, query, todo, done>>

\* The first error, in the order of the groups.
CollectFails ==
  /\ Collected /\ Failures # {}
  /\ index = None => Repeats(Met) = {}
  /\ answer' = done[Min(Failures)]
  /\ pc' = IF index = None THEN "failed" ELSE "open"
  /\ UNCHANGED <<file, indexed, indexFile, boxes, index, levels, query, todo, done>>

\* encode_body and the footer; write_to_path is not atomic.
Encoded == [etag |-> file.etag, current |-> TRUE, crc |-> TRUE, entries |-> Scanned]

Torn == [Encoded EXCEPT !.crc = FALSE, !.entries = SubSeq(Scanned, 1, Len(Scanned) - 1)]

\* The index is complete and, with an ETag, written; a failing write is logged
\* and leaves the file torn or as it was.
IndexBuilt ==
  /\ Collected /\ Failures = {} /\ index = None
  /\ Repeats(Scanned) = {}
  /\ index' = [u \in {Scanned[i].id : i \in 1 .. Len(Scanned)} |->
                 Scanned[CHOOSE i \in 1 .. Len(Scanned) : Scanned[i].id = u].group]
  /\ levels' = IF UsesIndexFile
                 THEN [u \in {Scanned[i].id : i \in 1 .. Len(Scanned)} |->
                        Concatenated[CHOOSE i \in 1 .. Len(Scanned) : Scanned[i].id = u].level]
                 ELSE None
  /\ indexFile' \in IF UsesIndexFile THEN {Encoded, Torn, indexFile} ELSE {indexFile}
  /\ pc' = "open"
  /\ query' = NoQuery /\ todo' = <<>> /\ done' = <<>>
  /\ UNCHANGED <<file, indexed, boxes, answer>>

\* The process ends, at any point, and another one opens the same file with the
\* id index that the first one left.
Restart ==
  /\ pc # "head"
  /\ pc' = "head"
  /\ boxes' = <<>> /\ index' = None /\ levels' = None
  /\ query' = NoQuery /\ todo' = <<>> /\ done' = <<>> /\ answer' = NoAnswer
  /\ UNCHANGED <<file, indexed, indexFile>>

Next ==
  \/ OpenFails \/ OpenObject \/ LoadIndex \/ BuildIndex
  \/ \E q \in Request :
       \/ Query(q)
       \/ LacksLevel(q) /\ QueryFails(q, "schema")
       \/ pc = "open" /\ ToRead(q) # <<>> /\ QueryFails(q, "parse")
  \/ \E p \in 1 .. Len(todo) : ReadGroup(p)
  \/ CollectFails \/ CollectRows \/ IndexDuplicate \/ IndexBuilt
  \/ Restart

Spec == Init /\ [][Next]_vars

-----------------------------------------------------------------------------
(* Properties. *)

\* The rows of the whole file, one after the other.
AllRows == RowsOf(file, Len(file.groups))

\* A store that opened holds every id of the file once, with the group its row
\* is in, and the level of the row where it kept levels: whether the map was
\* scanned now or loaded from an index file that an earlier process wrote, tore
\* or left from another version of the object.
IndexExact ==
  index # None =>
    /\ DOMAIN index = {AllRows[i].id : i \in 1 .. Len(AllRows)}
    /\ Cardinality(DOMAIN index) = Len(AllRows)
    /\ \A u \in DOMAIN index : \E i \in 1 .. NumRows(index[u]) :
         Rows(index[u])[i].id = u /\ (levels # None => levels[u] = Rows(index[u])[i].level)

\* A query that succeeds returns the rows of the file it is about, in the order
\* of the file and each once: skipped row groups hold none of them, groups
\* without statistics are read, an id asked for twice is returned once, and the
\* order in which concurrent reads end does not show.
AnswerExact ==
  pc = "open" /\ query # NoQuery /\ answer.err = None =>
    answer.rows = Answered(query, AllRows)

\* An invalid row is reported by its number in the file, the number is that of
\* a row with a fault in a column the query reads, and every faulty row before
\* it lies in a group that the query does not read; a duplicate id is one.
ErrorIsReal ==
  answer.err # None =>
    LET n == answer.err.at
        GroupOf(i) == CHOOSE g \in Groups :
          Len(RowsOf(file, g - 1)) < i /\ i <= Len(RowsOf(file, g))
    IN  CASE answer.err.kind = "invalid_row" ->
               /\ n + 1 \in 1 .. Len(AllRows) /\ Faulty(query, AllRows[n + 1])
               /\ \A i \in 1 .. n : Faulty(query, AllRows[i]) =>
                    \A p \in 1 .. Len(todo) : todo[p] # GroupOf(i)
          [] answer.err.kind = "duplicate" ->
               Cardinality({i \in 1 .. Len(AllRows) : AllRows[i].id = n}) > 1
          [] OTHER -> TRUE

\* What a query answers is right either way: rows when it succeeds, and the
\* row it blames when it fails (query_by_ids and query_by_bbox,
\* catchment_store.rs).
QueryExact == AnswerExact /\ ErrorIsReal

=============================================================================
