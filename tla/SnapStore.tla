----------------------------- MODULE SnapStore ------------------------------
(***************************************************************************)
(* The store over snap.parquet (crates/core/src/reader/snap_store.rs):     *)
(* opening it for its metadata only or with the cold membership scan,      *)
(* queries by bounding box with several row groups in flight, and reading  *)
(* back the membership.                                                    *)
(***************************************************************************)
EXTENDS SnapRows

CONSTANTS
  File,                    \* the files considered
  QueryBox,                \* the boxes queried
  MembershipConcurrency,   \* LEAN_VALIDATION_ROW_GROUP_CONCURRENCY
  BboxConcurrency          \* SNAP_BBOX_ROW_GROUP_CONCURRENCY

\* What the values of the constants are assumed to be.
SnapStoreAssumption ==
  /\ LimitX % 2 = 0 /\ LimitY % 2 = 0
  /\ NoneIsNoError /\ None \notin Rect /\ None \notin Seq([id : Nat, unit : Nat])
  /\ \A f \in File : f \in SnapFile
  /\ \A b \in QueryBox : b \in Rect /\ Single(b)
  /\ MembershipConcurrency \in Nat \ {0} /\ BboxConcurrency \in Nat \ {0}

VARIABLES
  file,    \* the file behind the store
  mode,    \* SnapOpenMode
  pc,      \* the stage of the open or of the query
  boxes,   \* row_groups and groups_without_stats
  refs,    \* SnapRefsState: the membership, or None
  query,   \* the box queried, or None
  todo,    \* the row groups read, in file order
  done,    \* what the reads that ended returned, by position in todo
  answer   \* the rows or the error returned

vars == <<file, mode, pc, boxes, refs, query, todo, done, answer>>

NoAnswer == [err |-> None, rows |-> <<>>]

Error(kind) == [err |-> [kind |-> kind, at |-> None], rows |-> <<>>]

Init ==
  /\ file \in File /\ mode \in {"lazy", "membership"}
  /\ pc = "head" /\ boxes = <<>> /\ refs = None
  /\ query = None /\ todo = <<>> /\ done = <<>> /\ answer = NoAnswer

-----------------------------------------------------------------------------

\* The HEAD request, the footer and the required columns.
OpenFails ==
  /\ pc = "head" /\ pc' = "failed"
  /\ answer' \in {Error("io"), Error("parse")} \cup (IF file.schema THEN {} ELSE {Error("schema")})
  /\ UNCHANGED <<file, mode, boxes, refs, query, todo, done>>

\* open_object; the cold mode goes on with the scan of (id, unit_id).
OpenObject ==
  /\ pc = "head" /\ file.schema
  /\ boxes' = GroupBoxes(file)
  /\ IF mode = "lazy"
       THEN pc' = "open" /\ UNCHANGED todo
       ELSE pc' = "reading" /\ todo' = InOrder(1 .. Len(file.groups), Len(file.groups))
  /\ UNCHANGED <<file, mode, refs, query, done, answer>>

\* read_snap_membership_refs_row_group_async: of the nulls those of id and
\* unit_id, the columns it reads.
Membership(g) ==
  LET rows == file.groups[g].rows
      faults == {i \in 1 .. Len(rows) : rows[i].bad \cap {"null", "id", "unit"} # {}}
  IN  IF faults = {} THEN [err |-> None, rows |-> rows]
      ELSE [err |-> [kind |-> "invalid_row", at |-> AbsoluteRowStart(file, g) + Min(faults) - 1],
            rows |-> <<>>]

\* query_by_bbox_async: the candidates, and nothing to read without any.
Query(b) ==
  /\ pc = "open"
  /\ query' = b /\ todo' = InOrder(Matching(boxes, b), Len(boxes)) /\ done' = <<>>
  /\ \/ Matching(boxes, b) # {} /\ pc' = "reading" /\ answer' = NoAnswer
     \/ Matching(boxes, b) # {} /\ pc' = "open" /\ answer' = Error("parse")
     \/ Matching(boxes, b) = {} /\ pc' = "open" /\ answer' = NoAnswer
  /\ UNCHANGED <<file, mode, boxes, refs>>

Scanning == query = None

Width == IF Scanning THEN MembershipConcurrency ELSE BboxConcurrency

\* `buffered` hands results on in order: it keeps Width futures past the first
\* one that is pending.
Handed == Min({p \in 1 .. Len(todo) + 1 : p \notin DOMAIN done}) - 1

\* read_snap_bbox_row_group_async, or the membership read; or it fails.
ReadGroup(p) ==
  /\ pc = "reading" /\ p \notin DOMAIN done /\ p <= Handed + Width
  /\ \E r \in {IF Scanning THEN Membership(todo[p])
               ELSE Extract(file, [by |-> "bbox", box |-> query],
                            file.groups[todo[p]].rows, AbsoluteRowStart(file, todo[p])),
               [err |-> [kind |-> "read", at |-> todo[p]], rows |-> <<>>]} :
       done' = [i \in DOMAIN done \cup {p} |-> IF i = p THEN r ELSE done[i]]
  /\ UNCHANGED <<file, mode, pc, boxes, refs, query, todo, answer>>

\* The results in the order of the groups: the first error, or all rows.
Collected ==
  LET failed == {p \in DOMAIN done : done[p].err # None}
  IN  IF failed # {} THEN done[Min(failed)]
      ELSE [err |-> None, rows |-> Joined([p \in 1 .. Len(todo) |-> done[p].rows])]

CollectMembership ==
  /\ pc = "reading" /\ Scanning /\ DOMAIN done = 1 .. Len(todo)
  /\ IF Collected.err = None
       THEN /\ refs' = [i \in 1 .. Len(Collected.rows) |->
                          [id |-> Collected.rows[i].id, unit |-> Collected.rows[i].unit]]
            /\ pc' = "open" /\ UNCHANGED answer
       ELSE pc' = "failed" /\ answer' = Collected /\ UNCHANGED refs
  /\ todo' = <<>> /\ done' = <<>>
  /\ UNCHANGED <<file, mode, boxes, query>>

CollectRows ==
  /\ pc = "reading" /\ ~Scanning /\ DOMAIN done = 1 .. Len(todo)
  /\ answer' = Collected
  /\ pc' = "open" /\ todo' = <<>> /\ done' = <<>>
  /\ UNCHANGED <<file, mode, boxes, refs, query>>

\* read_all_unit_ids and read_all_snap_refs.
ReadRefs ==
  /\ pc = "open" /\ query = None
  /\ answer' = IF refs = None THEN Error("refs_not_loaded") ELSE [err |-> None, rows |-> refs]
  /\ UNCHANGED <<file, mode, pc, boxes, refs, query, todo, done>>

Next ==
  \/ OpenFails \/ OpenObject
  \/ \E b \in QueryBox : Query(b)
  \/ \E p \in 1 .. Len(todo) : ReadGroup(p)
  \/ CollectMembership \/ CollectRows \/ ReadRefs

Spec == Init /\ [][Next]_vars

-----------------------------------------------------------------------------
(* Properties. *)

Answered == pc = "open" /\ query # None /\ answer.err = None

\* query_by_bbox misses no target: a successful query returns, in file order and
\* once each, rows whose box meets the query, and among them every row whose
\* box meets it before padding: groups with null boxes, without statistics or
\* with an envelope that is empty on an axis are never skipped.
NoTargetMissed ==
  Answered =>
    LET rows == AllRows(file)
        hits == {i \in 1 .. Len(rows) : Intersects(RowBbox(file, rows[i]), query)}
        raw == {i \in 1 .. Len(rows) : Intersects(RawBbox(file, rows[i]), query)}
    IN  \E P \in SUBSET hits : raw \subseteq P /\ answer.rows = Picked(rows, P)

\* A store opened with the membership scan holds the (id, unit_id) of every row
\* in file order, whatever order the row groups arrive in, and no store opens on
\* a file with a row the scan must refuse; the lazy mode never serves refs.
MembershipExact ==
  /\ refs # None =>
       /\ mode = "membership"
       /\ refs = [i \in 1 .. Len(AllRows(file)) |->
                    [id |-> AllRows(file)[i].id, unit |-> AllRows(file)[i].unit]]
       /\ \A i \in 1 .. Len(AllRows(file)) : AllRows(file)[i].bad \cap {"null", "id", "unit"} = {}
  /\ pc = "open" /\ mode = "membership" => refs # None
  /\ pc = "failed" /\ answer.err.kind = "invalid_row" =>
       /\ answer.err.at < Len(AllRows(file))
       /\ AllRows(file)[answer.err.at + 1].bad \cap {"null", "id", "unit"} # {}
       /\ \A i \in 1 .. answer.err.at : AllRows(file)[i].bad \cap {"null", "id", "unit"} = {}

\* The two ways the resolver and the validation see the targets, the query by
\* box and the membership scan, both show the file as it is (query_by_bbox and
\* read_all_snap_membership_refs, snap_store.rs).
SnapAnswersExact == NoTargetMissed /\ MembershipExact

=============================================================================
