----------------------------- MODULE SnapExport -----------------------------
(***************************************************************************)
(* Extracting snap targets: the selection of declared sets and the stream  *)
(* over their files (crates/core/src/snap_targets.rs, SnapStore::visit),   *)
(* the GeoPackage writer (crates/gdal/src/snap_export.rs) and the callers  *)
(* that publish its file (src/main.rs, crates/python/src/snap_targets.rs), *)
(* or collect a GeoDataFrame.                                              *)
(*                                                                         *)
(* A case is a manifest's snap declarations with their files, the scope,   *)
(* the requested set and the sink.  The output path holds Old at first.    *)
(***************************************************************************)
EXTENDS SnapRows

CONSTANTS
  Case,       \* the exports considered
  BatchRows,  \* rows of a decoded batch (8192)
  Old         \* what the output path holds at first

\* A declaration: readable is false for a schema this version does not read,
\* escapes when its path leaves the dataset's root.
Decl == [name : STRING, readable : BOOLEAN, escapes : BOOLEAN, file : SnapFile]

IsExportCase(c) ==
  /\ c.sink \in {"package", "frame"}
  /\ c.decls \in Seq(Decl)
  /\ \A n \in 1 .. Len(c.decls) : \A g \in 1 .. Len(c.decls[n].file.groups) :
       \A i \in 1 .. Len(c.decls[n].file.groups[g].rows) : Honest(c.decls[n].file.groups[g].rows[i])
  /\ c.scope = All \/ (c.scope \in Rect /\ c.scope.x0 < c.scope.x1 /\ c.scope.y0 < c.scope.y1)

\* What the values of the constants are assumed to be.
SnapExportAssumption ==
  /\ LimitX % 2 = 0 /\ LimitY % 2 = 0
  /\ NoneIsNoError
  /\ \A c \in Case : IsExportCase(c)
  /\ BatchRows \in Nat \ {0}

VARIABLES
  case,     \* the export
  pc,       \* the stage of run_export_snap
  stores,   \* the declarations opened
  todo,     \* the row groups of the current store still to visit
  offset,   \* rows of the current row group already decoded
  batch,    \* the rows of the decoded batch not yet handed to the callback
  layers,   \* the rows in the GeoPackage, by set and kind of geometry
  frame,    \* the rows collected for a GeoDataFrame, with their sets
  temp,     \* the temporary file: "none", "open" or "closed"
  output,   \* what the output path holds
  error     \* the error returned

vars == <<case, pc, stores, todo, offset, batch, layers, frame, temp, output, error>>

Init ==
  /\ case \in Case
  /\ pc = "select" /\ stores = <<>> /\ todo = <<>> /\ offset = 0 /\ batch = <<>>
  /\ layers = <<>> /\ frame = <<>> /\ temp = "none" /\ output = Old /\ error = None

\* An error drops the temporary directory.
FailAt(kind, row) ==
  /\ pc' = "failed" /\ error' = [kind |-> kind, at |-> row] /\ temp' = "none"
  /\ UNCHANGED <<case, stores, todo, offset, batch, layers, frame, output>>

Fail(kind) == FailAt(kind, None)

-----------------------------------------------------------------------------
(* SnapTargets::open. *)

Readable == Picked(case.decls, {i \in 1 .. Len(case.decls) : case.decls[i].readable})

Names == {Readable[i].name : i \in 1 .. Len(Readable)}

Requested(d) == case.set = None \/ case.set = d.name

Unsupported ==
  \E i \in 1 .. Len(case.decls) : ~case.decls[i].readable /\ Requested(case.decls[i])

SelectFails ==
  /\ pc = "select"
  /\ \/ Fail("manifest")
     \/ Unsupported /\ Fail("unsupported")
     \/ ~Unsupported /\ Cardinality(Names) # Len(Readable) /\ Fail("duplicate")
     \/ /\ ~Unsupported /\ Cardinality(Names) = Len(Readable)
        /\ \/ case.set # None /\ case.set \notin Names /\ Fail("unknown_set")
           \/ case.set = None /\ Names = {} /\ Fail("no_declarations")

Select ==
  /\ pc = "select" /\ ~Unsupported /\ Cardinality(Names) = Len(Readable)
  /\ IF case.set = None THEN Names # {} ELSE case.set \in Names
  /\ pc' = "opening"
  /\ UNCHANGED <<frame, case, stores, todo, offset, batch, layers, temp, output, error>>

Selected == Picked(Readable, {i \in 1 .. Len(Readable) : Requested(Readable[i])})

\* One declaration: its path is checked and its footer read.
OpenStore ==
  /\ pc = "opening" /\ Len(stores) < Len(Selected)
  /\ LET d == Selected[Len(stores) + 1]
     IN  \/ d.escapes /\ Fail("path_escape")
         \/ ~d.escapes /\ Fail("artifact_read")
         \/ /\ ~d.escapes /\ d.file.schema
            /\ stores' = Append(stores, [name |-> d.name, file |-> d.file, boxes |-> GroupBoxes(d.file)])
            /\ UNCHANGED <<frame, case, pc, todo, offset, batch, layers, temp, output, error>>

-----------------------------------------------------------------------------
(* The caller and SnapGeoPackage::new. *)

CreateFails ==
  /\ pc = "opening" /\ Len(stores) = Len(Selected) /\ case.sink = "package"
  /\ Fail("gdal")

Layers == {Selected[i].name : i \in 1 .. Len(Selected)} \X {"point", "line"}

Cursor(s) == InOrder(Visited(s.boxes, case.scope), Len(s.boxes))

\* Two empty layers per set, then BEGIN; the visit starts with the first set.
Create ==
  /\ pc = "opening" /\ Len(stores) = Len(Selected) /\ case.sink = "package"
  /\ temp' = "open"
  /\ layers' = [k \in Layers |-> <<>>]
  /\ pc' = "visiting"
  /\ todo' = Cursor(stores[1]) /\ offset' = 0 /\ batch' = <<>>
  /\ UNCHANGED <<frame, case, stores, output, error>>

\* to_geodataframe collects the rows in memory.
StartFrame ==
  /\ pc = "opening" /\ Len(stores) = Len(Selected) /\ case.sink = "frame"
  /\ pc' = "visiting" /\ todo' = Cursor(stores[1]) /\ offset' = 0 /\ batch' = <<>>
  /\ UNCHANGED <<frame, case, stores, layers, temp, output, error>>

-----------------------------------------------------------------------------
(* SnapTargets::visit: stores is the remaining declarations. *)

Current == Head(stores)

GroupRows == Current.file.groups[Head(todo)].rows

InGroup == pc = "visiting" /\ stores # <<>> /\ todo # <<>> /\ batch = <<>>

VisitFails == InGroup /\ Fail("artifact_read")

\* The next batch of the row group: an invalid row in it fails the visit before
\* any of the batch's rows reaches the callback.
ReadBatch ==
  /\ InGroup /\ offset < Len(GroupRows)
  /\ LET last == Min({offset + BatchRows, Len(GroupRows)})
         got == Extract(Current.file, [by |-> "geometry", scope |-> case.scope],
                        SubSeq(GroupRows, offset + 1, last),
                        AbsoluteRowStart(Current.file, Head(todo)) + offset)
     IN  IF got.err # None THEN FailAt(got.err.kind, got.err.at)
         ELSE /\ batch' = got.rows /\ offset' = last
              /\ UNCHANGED <<frame, case, pc, stores, todo, layers, temp, output, error>>

NextGroup ==
  /\ InGroup /\ offset = Len(GroupRows)
  /\ todo' = Tail(todo) /\ offset' = 0
  /\ UNCHANGED <<frame, case, pc, stores, batch, layers, temp, output, error>>

NextStore ==
  /\ pc = "visiting" /\ stores # <<>> /\ todo = <<>> /\ batch = <<>>
  /\ stores' = Tail(stores)
  /\ todo' = IF Len(stores) > 1 THEN Cursor(stores[2]) ELSE <<>>
  /\ UNCHANGED <<frame, case, pc, offset, batch, layers, temp, output, error>>

\* SnapGeoPackage::write.
Write ==
  /\ pc = "visiting" /\ batch # <<>> /\ case.sink = "package"
  /\ \/ Fail("gdal")
     \/ /\ layers' = [layers EXCEPT ![<<Current.name, Head(batch).kind>>] = Append(@, Head(batch))]
        /\ batch' = Tail(batch)
        /\ UNCHANGED <<frame, case, pc, stores, todo, offset, temp, output, error>>

PushRow ==
  /\ pc = "visiting" /\ batch # <<>> /\ case.sink = "frame"
  /\ frame' = Append(frame, [set |-> Current.name, row |-> Head(batch)]) /\ batch' = Tail(batch)
  /\ UNCHANGED <<case, pc, stores, todo, offset, layers, temp, output, error>>

\* finish: COMMIT, flush and close.
Finish ==
  /\ pc = "visiting" /\ stores = <<>> /\ case.sink = "package"
  /\ \/ Fail("gdal")
     \/ /\ temp' = "closed" /\ pc' = "publish"
        /\ UNCHANGED <<frame, case, stores, todo, offset, batch, layers, output, error>>

\* The rename onto the output path.
Publish ==
  /\ pc = "publish"
  /\ \/ Fail("rename")
     \/ /\ output' = layers /\ temp' = "none" /\ pc' = "done"
        /\ UNCHANGED <<frame, case, stores, todo, offset, batch, layers, error>>

\* The columns of the frame are filled row by row, in step.
FinishFrame ==
  /\ pc = "visiting" /\ stores = <<>> /\ case.sink = "frame"
  /\ pc' = "done" /\ output' = frame
  /\ UNCHANGED <<frame, case, stores, todo, offset, batch, layers, temp, error>>

\* The process is killed: the temporary directory stays behind.
Crash ==
  /\ pc \notin {"done", "failed"} /\ pc' = "crashed"
  /\ UNCHANGED <<frame, case, stores, todo, offset, batch, layers, temp, output, error>>

Next ==
  \/ SelectFails \/ Select \/ OpenStore \/ CreateFails \/ Create \/ StartFrame
  \/ VisitFails \/ ReadBatch \/ NextGroup \/ NextStore \/ Write \/ PushRow
  \/ Finish \/ Publish \/ FinishFrame \/ Crash

Spec == Init /\ [][Next]_vars

-----------------------------------------------------------------------------
(* Properties. *)

Expected(name, kind) ==
  LET n == CHOOSE i \in 1 .. Len(Selected) : Selected[i].name = name
      rows == AllRows(Selected[n].file)
  IN  Picked(rows, {i \in 1 .. Len(rows) : rows[i].kind = kind /\ InScope(case.scope, rows[i])})

ExpectedFrame ==
  Joined([n \in 1 .. Len(Selected) |->
    LET all == AllRows(Selected[n].file)
        rows == Picked(all, {i \in 1 .. Len(all) : InScope(case.scope, all[i])})
    IN  [j \in 1 .. Len(rows) |-> [set |-> Selected[n].name, row |-> rows[j]]]])

\* The output path holds what it held, or a file with exactly the targets of the
\* selected sets whose float64 geometry meets the extent, in file order, each in
\* the layer of its kind: no error, kill, invalid row or skipped row group makes
\* it publish less, and the rounding of the statistics to float32 hides no target
\* at the edge.  A GeoDataFrame has the same rows, set by set.
ExportComplete ==
  output # Old =>
    IF case.sink = "frame" THEN output = ExpectedFrame
    ELSE DOMAIN output = Layers /\ \A k \in Layers : output[k] = Expected(k[1], k[2])

=============================================================================
