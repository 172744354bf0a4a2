-------------------------------- MODULE Cli --------------------------------
(***************************************************************************)
(* pourpoint delineate (src/main.rs): the outlets are parsed, the session  *)
(* opened, the batch delineated, and the outcome told on standard output,  *)
(* in a file and by the exit code. Any step may fail and the process may   *)
(* be killed; the file is overwritten in place. (export-snap is the module *)
(* SnapExport.)                                                            *)
(***************************************************************************)
EXTENDS Naturals, Sequences, FiniteSets

CONSTANTS
  Rows,    \* outlets of a CSV: an id, or None, and a fate: "ok", "fails" or "bad"
  MaxRows, \* bound on the rows of a CSV
  None

\* What the values of the constants are assumed to be.
CliAssumption ==
  /\ \A r \in Rows : r.fate \in {"ok", "fails", "bad"}
  /\ MaxRows \in Nat
  /\ None \notin {"success", "failure", "killed"}

VARIABLES
  args,    \* the command line: the outlets, --json, --output, a legal --snap-radius
  pc,      \* the next step of the process
  done,    \* outlets delineated, in the order they were finished
  stdout,  \* documents written to standard output
  file,    \* the output file: "absent", "old", "torn", or a feature collection
  exit     \* the exit code, or None while the process runs

vars == <<args, pc, done, stdout, file, exit>>

Invocations ==
  [given : {"coordinate", "csv", "nothing"}, rows : UNION {[1 .. n -> Rows] : n \in 0 .. MaxRows},
   json : BOOLEAN, output : BOOLEAN, radius : BOOLEAN]

\* --lat and --lon name one outlet without an id.
Sensible(a) == a.given # "csv" => Len(a.rows) = 1 /\ a.rows[1].id = None

Init ==
  /\ args \in {a \in Invocations : Sensible(a)}
  /\ pc = "parse" /\ done = <<>> /\ stdout = <<>>
  /\ file \in {[state |-> "absent", features |-> <<>>], [state |-> "old", features |-> <<>>]}
  /\ exit = None

\* The error arm of main: with --json the error follows on standard output
\* whatever is there already, unless that write fails too (its result is
\* dropped); otherwise it is logged.
Fails ==
  /\ \/ args.json /\ stdout' = Append(stdout, [kind |-> "error"])
     \/ UNCHANGED stdout
  /\ exit' = "failure" /\ pc' = "end"

\* parse_outlets: one bad row, or no row, refuses the whole file.
ParseOutlets ==
  /\ pc = "parse"
  /\ IF \/ args.given = "nothing"
        \/ args.rows = <<>>
        \/ \E i \in DOMAIN args.rows : args.rows[i].fate = "bad"
     THEN Fails
     ELSE pc' = "open" /\ UNCHANGED <<stdout, exit>>
  /\ UNCHANGED <<args, done, file>>

OpenSession ==
  /\ pc = "open"
  /\ Fails \/ (pc' = "options" /\ UNCHANGED <<stdout, exit>>)
  /\ UNCHANGED <<args, done, file>>

BuildOptions ==
  /\ pc = "options"
  /\ IF args.radius THEN pc' = "run" /\ UNCHANGED <<stdout, exit>> ELSE Fails
  /\ UNCHANGED <<args, done, file>>

Delineated == {done[k] : k \in DOMAIN done}

\* delineate_batch_uniform: in any order; a failure stops none of the others.
Delineate(i) ==
  /\ pc = "run" /\ i \in DOMAIN args.rows \ Delineated
  /\ done' = Append(done, i)
  /\ pc' = IF Len(done') < Len(args.rows) THEN "run" ELSE IF args.json THEN "envelope" ELSE "features"
  /\ UNCHANGED <<args, stdout, file, exit>>

\* The outlets that came to a fate: what the loop over the outcomes has kept
\* after the first i of them.
Select(fate) ==
  LET kept[i \in 0 .. Len(args.rows)] ==
        IF i = 0 THEN <<>>
        ELSE IF args.rows[i].fate = fate
        THEN Append(kept[i - 1], [id |-> args.rows[i].id, row |-> i])
        ELSE kept[i - 1]
  IN kept[Len(args.rows)]

\* Mutant: the features come in the order the outlets were finished.
FeaturesAsFinished ==
  LET chosen == SelectSeq(done, LAMBDA i : args.rows[i].fate = "ok")
  IN [k \in DOMAIN chosen |-> [id |-> args.rows[k].id, row |-> chosen[k]]]

\* build_feature_collection: the successes, in input order.
Features == Select("ok")

\* Mutant: only a batch without any success counts as failed.
AnyFailedAll == \A i \in DOMAIN args.rows : args.rows[i].fate = "fails"

AnyFailed == \E i \in DOMAIN args.rows : args.rows[i].fate = "fails"

Finish == exit' = (IF AnyFailed THEN "failure" ELSE "success") /\ pc' = "end"

Envelope ==
  [kind |-> "envelope", successes |-> Select("ok"), failures |-> Select("fails"),
   total |-> Len(args.rows)]

\* With --json the envelope comes first, the file after it.
WriteEnvelope ==
  /\ pc = "envelope"
  /\ \/ /\ stdout' = Append(stdout, Envelope)
        /\ IF args.output THEN pc' = "file" /\ UNCHANGED exit ELSE Finish
     \/ Fails
  /\ UNCHANGED <<args, done, file>>

\* Without --json the feature collection goes to the file or to stdout.
WriteFeatures ==
  /\ pc = "features"
  /\ IF args.output THEN pc' = "file" /\ UNCHANGED <<stdout, exit>>
     ELSE \/ stdout' = Append(stdout, [kind |-> "features", features |-> Features]) /\ Finish
          \/ Fails
  /\ UNCHANGED <<args, done, file>>

\* std::fs::write: the file cannot be created, or is truncated ...
CreateFile ==
  /\ pc = "file"
  /\ \/ /\ file' = [state |-> "torn", features |-> <<>>]
        /\ pc' = "fill" /\ UNCHANGED <<stdout, exit>>
     \/ Fails /\ UNCHANGED file
  /\ UNCHANGED <<args, done>>

\* ... and then written, or not.
FillFile ==
  /\ pc = "fill"
  /\ \/ file' = [state |-> "written", features |-> Features] /\ Finish /\ UNCHANGED stdout
     \/ Fails /\ UNCHANGED file
  /\ UNCHANGED <<args, done>>

\* The process is killed.
Kill ==
  /\ exit = None
  /\ exit' = "killed" /\ pc' = "end"
  /\ UNCHANGED <<args, done, stdout, file>>

Next ==
  \/ ParseOutlets \/ OpenSession \/ BuildOptions
  \/ \E i \in 1 .. MaxRows : Delineate(i)
  \/ WriteEnvelope \/ WriteFeatures \/ CreateFile \/ FillFile \/ Kill

Spec == Init /\ [][Next]_vars

-----------------------------------------------------------------------------

\* A feature collection holds the successful outlets, each once, with its own
\* id, in the order of the input; the envelope's two lists share the outlets
\* between them (write_output and build_feature_collection, main.rs:371-479).
OutputTellsTheBatch ==
  LET Faithful(list, fate) ==
        /\ \A j, k \in DOMAIN list : j < k => list[j].row < list[k].row
        /\ \A k \in DOMAIN list : list[k].id = args.rows[list[k].row].id
        /\ {list[k].row : k \in DOMAIN list} = {i \in DOMAIN args.rows : args.rows[i].fate = fate}
  IN /\ file.state = "written" => Faithful(file.features, "ok")
     /\ \A d \in DOMAIN stdout :
          CASE stdout[d].kind = "features" -> Faithful(stdout[d].features, "ok")
            [] stdout[d].kind = "envelope" -> /\ Faithful(stdout[d].successes, "ok")
                                              /\ Faithful(stdout[d].failures, "fails")
            [] OTHER -> TRUE

\* The process exits with success only when every outlet was delineated and
\* everything asked for is written in full: the file with --output, the
\* envelope with --json, the features on standard output with neither, and no
\* error beside them (main, main.rs:146-172).
SuccessIsComplete ==
  exit = "success" =>
    /\ \A i \in DOMAIN args.rows : args.rows[i].fate = "ok"
    /\ Delineated = DOMAIN args.rows
    /\ args.output => file.state = "written"
    /\ Len(stdout) = IF args.json \/ ~args.output THEN 1 ELSE 0

\* What is written and the exit code agree with what happened to the outlets
\* (write_output and main, main.rs).
OutputHonest == OutputTellsTheBatch /\ SuccessIsComplete

=============================================================================
