-------------------------- MODULE DelineateProofs --------------------------
(***************************************************************************)
(* Proofs about a batch of delineations, for any number of calls, units    *)
(* and D8 declarations.                                                    *)
(***************************************************************************)
EXTENDS Delineate, SequenceTheorems, TLAPS

(***************************************************************************)
(* The strengthening that is inductive, one call at a time.  A call reads  *)
(* of the others only what they put in the window store, and the store     *)
(* grows, so that another call's step keeps every part.                    *)
(***************************************************************************)
Selecting == {"prepare", "mode", "bounds", "select"}

Reading == {"flow_dir", "flow_acc", "carve"}

Stages(c) ==
  /\ pc[c] \in Selecting \cup Reading \cup {"selected"} =>
       verdict[c] = "none" /\ outcome[c] = "none"
  /\ pc[c] = "decide" => verdict[c] # "none" /\ outcome[c] = "none"
  /\ pc[c] = "dissolve" => outcome[c] # "none"
  /\ pc[c] # "returned" => answer[c] = "none"
  /\ pc[c] \notin {"prepare", "mode", "dissolve", "returned"} =>
       input[c].mode # "disabled"

\* What a mode may end with.
Modes(c) ==
  /\ answer[c] \in RefinementFailure => input[c].mode = "require_d8"
  /\ input[c].mode = "require_d8" => outcome[c] \in {"none", "applied"}
  /\ answer[c] = "ok" => outcome[c] # "none" /\ pieces[c] = Geometries(c)

\* The loop of the selection: the first covering declaration among those seen.
Selection(c) ==
  /\ pos[c] <= Len(engine.d8) + 1
  /\ \A i \in 1 .. pos[c] - 1 : engine.d8[i].crs \in Crs
  /\ Len(covering[c]) > 0 => /\ Selected(c) \in 1 .. pos[c] - 1
                             /\ Covers(c, Selected(c))
  /\ \A i \in 1 .. pos[c] - 1 :
       Covers(c, i) => Len(covering[c]) > 0 /\ Selected(c) <= i

\* What the verdict says about the selection and the engine.
Verdicts(c) ==
  /\ pc[c] \in Reading \cup {"selected"} => Len(covering[c]) > 0
  /\ verdict[c] \in {"applied", "no_raster_source", "tile_mismatch"} =>
       Len(covering[c]) > 0
  /\ verdict[c] \in {"no_covering_tile", "spans_tiles"} =>
       Len(covering[c]) = 0 /\ pos[c] > Len(engine.d8)
  /\ pc[c] \in Reading => engine.source
  /\ verdict[c] = "tile_mismatch" => engine.source
  /\ verdict[c] = "no_raster_source" => ~engine.source
  /\ verdict[c] = "crs_unsupported" =>
       \E i \in 1 .. Len(engine.d8) : engine.d8[i].crs \in BadCrs

\* What the outcome says about the verdict and the engine.
Outcomes(c) ==
  /\ outcome[c] = "applied" => verdict[c] = "applied"
  /\ outcome[c] = "no_raster_source" => verdict[c] = "no_raster_source"
  /\ outcome[c] = "mis_declaration" => verdict[c] \in MisDeclaration
  /\ outcome[c] \in {"no_d8_aux", "coarse_unit_only"} => ~HasD8Aux /\ ~engine.unreadable
  /\ outcome[c] = "unreadable_d8_aux" => ~HasD8Aux /\ engine.unreadable

\* The windows a remote call has been given.
Localized(c) ==
  /\ status[c] = "pending" =>
       engine.remote /\ pc[c] \in Kind /\ want[c] = WindowOf(c, pc[c])
  /\ engine.remote =>
       /\ pc[c] \in {"flow_acc", "carve"} => WindowOf(c, "flow_dir") \in stored
       /\ pc[c] = "carve" => WindowOf(c, "flow_acc") \in stored
       /\ verdict[c] = "applied" => \A kind \in Kind : WindowOf(c, kind) \in stored

CallInv(c) == /\ Modes(c)
              /\ Selection(c)
              /\ Verdicts(c)
              /\ Outcomes(c)
              /\ Localized(c)

StagesInv == \A c \in Call : Stages(c)

BatchInv == \A c \in Call : CallInv(c)

-----------------------------------------------------------------------------
(* Types and stages. *)

\* The strategy's stages: those a verdict is reached from.
InStrategy == {"bounds", "select", "selected"} \cup Reading

\* A step that ends the strategy with a verdict.
LEMMA StagesDecide ==
  ASSUME BatchTypeOK, StagesInv, NEW c \in Call, NEW from \in InStrategy,
         NEW v \in StrategyError \cup {"applied", "no_raster_source"},
         Decide(c, from, v),
         UNCHANGED <<engine, input, pos, intersecting, covering, outcome, pieces, answer>>,
         status' \in [Call -> {"idle", "pending", "ok", "err"}]
  PROVE  BatchTypeOK' /\ StagesInv'
<1>1. /\ pc[c] = from /\ pc' = [pc EXCEPT ![c] = "decide"]
      /\ verdict' = [verdict EXCEPT ![c] = v]
  BY DEF Decide, Goto
<1>2. v # "none"
  BY DEF StrategyError, Availability, MisDeclaration, DataGeometryIntegrity
<1>3. BatchTypeOK'
  BY <1>1 DEF BatchTypeOK, Stage
<1>4. ASSUME NEW d \in Call PROVE Stages(d)'
  <2>1. CASE d = c
    BY <1>1, <1>2, <2>1 DEF BatchTypeOK, StagesInv, Stages, Selecting, Reading, InStrategy
  <2>2. CASE d # c
    BY <1>1, <2>2 DEF BatchTypeOK, StagesInv, Stages
  <2> QED
    BY <2>1, <2>2
<1> QED
  BY <1>3, <1>4 DEF StagesInv

\* A step from one stage of the strategy to another.
LEMMA StagesMove ==
  ASSUME BatchTypeOK, StagesInv, NEW c \in Call,
         NEW from \in InStrategy, NEW to \in InStrategy, Goto(c, from, to),
         UNCHANGED <<engine, input, verdict, outcome, pieces, answer>>,
         pos' \in [Call -> Nat \ {0}],
         intersecting' \in [Call -> Seq(Nat \ {0})],
         covering' \in [Call -> Seq(Nat \ {0})],
         status' \in [Call -> {"idle", "pending", "ok", "err"}]
  PROVE  BatchTypeOK' /\ StagesInv'
<1>1. BatchTypeOK'
  BY DEF BatchTypeOK, Stage, Goto, InStrategy, Reading
<1>2. ASSUME NEW d \in Call PROVE Stages(d)'
  <2>1. CASE d = c
    BY <2>1 DEF BatchTypeOK, StagesInv, Stages, Selecting, Reading, InStrategy, Goto
  <2>2. CASE d # c
    BY <2>2 DEF BatchTypeOK, StagesInv, Stages, Goto
  <2> QED
    BY <2>1, <2>2
<1> QED
  BY <1>1, <1>2 DEF StagesInv

\* A step that makes the outcome known.
LEMMA StagesRefined ==
  ASSUME BatchTypeOK, StagesInv, NEW c \in Call, NEW from \in {"mode", "decide"},
         NEW o \in Skip \cup {"disabled", "applied"}, Refined(c, from, o),
         UNCHANGED <<engine, input, pos, intersecting, covering, verdict, pieces,
                     answer, status>>
  PROVE  BatchTypeOK' /\ StagesInv'
<1>1. o # "none"
  BY DEF Skip
<1>2. BatchTypeOK'
  BY DEF BatchTypeOK, Stage, Goto, Refined
<1>3. ASSUME NEW d \in Call PROVE Stages(d)'
  <2>1. CASE d = c
    BY <1>1, <2>1 DEF BatchTypeOK, StagesInv, Stages, Selecting, Reading, Goto, Refined
  <2>2. CASE d # c
    BY <2>2 DEF BatchTypeOK, StagesInv, Stages, Goto, Refined
  <2> QED
    BY <2>1, <2>2
<1> QED
  BY <1>2, <1>3 DEF StagesInv

\* A step that returns.
LEMMA StagesReturn ==
  ASSUME BatchTypeOK, StagesInv, NEW c \in Call, NEW from,
         NEW a \in RefinementFailure \cup {"prepare", "assembly", "ok"},
         Return(c, from, a),
         UNCHANGED <<engine, input, pos, intersecting, covering, verdict, outcome, status>>,
         pieces' \in [Call -> SUBSET (Unit \X {"whole", "carved"})]
  PROVE  BatchTypeOK' /\ StagesInv'
<1>1. BatchTypeOK'
  BY DEF BatchTypeOK, Stage, Goto, Return
<1>2. ASSUME NEW d \in Call PROVE Stages(d)'
  <2>1. CASE d = c
    BY <2>1 DEF BatchTypeOK, StagesInv, Stages, Selecting, Reading, Goto, Return
  <2>2. CASE d # c
    BY <2>2 DEF BatchTypeOK, StagesInv, Stages, Goto, Return
  <2> QED
    BY <2>1, <2>2
<1> QED
  BY <1>1, <1>2 DEF StagesInv

\* Every step of the batch keeps the types of the calls and their stages.
LEMMA StagesStep ==
  ASSUME BatchTypeOK, StagesInv, [Next]_vars
  PROVE  BatchTypeOK' /\ StagesInv'
<1> DEFINE Statuses == [Call -> {"idle", "pending", "ok", "err"}]
<1> USE DEF local, cache
<1>1. ASSUME NEW c \in Call, Prepare(c) PROVE BatchTypeOK' /\ StagesInv'
  <2>1. BatchTypeOK'
    BY <1>1 DEF Prepare, Goto, BatchTypeOK, Stage
  <2>2. StagesInv'
    BY <1>1 DEF Prepare, Goto, BatchTypeOK, StagesInv, Stages, Selecting
  <2> QED
    BY <2>1, <2>2
<1>2. ASSUME NEW c \in Call, PrepareFails(c) PROVE BatchTypeOK' /\ StagesInv'
  <2>1. pieces' \in [Call -> SUBSET (Unit \X {"whole", "carved"})]
    BY <1>2 DEF PrepareFails, BatchTypeOK
  <2> QED
    BY <1>2, <2>1, StagesReturn DEF PrepareFails
<1>3. ASSUME NEW c \in Call, ChooseMode(c) PROVE BatchTypeOK' /\ StagesInv'
  <2>1. CASE \E o \in Skip \cup {"disabled"} : Refined(c, "mode", o) /\ UNCHANGED answer
    <3>1. PICK o \in Skip \cup {"disabled"} : Refined(c, "mode", o) /\ UNCHANGED answer
      BY <2>1
    <3> QED
      BY <1>3, <3>1, StagesRefined DEF ChooseMode
  <2>2. CASE Return(c, "mode", "missing_required_d8") /\ UNCHANGED outcome
    <3>1. pieces' \in [Call -> SUBSET (Unit \X {"whole", "carved"})]
      BY <1>3 DEF ChooseMode, BatchTypeOK
    <3>2. "missing_required_d8" \in RefinementFailure
      BY DEF RefinementFailure
    <3> QED
      BY <1>3, <2>2, <3>1, <3>2, StagesReturn DEF ChooseMode
  <2>3. CASE Goto(c, "mode", "bounds") /\ UNCHANGED <<outcome, answer>>
             /\ input[c].mode # "disabled"
    <3>1. BatchTypeOK'
      BY <1>3, <2>3 DEF ChooseMode, Goto, BatchTypeOK, Stage
    <3>2. ASSUME NEW d \in Call PROVE Stages(d)'
      <4>1. CASE d = c
        BY <1>3, <2>3, <4>1 DEF ChooseMode, Goto, BatchTypeOK, StagesInv, Stages, Selecting
      <4>2. CASE d # c
        BY <1>3, <2>3, <4>2 DEF ChooseMode, Goto, BatchTypeOK, StagesInv, Stages
      <4> QED
        BY <4>1, <4>2
    <3> QED
      BY <3>1, <3>2 DEF StagesInv
  <2>4. NoD8Reason(c) \in Skip
    BY DEF NoD8Reason, Skip
  <2> QED
    BY <1>3, <2>1, <2>2, <2>3, <2>4 DEF ChooseMode
<1>4. ASSUME NEW c \in Call, Strategy(c) PROVE BatchTypeOK' /\ StagesInv'
  <2>0. /\ pos \in [Call -> Nat \ {0}] /\ status \in Statuses
        /\ intersecting \in [Call -> Seq(Nat \ {0})]
        /\ covering \in [Call -> Seq(Nat \ {0})]
    BY DEF BatchTypeOK
  <2> USE DEF InStrategy, Reading
  <2>1. CASE Bounds(c)
    BY <2>0, <2>1, StagesDecide, StagesMove
       DEF Bounds, StrategyError, DataGeometryIntegrity
  <2>2. CASE SelectBadCrs(c) \/ SelectExtentFails(c)
    BY <2>0, <2>2, StagesDecide
       DEF SelectBadCrs, SelectExtentFails, StrategyError, MisDeclaration, Availability
  <2>3. CASE SelectDeclaration(c)
    <3>1. Goto(c, "select", "select")
      BY <2>3 DEF SelectDeclaration, AtDeclaration, Goto, BatchTypeOK
    <3>2. pos' \in [Call -> Nat \ {0}]
      BY <2>0, <2>3 DEF SelectDeclaration
    <3>3. intersecting' \in [Call -> Seq(Nat \ {0})] /\ covering' \in [Call -> Seq(Nat \ {0})]
      BY <2>0, <2>3, AppendProperties DEF SelectDeclaration
    <3> QED
      BY <2>0, <2>3, <3>1, <3>2, <3>3, StagesMove DEF SelectDeclaration
  <2>4. CASE SelectEnd(c)
    BY <2>0, <2>4, StagesDecide, StagesMove DEF SelectEnd, StrategyError, Availability
  <2>5. CASE RasterSource(c)
    BY <2>0, <2>5, StagesDecide, StagesMove DEF RasterSource
  <2>6. ASSUME NEW kind \in Kind,
               LocalizeInPlace(c, kind) \/ LocalizeAsk(c, kind) \/ LocalizeOk(c, kind)
                 \/ LocalizeFails(c, kind)
        PROVE  BatchTypeOK' /\ StagesInv'
    <3>1. kind \in InStrategy /\ Following(kind) \in InStrategy
      BY DEF Kind, Following
    <3>2. CASE LocalizeInPlace(c, kind)
      BY <2>0, <3>1, <3>2, StagesMove DEF LocalizeInPlace
    <3>3. CASE LocalizeAsk(c, kind)
      <4>1. Goto(c, kind, kind) /\ status' \in Statuses
        BY <2>0, <3>3 DEF LocalizeAsk, Goto, BatchTypeOK, Windows!Begin
      <4> QED
        BY <2>0, <3>1, <3>3, <4>1, StagesMove DEF LocalizeAsk
    <3>4. CASE LocalizeOk(c, kind)
      <4>1. status' \in Statuses
        BY <2>0, <3>4 DEF LocalizeOk, Windows!EndOk
      <4> QED
        BY <2>0, <3>1, <3>4, <4>1, StagesMove DEF LocalizeOk
    <3>5. CASE LocalizeFails(c, kind)
      <4>1. status' \in Statuses
        BY <2>0, <3>5 DEF LocalizeFails, Windows!EndErr
      <4> QED
        BY <2>0, <3>1, <3>5, <4>1, StagesDecide
           DEF LocalizeFails, StrategyError, Availability
    <3> QED
      BY <2>6, <3>2, <3>3, <3>4, <3>5
  <2>7. CASE LocalizeStore(c)
    BY <2>7 DEF LocalizeStore, Windows!Store, BatchTypeOK, StagesInv, Stages
  <2>8. CASE Carve(c)
    <3>1. PICK v \in {"applied", "raster_unread", "tile_mismatch", "carve_failed"} :
            Decide(c, "carve", v)
      BY <2>8 DEF Carve
    <3>2. v \in StrategyError \cup {"applied", "no_raster_source"}
      BY DEF StrategyError, Availability, MisDeclaration, DataGeometryIntegrity
    <3> QED
      BY <2>0, <2>8, <3>1, <3>2, StagesDecide DEF Carve
  <2> QED
    BY <1>4, <2>1, <2>2, <2>3, <2>4, <2>5, <2>6, <2>7, <2>8 DEF Strategy
<1>5. ASSUME NEW c \in Call, ApplyVerdict(c) PROVE BatchTypeOK' /\ StagesInv'
  <2>1. verdict[c] \in StrategyError \cup {"applied", "no_raster_source"}
    BY <1>5 DEF ApplyVerdict, Refined, Return, Goto, BatchTypeOK, StagesInv, Stages
  <2>2. verdict[c] # "applied" => BestEffortSkipReason(verdict[c]) \in Skip
    BY <2>1 DEF BestEffortSkipReason, Skip, StrategyError
  <2>3. FailureOf(verdict[c]) \in RefinementFailure
    BY DEF FailureOf, RefinementFailure
  <2>4. pieces' \in [Call -> SUBSET (Unit \X {"whole", "carved"})]
    BY <1>5 DEF ApplyVerdict, BatchTypeOK
  <2> QED
    BY <1>5, <2>2, <2>3, <2>4, StagesRefined, StagesReturn DEF ApplyVerdict
<1>6. ASSUME NEW c \in Call, Dissolve(c) \/ AssemblyFails(c)
      PROVE  BatchTypeOK' /\ StagesInv'
  <2>1. Geometries(c) \in SUBSET (Unit \X {"whole", "carved"})
    BY DEF Geometries, Whole, BatchTypeOK, IsInput
  <2>2. pieces' \in [Call -> SUBSET (Unit \X {"whole", "carved"})]
    BY <1>6, <2>1 DEF Dissolve, AssemblyFails, BatchTypeOK
  <2> QED
    BY <1>6, <2>2, StagesReturn DEF Dissolve, AssemblyFails
<1>7. CASE UNCHANGED vars
  BY <1>7 DEF vars, BatchTypeOK, StagesInv, Stages
<1> QED
  BY <1>1, <1>2, <1>3, <1>4, <1>5, <1>6, <1>7 DEF Next

\* The types of the calls, and the order of their stages, always hold.
LEMMA StagesHold == Spec => [](BatchTypeOK /\ StagesInv)
<1>1. Init => BatchTypeOK /\ StagesInv
  <2> SUFFICES ASSUME Init PROVE BatchTypeOK /\ StagesInv
    OBVIOUS
  <2>1. IsEngine(engine) /\ \A c \in Call : IsInput(input[c])
    BY DelineateAssumption DEF Init
  <2>2. BatchTypeOK
    BY <2>1 DEF Init, BatchTypeOK, Stage
  <2> QED
    BY <2>2 DEF Init, StagesInv, Stages, Selecting
<1> QED
  BY <1>1, StagesStep, PTL DEF Spec

-----------------------------------------------------------------------------
(* One call at a time. *)

\* The step of another call keeps what is known of this one.
LEMMA CallFrame ==
  ASSUME NEW d \in Call, CallInv(d), UNCHANGED <<engine, input>>,
         pc'[d] = pc[d], pos'[d] = pos[d], covering'[d] = covering[d],
         verdict'[d] = verdict[d], outcome'[d] = outcome[d], pieces'[d] = pieces[d],
         answer'[d] = answer[d], want'[d] = want[d], status'[d] = status[d],
         stored \subseteq stored'
  PROVE  CallInv(d)'
<1>1. Selected(d)' = Selected(d) /\ Geometries(d)' = Geometries(d) /\ HasD8Aux' = HasD8Aux
  BY DEF Selected, Geometries, Whole, HasD8Aux
<1>2. \A i : Covers(d, i)' <=> Covers(d, i)
  BY DEF Covers, BoxIn
<1>3. \A kind : WindowOf(d, kind)' = WindowOf(d, kind)
  BY <1>1 DEF WindowOf, BoxIn
<1>4. Modes(d)'
  BY <1>1 DEF CallInv, Modes
<1>5. Selection(d)'
  BY <1>1, <1>2 DEF CallInv, Selection
<1>6. Verdicts(d)'
  BY DEF CallInv, Verdicts
<1>7. Outcomes(d)'
  BY <1>1 DEF CallInv, Outcomes
<1>8. Localized(d)'
  BY <1>3 DEF CallInv, Localized
<1> QED
  BY <1>4, <1>5, <1>6, <1>7, <1>8 DEF CallInv

\* A declaration that contains the terminal intersects it: no covering one is
\* passed over by the early continue of the loop.
LEMMA ContainsIntersects ==
  ASSUME NEW r \in Rect, NEW b \in Rect, Contains(r, b)
  PROVE  Intersects(r, b)
BY DEF Contains, Intersects, Rect

\* One more declaration is looked at.
LEMMA SelectionStep ==
  ASSUME BatchTypeOK, NEW c \in Call, Selection(c), SelectDeclaration(c)
  PROVE  Selection(c)'
<1>1. /\ pos[c] \in 1 .. Len(engine.d8) /\ pos'[c] = pos[c] + 1
      /\ engine' = engine /\ input' = input /\ engine.d8[pos[c]].crs \in Crs
  BY LenProperties DEF SelectDeclaration, AtDeclaration, BatchTypeOK, IsEngine
<1>2. /\ Len(covering[c]) \in Nat
      /\ covering[c] \in Seq(Nat \ {0})
  BY LenProperties DEF BatchTypeOK
<1>3. \A i : Covers(c, i)' <=> Covers(c, i)
  BY <1>1 DEF Covers, BoxIn
<1>4. Covers(c, pos[c]) => Intersects(engine.d8[pos[c]].flow_dir, BoxIn(c, pos[c]))
  <2>1. engine.d8[pos[c]] \in Declaration
    BY <1>1, ElementOfSeq DEF BatchTypeOK, IsEngine
  <2>2. BoxIn(c, pos[c]) \in Rect
    BY <1>1 DEF BoxIn, BatchTypeOK, IsInput
  <2> QED
    BY <2>1, <2>2, ContainsIntersects DEF Covers, Declaration
<1>5. Len(engine.d8) \in Nat /\ pos[c] \in Nat \ {0}
  BY LenProperties DEF BatchTypeOK, IsEngine
<1>6. CASE Covers(c, pos[c])
  <2>1. covering'[c] = Append(covering[c], pos[c])
    BY <1>4, <1>6 DEF SelectDeclaration, BatchTypeOK
  <2>2. /\ Len(covering'[c]) = Len(covering[c]) + 1
        /\ Len(covering[c]) > 0 => covering'[c][1] = covering[c][1]
        /\ Len(covering[c]) = 0 => covering'[c][1] = pos[c]
    BY <1>2, <1>5, <2>1, AppendProperties
  <2>3. /\ Len(covering[c]) > 0 => Selected(c)' = Selected(c)
        /\ Len(covering[c]) = 0 => Selected(c)' = pos[c]
    BY <2>2 DEF Selected
  <2>4. Selected(c)' \in 1 .. pos[c] /\ Covers(c, Selected(c))'
    <3>1. CASE Len(covering[c]) > 0
      <4>1. Covers(c, Selected(c)) /\ Selected(c) \in 1 .. pos[c]
        BY <1>5, <3>1 DEF Selection
      <4> QED
        BY <1>1, <2>3, <3>1, <4>1 DEF Covers, BoxIn
    <3>2. CASE Len(covering[c]) = 0
      BY <1>1, <1>5, <1>6, <2>3, <3>2, SMTT(40) DEF Covers, BoxIn
    <3> QED
      BY <1>2, <3>1, <3>2
  <2>5. ASSUME NEW i \in 1 .. pos[c], Covers(c, i) PROVE Selected(c)' <= i
    BY <1>2, <1>5, <2>3, <2>4, <2>5 DEF Selection
  <2>6. \A i \in 1 .. pos[c] : engine.d8[i].crs \in Crs
    BY <1>1, <1>5 DEF Selection
  <2>7. pos'[c] - 1 = pos[c] /\ Len(covering'[c]) > 0 /\ pos'[c] <= Len(engine'.d8) + 1
    BY <1>1, <1>2, <1>5, <2>2
  <2> QED
    BY <1>1, <1>3, <2>4, <2>5, <2>6, <2>7 DEF Selection
<1>7. CASE ~Covers(c, pos[c])
  <2>1. covering'[c] = covering[c]
    BY <1>7 DEF SelectDeclaration, BatchTypeOK
  <2>2. Selected(c)' = Selected(c) /\ (Covers(c, Selected(c))' <=> Covers(c, Selected(c)))
    BY <1>1, <2>1 DEF Selected, Covers, BoxIn
  <2>3. \A i \in 1 .. pos[c] : engine.d8[i].crs \in Crs
    BY <1>1, <1>5 DEF Selection
  <2>4. \A i \in 1 .. pos[c] : Covers(c, i) => Len(covering[c]) > 0 /\ Selected(c) <= i
    BY <1>5, <1>7 DEF Selection
  <2>5. Len(covering[c]) > 0 => Selected(c) \in 1 .. pos[c] /\ Covers(c, Selected(c))
    BY <1>5 DEF Selection
  <2> QED
    BY <1>1, <1>3, <1>5, <2>1, <2>2, <2>3, <2>4, <2>5 DEF Selection
<1> QED
  BY <1>6, <1>7

\* A step of the call that leaves its selection alone.
LEMMA SelectionKept ==
  ASSUME NEW c \in Call, Selection(c), UNCHANGED <<engine, input, pos, covering>>
  PROVE  Selection(c)'
<1>1. Selected(c)' = Selected(c) /\ \A i : Covers(c, i)' <=> Covers(c, i)
  BY DEF Selected, Covers, BoxIn
<1> QED
  BY <1>1 DEF Selection

\* A step of a call.
CallStep(c) ==
  \/ Prepare(c) \/ PrepareFails(c) \/ ChooseMode(c) \/ Strategy(c)
  \/ ApplyVerdict(c) \/ Dissolve(c) \/ AssemblyFails(c)

\* What a step of one call leaves to the others.
LEMMA OthersUntouched ==
  ASSUME TypeOK, NEW c \in Call, CallStep(c), NEW d \in Call, d # c
  PROVE  /\ UNCHANGED <<engine, input>>
         /\ pc'[d] = pc[d] /\ pos'[d] = pos[d] /\ covering'[d] = covering[d]
         /\ verdict'[d] = verdict[d] /\ outcome'[d] = outcome[d]
         /\ pieces'[d] = pieces[d] /\ answer'[d] = answer[d]
         /\ want'[d] = want[d] /\ status'[d] = status[d]
         /\ stored \subseteq stored'
<1> USE DEF TypeOK, BatchTypeOK, local, cache, Goto, Decide, Refined, Return
<1>1. CASE Prepare(c) \/ PrepareFails(c)
  BY <1>1 DEF Prepare, PrepareFails
<1>2. CASE ChooseMode(c)
  BY <1>2 DEF ChooseMode
<1>3. CASE Bounds(c) \/ SelectBadCrs(c) \/ SelectExtentFails(c) \/ SelectEnd(c)
             \/ RasterSource(c) \/ Carve(c)
  BY <1>3 DEF Bounds, SelectBadCrs, SelectExtentFails, SelectEnd, RasterSource, Carve
<1>4. CASE SelectDeclaration(c)
  BY <1>4 DEF SelectDeclaration
<1>5. ASSUME NEW kind \in Kind,
             LocalizeInPlace(c, kind) \/ LocalizeAsk(c, kind) \/ LocalizeOk(c, kind)
               \/ LocalizeFails(c, kind)
      PROVE  /\ UNCHANGED <<engine, input>>
             /\ pc'[d] = pc[d] /\ pos'[d] = pos[d] /\ covering'[d] = covering[d]
             /\ verdict'[d] = verdict[d] /\ outcome'[d] = outcome[d]
             /\ pieces'[d] = pieces[d] /\ answer'[d] = answer[d]
             /\ want'[d] = want[d] /\ status'[d] = status[d]
             /\ stored \subseteq stored'
  BY <1>5 DEF LocalizeInPlace, LocalizeAsk, LocalizeOk, LocalizeFails,
              Windows!Begin, Windows!EndOk, Windows!EndErr
<1>6. CASE LocalizeStore(c)
  BY <1>6 DEF LocalizeStore, Windows!Store
<1>7. CASE ApplyVerdict(c)
  BY <1>7 DEF ApplyVerdict
<1>8. CASE Dissolve(c) \/ AssemblyFails(c)
  BY <1>8 DEF Dissolve, AssemblyFails
<1> QED
  BY <1>1, <1>2, <1>3, <1>4, <1>5, <1>6, <1>7, <1>8 DEF CallStep, Strategy

\* The stages outside the strategy.
LEMMA OutsideStrategy ==
  ASSUME TypeOK, NEW c \in Call, Stages(c), CallInv(c),
         Prepare(c) \/ PrepareFails(c) \/ ChooseMode(c) \/ ApplyVerdict(c)
           \/ Dissolve(c) \/ AssemblyFails(c)
  PROVE  CallInv(c)'
<1> USE DEF local, cache, Goto, Refined, Return
<1>0. UNCHANGED <<engine, input, pos, covering, verdict, stored, want, status>>
  BY DEF Prepare, PrepareFails, ChooseMode, ApplyVerdict, Dissolve, AssemblyFails
<1>1. Selected(c)' = Selected(c) /\ HasD8Aux' = HasD8Aux
      /\ \A kind : WindowOf(c, kind)' = WindowOf(c, kind)
  BY <1>0 DEF Selected, HasD8Aux, WindowOf, BoxIn
<1>2. Selection(c)'
  BY <1>0, SelectionKept DEF CallInv
<1>3. pc[c] \notin Kind /\ pc'[c] \notin Reading \cup {"selected"}
  BY DEF Prepare, PrepareFails, ChooseMode, ApplyVerdict, Dissolve, AssemblyFails,
         TypeOK, BatchTypeOK, Reading, Kind
<1>4. Verdicts(c)'
  BY <1>0, <1>3 DEF CallInv, Verdicts
<1>5. Localized(c)'
  BY <1>0, <1>1, <1>3 DEF CallInv, Localized, Reading
<1>6. Modes(c)' /\ Outcomes(c)'
  <2> USE DEF TypeOK, BatchTypeOK
  <2>1. CASE Prepare(c)
    BY <1>0, <1>1, <2>1 DEF Prepare, CallInv, Modes, Outcomes, Geometries
  <2>2. CASE PrepareFails(c)
    BY <1>0, <1>1, <2>2 DEF PrepareFails, CallInv, Modes, Outcomes, RefinementFailure
  <2>3. CASE ChooseMode(c)
    <3>1. CASE pc'[c] = "dissolve"
      <4>1. /\ answer' = answer /\ pieces' = pieces /\ answer[c] = "none"
            /\ input[c].mode # "require_d8"
            /\ \/ outcome'[c] = "disabled"
               \/ outcome'[c] = NoD8Reason(c) /\ ~HasD8Aux
        BY <2>3, <3>1 DEF ChooseMode, Stages
      <4> QED
        BY <1>0, <1>1, <4>1 DEF NoD8Reason, Modes, Outcomes, RefinementFailure
    <3>2. CASE pc'[c] # "dissolve"
      <4>1. /\ outcome' = outcome /\ pieces' = pieces
            /\ answer'[c] = "none" \/ answer'[c] = "missing_required_d8"
            /\ answer'[c] = "missing_required_d8" => input[c].mode = "require_d8"
        BY <2>3, <3>2 DEF ChooseMode, Stages
      <4> QED
        BY <1>0, <1>1, <4>1 DEF CallInv, Modes, Outcomes, RefinementFailure
    <3> QED
      BY <3>1, <3>2
  <2>4. CASE ApplyVerdict(c)
    <3>0. verdict[c] # "none" /\ answer[c] = "none" /\ input[c].mode # "disabled"
      BY <2>4 DEF ApplyVerdict, Stages
    <3>1. CASE verdict[c] = "applied"
      <4>1. outcome'[c] = "applied" /\ answer' = answer /\ pieces' = pieces
        BY <2>4, <3>1 DEF ApplyVerdict
      <4> QED
        BY <1>0, <1>1, <3>0, <3>1, <4>1 DEF Modes, Outcomes, RefinementFailure
    <3>2. CASE verdict[c] # "applied" /\ input[c].mode = "best_effort"
      <4>1. outcome'[c] = BestEffortSkipReason(verdict[c]) /\ answer' = answer
        BY <2>4, <3>2 DEF ApplyVerdict
      <4>2. /\ BestEffortSkipReason(verdict[c]) \in
                 {"availability", "mis_declaration", "integrity", "no_raster_source"}
            /\ BestEffortSkipReason(verdict[c]) = "mis_declaration" =>
                 verdict[c] \in MisDeclaration
            /\ BestEffortSkipReason(verdict[c]) = "no_raster_source" =>
                 verdict[c] = "no_raster_source"
        BY <3>0, <3>2 DEF BestEffortSkipReason, StrategyError
      <4> QED
        BY <1>0, <1>1, <3>0, <3>2, <4>1, <4>2 DEF Modes, Outcomes, RefinementFailure
    <3>3. CASE verdict[c] # "applied" /\ input[c].mode = "require_d8"
      <4>1. outcome' = outcome /\ answer'[c] = FailureOf(verdict[c])
        BY <2>4, <3>3 DEF ApplyVerdict
      <4>2. FailureOf(verdict[c]) # "ok"
        BY DEF FailureOf
      <4> QED
        BY <1>0, <1>1, <3>3, <4>1, <4>2 DEF CallInv, Modes, Outcomes
    <3> QED
      BY <3>0, <3>1, <3>2, <3>3, <2>4 DEF ApplyVerdict
  <2>5. CASE Dissolve(c)
    <3>1. /\ outcome' = outcome /\ answer'[c] = "ok" /\ outcome[c] # "none"
          /\ pieces'[c] = Geometries(c)
      BY <2>5 DEF Dissolve, Stages
    <3>2. Geometries(c)' = Geometries(c)
      BY <1>0, <3>1 DEF Geometries, Whole
    <3> QED
      BY <1>0, <1>1, <3>1, <3>2 DEF CallInv, Modes, Outcomes, RefinementFailure
  <2>6. CASE AssemblyFails(c)
    BY <1>0, <1>1, <2>6 DEF AssemblyFails, CallInv, Modes, Outcomes, RefinementFailure
  <2> QED
    BY <2>1, <2>2, <2>3, <2>4, <2>5, <2>6
<1> QED
  BY <1>2, <1>4, <1>5, <1>6 DEF CallInv

\* The stages of the strategy.
LEMMA InsideStrategy ==
  ASSUME TypeOK, NEW c \in Call, Stages(c), CallInv(c), Strategy(c)
  PROVE  CallInv(c)'
<1> USE DEF local, cache, Goto, Decide, TypeOK, BatchTypeOK
<1>0. UNCHANGED <<engine, input, outcome, pieces, answer>> /\ stored \subseteq stored'
  BY DEF Strategy, Bounds, SelectBadCrs, SelectExtentFails, SelectDeclaration, SelectEnd,
         RasterSource, Carve, LocalizeInPlace, LocalizeAsk, LocalizeOk, LocalizeFails,
         LocalizeStore, Windows!Begin, Windows!EndOk, Windows!EndErr, Windows!Store
<1>1. pc[c] \in Selecting \cup Reading \cup {"selected"} \/ status[c] = "pending"
  BY DEF Strategy, Bounds, SelectBadCrs, SelectExtentFails, SelectDeclaration, SelectEnd,
         AtDeclaration, RasterSource, Carve, LocalizeInPlace, LocalizeAsk, LocalizeOk,
         LocalizeFails, LocalizeStore, Windows!Store, Selecting, Reading, Kind
<1>2. verdict[c] = "none" /\ outcome[c] = "none" /\ answer[c] = "none"
  BY <1>1 DEF Stages, CallInv, Localized, Selecting, Reading, Kind
<1>3. Modes(c)'
  BY <1>0, <1>2 DEF CallInv, Modes, RefinementFailure
<1>4. Outcomes(c)'
  BY <1>0, <1>2 DEF Outcomes
<1>5. Len(engine.d8) \in Nat /\ Len(covering[c]) \in Nat /\ pos[c] \in Nat \ {0}
  BY LenProperties DEF IsEngine
<1>6. CASE Bounds(c) \/ SelectBadCrs(c) \/ SelectExtentFails(c) \/ SelectEnd(c)
             \/ RasterSource(c) \/ Carve(c)
  <2>0. UNCHANGED <<engine, input, pos, covering, stored, want, status>>
    BY <1>6 DEF Bounds, SelectBadCrs, SelectExtentFails, SelectEnd, RasterSource, Carve
  <2>1. Selection(c)'
    BY <2>0, SelectionKept DEF CallInv
  <2>2. \A kind : WindowOf(c, kind)' = WindowOf(c, kind)
    BY <2>0 DEF WindowOf, BoxIn, Selected
  <2>3. CASE Bounds(c)
    <3>1. \/ pc'[c] = "decide" /\ verdict'[c] = "degenerate_terminal"
          \/ pc'[c] = "select" /\ verdict'[c] = "none"
      BY <1>2, <2>3 DEF Bounds
    <3>2. status[c] # "pending"
      BY <2>3 DEF Bounds, CallInv, Localized, Kind
    <3> QED
      BY <1>3, <1>4, <2>0, <2>1, <3>1, <3>2 DEF CallInv, Verdicts, Localized, Reading
  <2>4. CASE SelectBadCrs(c)
    <3>1. /\ pc'[c] = "decide" /\ verdict'[c] = "crs_unsupported" /\ pc[c] = "select"
          /\ pos[c] \in 1 .. Len(engine.d8) /\ engine.d8[pos[c]].crs \in BadCrs
      BY <1>5, <2>4 DEF SelectBadCrs, AtDeclaration
    <3>2. status[c] # "pending"
      BY <3>1 DEF CallInv, Localized, Kind
    <3> QED
      BY <1>3, <1>4, <2>0, <2>1, <3>1, <3>2 DEF CallInv, Verdicts, Localized, Reading
  <2>5. CASE SelectExtentFails(c)
    <3>1. pc'[c] = "decide" /\ verdict'[c] = "extent_unread" /\ pc[c] = "select"
      BY <2>5 DEF SelectExtentFails
    <3>2. status[c] # "pending"
      BY <3>1 DEF CallInv, Localized, Kind
    <3> QED
      BY <1>3, <1>4, <2>0, <2>1, <3>1, <3>2 DEF CallInv, Verdicts, Localized, Reading
  <2>6. CASE SelectEnd(c)
    <3>1. /\ pc[c] = "select" /\ pos[c] > Len(engine.d8)
          /\ \/ /\ pc'[c] = "selected" /\ verdict'[c] = "none" /\ Len(covering[c]) > 0
             \/ /\ pc'[c] = "decide" /\ Len(covering[c]) = 0
                /\ verdict'[c] \in {"spans_tiles", "no_covering_tile"}
      BY <1>2, <1>5, <2>6, EmptySeq DEF SelectEnd
    <3>2. status[c] # "pending"
      BY <3>1 DEF CallInv, Localized, Kind
    <3> QED
      BY <1>3, <1>4, <2>0, <2>1, <3>1, <3>2 DEF CallInv, Verdicts, Localized, Reading
  <2>7. CASE RasterSource(c)
    <3>1. /\ pc[c] = "selected"
          /\ \/ pc'[c] = "decide" /\ verdict'[c] = "no_raster_source" /\ ~engine.source
             \/ pc'[c] = "flow_dir" /\ verdict'[c] = "none" /\ engine.source
      BY <1>2, <2>7 DEF RasterSource
    <3>2. status[c] # "pending" /\ Len(covering[c]) > 0
      BY <3>1 DEF CallInv, Localized, Kind, Verdicts
    <3> QED
      BY <1>3, <1>4, <2>0, <2>1, <3>1, <3>2 DEF CallInv, Verdicts, Localized, Reading
  <2>8. CASE Carve(c)
    <3>1. /\ pc[c] = "carve" /\ pc'[c] = "decide"
          /\ verdict'[c] \in {"applied", "raster_unread", "tile_mismatch", "carve_failed"}
      BY <2>8 DEF Carve
    <3>2. /\ status[c] # "pending" /\ Len(covering[c]) > 0 /\ engine.source
          /\ engine.remote => \A kind \in Kind : WindowOf(c, kind) \in stored
      BY <3>1 DEF CallInv, Localized, Kind, Verdicts, Reading
    <3> QED
      BY <1>3, <1>4, <2>0, <2>1, <2>2, <3>1, <3>2
         DEF CallInv, Verdicts, Localized, Reading
  <2> QED
    BY <1>6, <2>3, <2>4, <2>5, <2>6, <2>7, <2>8
<1>7. CASE SelectDeclaration(c)
  <2>1. pc' = pc /\ pc[c] = "select" /\ verdict' = verdict /\ UNCHANGED <<stored, want, status>>
    BY <1>7 DEF SelectDeclaration, AtDeclaration
  <2>2. Selection(c)'
    BY <1>7, SelectionStep DEF CallInv
  <2>3. status[c] # "pending"
    BY <2>1 DEF CallInv, Localized, Kind
  <2> QED
    BY <1>2, <1>3, <1>4, <2>1, <2>2, <2>3 DEF CallInv, Verdicts, Localized, Reading
<1>8. ASSUME NEW kind \in Kind,
             LocalizeInPlace(c, kind) \/ LocalizeAsk(c, kind) \/ LocalizeOk(c, kind)
               \/ LocalizeFails(c, kind)
      PROVE  CallInv(c)'
  <2>0. UNCHANGED <<engine, input, pos, covering, stored>> /\ pc[c] = kind
    BY <1>8 DEF LocalizeInPlace, LocalizeAsk, LocalizeOk, LocalizeFails,
                Windows!Begin, Windows!EndOk, Windows!EndErr
  <2>1. Selection(c)'
    BY <2>0, SelectionKept DEF CallInv
  <2>2. \A k : WindowOf(c, k)' = WindowOf(c, k)
    BY <2>0 DEF WindowOf, BoxIn, Selected
  <2>3. Len(covering[c]) > 0 /\ engine.source
    BY <2>0 DEF CallInv, Verdicts, Reading, Kind
  <2>4. CASE LocalizeInPlace(c, kind)
    <3>1. ~engine.remote /\ pc'[c] = Following(kind) /\ UNCHANGED <<verdict, want, status>>
      BY <2>4 DEF LocalizeInPlace
    <3>2. Verdicts(c)'
      BY <1>2, <2>0, <2>3, <3>1 DEF Verdicts
    <3>3. status[c] # "pending"
      BY <2>0, <3>1 DEF CallInv, Localized
    <3> QED
      BY <1>2, <1>3, <1>4, <2>0, <2>1, <3>1, <3>2, <3>3 DEF CallInv, Localized
  <2>5. CASE LocalizeAsk(c, kind)
    <3>1. UNCHANGED <<pc, verdict>> /\ want'[c] = WindowOf(c, kind) /\ engine.remote
      BY <2>5 DEF LocalizeAsk, Windows!Begin
    <3>2. Verdicts(c)'
      BY <1>2, <2>0, <2>3, <3>1 DEF Verdicts
    <3>3. Localized(c)'
      BY <1>2, <2>0, <2>2, <3>1 DEF CallInv, Localized
    <3> QED
      BY <1>3, <1>4, <2>1, <3>2, <3>3 DEF CallInv
  <2>6. CASE LocalizeOk(c, kind)
    <3>1. /\ pc'[c] = Following(kind) /\ UNCHANGED verdict /\ status'[c] = "ok"
          /\ want[c] \in stored /\ status[c] = "pending"
      BY <2>6 DEF LocalizeOk, Windows!EndOk
    <3>2. Verdicts(c)'
      BY <1>2, <2>0, <2>3, <3>1 DEF Verdicts
    <3>3. WindowOf(c, kind) \in stored
      BY <2>0, <3>1 DEF CallInv, Localized
    <3>4. Localized(c)'
      <4>1. CASE kind = "flow_dir"
        BY <1>2, <2>0, <2>2, <3>1, <3>3, <4>1 DEF Localized, Following
      <4>2. CASE kind = "flow_acc"
        BY <1>2, <2>0, <2>2, <3>1, <3>3, <4>2 DEF CallInv, Localized, Following
      <4> QED
        BY <4>1, <4>2 DEF Kind
    <3> QED
      BY <1>3, <1>4, <2>1, <3>2, <3>4 DEF CallInv
  <2>7. CASE LocalizeFails(c, kind)
    <3>1. pc'[c] = "decide" /\ verdict'[c] = "not_localized" /\ status'[c] = "err"
      BY <2>7 DEF LocalizeFails, Windows!EndErr
    <3> QED
      BY <1>3, <1>4, <2>1, <3>1 DEF CallInv, Verdicts, Localized, Reading
  <2> QED
    BY <1>8, <2>4, <2>5, <2>6, <2>7
<1>9. CASE LocalizeStore(c)
  <2>0. UNCHANGED <<engine, input, pc, pos, covering, verdict, want, status>>
    BY <1>9 DEF LocalizeStore, Windows!Store
  <2>1. Selection(c)'
    BY <2>0, SelectionKept DEF CallInv
  <2>2. \A k : WindowOf(c, k)' = WindowOf(c, k)
    BY <2>0 DEF WindowOf, BoxIn, Selected
  <2>3. Verdicts(c)'
    BY <2>0 DEF CallInv, Verdicts
  <2>4. Localized(c)'
    BY <1>0, <2>0, <2>2 DEF CallInv, Localized
  <2> QED
    BY <1>3, <1>4, <2>1, <2>3, <2>4 DEF CallInv
<1> QED
  BY <1>6, <1>7, <1>8, <1>9 DEF Strategy

-----------------------------------------------------------------------------
(* The batch. *)

\* Windows stay windows: a request is made for a declaration that was selected,
\* in a coordinate system the projection claims.
LEMMA CacheTypes ==
  ASSUME TypeOK, NEW c \in Call, CallInv(c), CallStep(c)
  PROVE  stored' \subseteq Window /\ want' \in [Call -> Window]
<1> USE DEF TypeOK, cache
<1>1. ASSUME NEW kind \in Kind, LocalizeAsk(c, kind)
      PROVE  stored' \subseteq Window /\ want' \in [Call -> Window]
  <2>1. Len(covering[c]) > 0
    BY <1>1 DEF LocalizeAsk, CallInv, Verdicts, Reading, Kind
  <2>2. Selected(c) \in 1 .. pos[c] - 1 /\ engine.d8[Selected(c)].crs \in Crs
    BY <2>1 DEF CallInv, Selection
  <2>3. Selected(c) \in Nat \ {0}
    BY <2>2 DEF BatchTypeOK
  <2>4. BoxIn(c, Selected(c)) \in Rect
    BY <2>2 DEF BoxIn, BatchTypeOK, IsInput
  <2>5. WindowOf(c, kind) \in Window
    BY <2>3, <2>4 DEF WindowOf, Window
  <2> QED
    BY <1>1, <2>5 DEF LocalizeAsk, Windows!Begin
<1>2. CASE LocalizeStore(c)
  BY <1>2 DEF LocalizeStore, Windows!Store
<1>3. CASE UNCHANGED <<stored, want>>
  BY <1>3
<1> QED
  BY <1>1, <1>2, <1>3
     DEF CallStep, Strategy, Prepare, PrepareFails, ChooseMode, ApplyVerdict, Dissolve,
         AssemblyFails, Bounds, SelectBadCrs, SelectExtentFails, SelectDeclaration,
         SelectEnd, RasterSource, Carve, LocalizeInPlace, LocalizeOk, LocalizeFails,
         Windows!EndOk, Windows!EndErr

\* The invariant of the batch holds of every reachable state.
LEMMA BatchInvariant == Spec => [](TypeOK /\ BatchInv)
<1>1. Init /\ BatchTypeOK => TypeOK /\ BatchInv
  <2> SUFFICES ASSUME Init, BatchTypeOK PROVE TypeOK /\ BatchInv
    OBVIOUS
  <2>1. NoWindow \in Window
    BY DEF NoWindow, Window, Kind, Rect
  <2>2. TypeOK
    BY <2>1 DEF Init, TypeOK
  <2>3. ASSUME NEW c \in Call PROVE CallInv(c)
    <3>1. /\ pc[c] = "prepare" /\ pos[c] = 1 /\ Len(covering[c]) = 0 /\ verdict[c] = "none"
          /\ outcome[c] = "none" /\ answer[c] = "none" /\ status[c] = "idle"
      BY DEF Init
    <3>2. Len(engine.d8) \in Nat
      BY LenProperties DEF BatchTypeOK, IsEngine
    <3>3. Selection(c)
      BY <3>1, <3>2 DEF Selection
    <3>4. Modes(c) /\ Outcomes(c)
      BY <3>1 DEF Modes, Outcomes, RefinementFailure
    <3>5. Verdicts(c) /\ Localized(c)
      BY <3>1 DEF Verdicts, Localized, Reading
    <3> QED
      BY <3>3, <3>4, <3>5 DEF CallInv
  <2> QED
    BY <2>2, <2>3 DEF BatchInv
<1>2. /\ BatchTypeOK /\ StagesInv /\ TypeOK /\ BatchInv
      /\ BatchTypeOK' /\ [Next]_vars
      => TypeOK' /\ BatchInv'
  <2> SUFFICES ASSUME StagesInv, TypeOK, BatchInv, BatchTypeOK', [Next]_vars
               PROVE  TypeOK' /\ BatchInv'
    OBVIOUS
  <2>1. ASSUME NEW c \in Call, CallStep(c) PROVE TypeOK' /\ BatchInv'
    <3>1. Stages(c) /\ CallInv(c)
      BY DEF StagesInv, BatchInv
    <3>2. TypeOK'
      BY <2>1, <3>1, CacheTypes DEF TypeOK
    <3>3. CallInv(c)'
      BY <2>1, <3>1, OutsideStrategy, InsideStrategy DEF CallStep
    <3>4. ASSUME NEW d \in Call, d # c PROVE CallInv(d)'
      <4>1. CallInv(d)
        BY DEF BatchInv
      <4> QED
        BY <2>1, <3>4, <4>1, OthersUntouched, CallFrame
    <3> QED
      BY <3>2, <3>3, <3>4 DEF BatchInv
  <2>2. CASE UNCHANGED vars
    <3>1. UNCHANGED <<stored, want>>
      BY <2>2 DEF vars, cache
    <3>2. TypeOK'
      BY <3>1 DEF TypeOK
    <3>3. ASSUME NEW d \in Call PROVE CallInv(d)'
      <4>1. CallInv(d)
        BY DEF BatchInv
      <4> QED
        BY <2>2, <4>1, CallFrame DEF vars, local, cache
    <3> QED
      BY <3>2, <3>3 DEF BatchInv
  <2> QED
    BY <2>1, <2>2 DEF Next, CallStep
<1> QED
  BY <1>1, <1>2, StagesHold, PTL DEF Spec

\* Type correctness of a batch: the calls, and the windows they ask for and
\* store, keep their types.
THEOREM DelineateTypeCorrect == Spec => []TypeOK
BY BatchInvariant, PTL

\* BestEffort is total: no failure of the D8 path makes a call fail.
THEOREM BestEffortTotalHolds == Spec => []BestEffortTotal
<1>1. BatchInv => BestEffortTotal
  BY DEF BatchInv, CallInv, Modes, BestEffortTotal
<1> QED
  BY <1>1, BatchInvariant, PTL

\* A RequireD8 call never answers with an unrefined watershed.
THEOREM RequireD8RefinesHolds == Spec => []RequireD8Refines
<1>1. BatchInv => RequireD8Refines
  BY DEF BatchInv, CallInv, Modes, RequireD8Refines, Geometries
<1> QED
  BY <1>1, BatchInvariant, PTL

\* The assembled watershed has one geometry per unit, the terminal's carved
\* exactly when Applied is reported.
THEOREM OnePiecePerUnitHolds == Spec => []OnePiecePerUnit
<1>1. TypeOK /\ BatchInv => OnePiecePerUnit
  <2> SUFFICES ASSUME TypeOK, BatchInv, NEW c \in Call, answer[c] = "ok",
                      NEW u \in Unit, NEW g \in {"whole", "carved"}
               PROVE  <<u, g>> \in Geometries(c) <=>
                        /\ u \in input[c].units
                        /\ g = IF u = input[c].terminal /\ outcome[c] = "applied"
                                THEN "carved" ELSE "whole"
    BY DEF OnePiecePerUnit, BatchInv, CallInv, Modes
  <2>1. input[c].terminal \in input[c].units
    BY DEF TypeOK, BatchTypeOK, IsInput
  <2> QED
    BY <2>1 DEF Geometries, Whole
<1> QED
  BY <1>1, BatchInvariant, PTL

\* An applied carve used the manifest-first covering declaration and, for a
\* remote dataset, stored windows of both its rasters.
THEOREM AppliedIsCoveredHolds == Spec => []AppliedIsCovered
<1>1. TypeOK /\ BatchInv => AppliedIsCovered
  <2> SUFFICES ASSUME TypeOK, BatchInv, NEW c \in Call, outcome[c] = "applied"
               PROVE  /\ Selected(c) \in 1 .. Len(engine.d8)
                      /\ Covers(c, Selected(c))
                      /\ \A i \in 1 .. Selected(c) - 1 : ~Covers(c, i)
                      /\ engine.remote => \A kind \in Kind : WindowOf(c, kind) \in stored
    BY DEF AppliedIsCovered
  <2>0. CallInv(c)
    BY DEF BatchInv
  <2>1. verdict[c] = "applied" /\ Len(covering[c]) > 0
    BY <2>0 DEF CallInv, Outcomes, Verdicts
  <2>2. Len(engine.d8) \in Nat /\ pos[c] \in Nat \ {0}
    BY LenProperties DEF TypeOK, BatchTypeOK, IsEngine
  <2>3. Selected(c) \in 1 .. pos[c] - 1 /\ Covers(c, Selected(c))
        /\ pos[c] <= Len(engine.d8) + 1
    BY <2>0, <2>1 DEF CallInv, Selection
  <2>4. \A i \in 1 .. Selected(c) - 1 : ~Covers(c, i)
    <3> SUFFICES ASSUME NEW i \in 1 .. Selected(c) - 1, Covers(c, i) PROVE FALSE
      OBVIOUS
    <3>1. i \in 1 .. pos[c] - 1
      BY <2>2, <2>3
    <3>2. Selected(c) <= i
      BY <2>0, <3>1 DEF CallInv, Selection
    <3> QED
      BY <2>2, <2>3, <3>2
  <2>5. engine.remote => \A kind \in Kind : WindowOf(c, kind) \in stored
    BY <2>0, <2>1 DEF CallInv, Localized
  <2> QED
    BY <2>2, <2>3, <2>4, <2>5
<1> QED
  BY <1>1, BatchInvariant, PTL

\* The selection gives up only a terminal that no declaration covers.
THEOREM GivenUpIsUncoveredHolds == Spec => []GivenUpIsUncovered
<1>1. TypeOK /\ BatchInv => GivenUpIsUncovered
  <2> SUFFICES ASSUME TypeOK, BatchInv, NEW c \in Call,
                      verdict[c] \in {"no_covering_tile", "spans_tiles"},
                      NEW i \in 1 .. Len(engine.d8), Covers(c, i)
               PROVE  FALSE
    BY DEF GivenUpIsUncovered
  <2>0. CallInv(c)
    BY DEF BatchInv
  <2>1. Len(covering[c]) = 0 /\ pos[c] > Len(engine.d8)
    BY <2>0 DEF CallInv, Verdicts
  <2>2. Len(engine.d8) \in Nat /\ pos[c] \in Nat \ {0}
    BY LenProperties DEF TypeOK, BatchTypeOK, IsEngine
  <2>3. i \in 1 .. pos[c] - 1
    BY <2>1, <2>2
  <2> QED
    BY <2>0, <2>1, <2>3 DEF CallInv, Selection
<1> QED
  BY <1>1, BatchInvariant, PTL

\* The reason a skip reports is true of the session and the engine.
THEOREM SkipIsTrueHolds == Spec => []SkipIsTrue
<1>1. BatchInv => SkipIsTrue
  <2> SUFFICES ASSUME BatchInv, NEW c \in Call
               PROVE  /\ outcome[c] \in {"no_d8_aux", "coarse_unit_only"} =>
                           ~HasD8Aux /\ ~engine.unreadable
                      /\ outcome[c] = "unreadable_d8_aux" => ~HasD8Aux /\ engine.unreadable
                      /\ outcome[c] = "no_raster_source" =>
                           ~engine.source /\ Covers(c, Selected(c))
                      /\ outcome[c] = "mis_declaration" =>
                           \/ \E i \in 1 .. Len(engine.d8) : engine.d8[i].crs \in BadCrs
                           \/ engine.source /\ Covers(c, Selected(c))
    BY DEF SkipIsTrue
  <2>0. CallInv(c)
    BY DEF BatchInv
  <2>1. Len(covering[c]) > 0 => Covers(c, Selected(c))
    BY <2>0 DEF CallInv, Selection
  <2> QED
    BY <2>0, <2>1 DEF CallInv, Outcomes, Verdicts, MisDeclaration
<1> QED
  BY <1>1, BatchInvariant, PTL

\* The refinement outcome of every call of a batch is true of its terminal, its
\* engine and the pieces given to the dissolve.
THEOREM OutcomeIsTrueHolds == Spec => []OutcomeIsTrue
BY RequireD8RefinesHolds, OnePiecePerUnitHolds, AppliedIsCoveredHolds,
   GivenUpIsUncoveredHolds, SkipIsTrueHolds, PTL DEF OutcomeIsTrue

=============================================================================
