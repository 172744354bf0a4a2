------------------------ MODULE StageTelemetryProofs ------------------------
(***************************************************************************)
(* Proofs about the stage spans and the JSONL trace, for any number of     *)
(* threads and spans, nested in any way.                                   *)
(***************************************************************************)
EXTENDS StageTelemetry, SequenceTheorems, WellFoundedInduction, TLAPS

(***************************************************************************)
(* The strengthening that is inductive.                                    *)
(***************************************************************************)
Span == [thread : Threads, open : BOOLEAN, fields : Fields \cup {None}]

SpansOK ==
  /\ spans \in Seq(Span) /\ Len(spans) <= MaxSpans
  /\ \A s \in 1 .. Len(spans) : IsStage(s) =>
       \A f \in DOMAIN spans[s].fields : spans[s].fields[f] = s

\* The stack of a thread is its open spans, the older ones further out.
StackOK ==
  /\ stack \in [Threads -> Seq(Nat)]
  /\ \A t \in Threads : \A i \in 1 .. Len(stack[t]) :
       /\ stack[t][i] \in 1 .. Len(spans)
       /\ spans[stack[t][i]].thread = t /\ spans[stack[t][i]].open
       /\ \A j \in 1 .. Len(stack[t]) : i < j => stack[t][i] < stack[t][j]
  /\ \A s \in 1 .. Len(spans) : spans[s].open =>
       \E i \in 1 .. Len(stack[spans[s].thread]) : stack[spans[s].thread][i] = s

\* Who was given rows has them.
NotedOK ==
  /\ noted \subseteq (1 .. Len(spans)) \cup {None}
  /\ \A s \in 1 .. Len(spans) :
       IsStage(s) /\ s \in noted => "rows" \in DOMAIN spans[s].fields

\* What is said of a stage that has closed.
Told(s, fields) ==
  /\ s \in 1 .. Len(spans) /\ IsStage(s) /\ ~spans[s].open
  /\ \A f \in DOMAIN fields : fields[f] = s
  /\ s \in noted => "rows" \in DOMAIN fields

\* The lines under way; only the holder of the writer has begun to write.
LineOK ==
  /\ line \in [Threads -> Record \cup {None}]
  /\ lock \in Threads \cup {None}
  /\ \A t \in Threads : line[t] # None =>
       /\ Told(line[t].span, line[t].fields)
       /\ spans[line[t].span].thread = t
       /\ line[t].written => lock = t
  /\ lock # None => line[lock] # None

FileOK ==
  /\ file \in Seq([piece : {"object", "newline"}, span : Nat, fields : Fields \cup {<<>>}])
  /\ \A i \in Lines : Told(file[i].span, file[i].fields)

\* A stage is written at most once, and not before its line is.
OnceOK ==
  /\ \A i, j \in Lines : file[i].span = file[j].span => i = j
  /\ \A t \in Threads : line[t] # None /\ ~line[t].written =>
       \A i \in Lines : file[i].span # line[t].span

Halfway == lock # None /\ line[lock].written

\* The pieces of the trace until a write fails.
PiecesOK ==
  /\ \A i \in 1 .. Len(file) : file[i].piece = IF i % 2 = 1 THEN "object" ELSE "newline"
  /\ \A i \in 1 .. Len(file) : i % 2 = 0 => file[i].span = file[i - 1].span
  /\ Halfway => Len(file) % 2 = 1 /\ file[Len(file)].span = line[lock].span
  /\ ~Halfway => Len(file) % 2 = 0

\* Every stage that has closed is told, or going to be.
AllTold ==
  \A s \in 1 .. Len(spans) : IsStage(s) /\ ~spans[s].open =>
    \/ \E i \in Lines : file[i].span = s
    \/ \E t \in Threads : line[t] # None /\ line[t].span = s

TraceInv ==
  /\ SpansOK /\ StackOK /\ NotedOK /\ LineOK /\ FileOK /\ OnceOK
  /\ broken \in BOOLEAN /\ (~broken => PiecesOK /\ AllTold)

-----------------------------------------------------------------------------
(* Least and greatest elements.  They are all the induction these proofs need. *)

LEMMA LessWellFounded == IsWellFoundedOn({p \in Nat \X Nat : p[1] < p[2]}, Nat)
BY NatLessThanWellFounded, Zenon DEF OpToRel

LEMMA LeastElement ==
  ASSUME NEW T, T \subseteq Nat, T # {}
  PROVE  \E x \in T : \A y \in T : x <= y
<1>. DEFINE R == {p \in Nat \X Nat : p[1] < p[2]}
<1>1. \E x \in T : \A y \in T : <<y, x>> \notin R
  <2>1. IsWellFoundedOn(R, Nat)
    BY LessWellFounded
  <2>. HIDE DEF R
  <2>. QED
    BY <2>1, WFMin
<1>2. PICK x \in T : \A y \in T : <<y, x>> \notin R
  BY <1>1
<1>3. ASSUME NEW y \in T, y < x PROVE FALSE
  <2>1. <<y, x>> \in R
    BY <1>3
  <2>. QED
    BY <1>2, <2>1
<1>4. \A y \in T : x <= y
  BY <1>3
<1>. QED
  BY <1>4

LEMMA GreatestElement ==
  ASSUME NEW n \in Nat, NEW T, T \subseteq 1 .. n, T # {}
  PROVE  Max(T) \in T /\ \A y \in T : y <= Max(T)
<1>. DEFINE D == {d \in 0 .. n : n - d \in T}
<1>1. D \subseteq Nat /\ D # {}
  <2>1. PICK y \in T : y \in 1 .. n
    OBVIOUS
  <2>2. n - y \in D
    BY <2>1
  <2>3. D \subseteq Nat
    OBVIOUS
  <2>. QED
    BY <2>2, <2>3
<1>2. PICK d \in D : \A e \in D : d <= e
  <2>. HIDE DEF D
  <2>. QED
    BY <1>1, LeastElement
<1>3. PICK x \in T : x = n - d
  BY <1>2
<1>4. ASSUME NEW y \in T PROVE x >= y
  <2>1. y \in 1 .. n /\ n - y \in D
    OBVIOUS
  <2>2. d <= n - y /\ d \in 0 .. n
    BY <1>2, <2>1
  <2>. QED
    BY <1>3, <2>1, <2>2
<1>5. \E z \in T : \A y \in T : z >= y
  BY <1>4
<1>6. Max(T) \in T /\ \A y \in T : Max(T) >= y
  BY <1>5 DEF Max
<1>. QED
  BY <1>6

\* A greatest element is the one.
LEMMA GreatestIs ==
  ASSUME NEW n \in Nat, NEW T, T \subseteq 1 .. n, NEW x \in T, \A y \in T : y <= x
  PROVE  Max(T) = x
<1>1. Max(T) \in T /\ x <= Max(T) /\ Max(T) <= x
  BY GreatestElement
<1>2. ASSUME NEW m \in T, x <= m, m <= x PROVE m = x
  <2>1. m \in Int /\ x \in Int
    OBVIOUS
  <2>. QED
    BY <1>2, <2>1
<1>. QED
  BY <1>1, <1>2

-----------------------------------------------------------------------------
(* Spans and stacks. *)

LEMMA SpanTyped ==
  ASSUME SpansOK, NEW s \in 1 .. Len(spans)
  PROVE  /\ spans[s] \in Span /\ spans[s].thread \in Threads /\ spans[s].open \in BOOLEAN
         /\ spans[s].fields \in Fields \cup {None}
         /\ Len(spans) \in Nat
<1>1. spans \in Seq(Span)
  BY DEF SpansOK
<1>2. spans[s] \in Span /\ Len(spans) \in Nat
  BY <1>1, ElementOfSeq, LenProperties
<1>. QED
  BY <1>2 DEF Span

\* The caller's stage is the stage nearest to the top of its stack.
LEMMA InnermostIsNearest ==
  ASSUME SpansOK, StackOK, NEW t \in Threads, Stages(t) # {}
  PROVE  /\ Innermost(t) = NearestStage(t)
         /\ NearestStage(t) \in 1 .. Len(spans)
         /\ IsStage(NearestStage(t)) /\ spans[NearestStage(t)].open
<1>. DEFINE own == {s \in 1 .. Len(spans) : spans[s].thread = t /\ spans[s].open /\ IsStage(s)}
            m == Max(Stages(t))
            top == stack[t][m]
<1>1. Len(stack[t]) \in Nat /\ Len(spans) \in Nat
  BY LenProperties DEF StackOK, SpansOK
<1>2. m \in Stages(t) /\ \A i \in Stages(t) : i <= m
  <2>1. Stages(t) \subseteq 1 .. Len(stack[t])
    BY DEF Stages
  <2>. QED
    BY <1>1, <2>1, GreatestElement
<1>3. top \in own
  BY <1>2 DEF StackOK, Stages
<1>4. ASSUME NEW s \in own PROVE s <= top
  <2>1. PICK i \in 1 .. Len(stack[t]) : stack[t][i] = s
    BY <1>4 DEF StackOK
  <2>2. i \in Stages(t)
    BY <2>1 DEF Stages
  <2>3. i <= m /\ m \in 1 .. Len(stack[t])
    BY <1>2, <2>2 DEF Stages
  <2>. QED
    BY <1>1, <1>3, <2>1, <2>3 DEF StackOK
<1>5. Max(own) = top
  <2>1. own \subseteq 1 .. Len(spans)
    OBVIOUS
  <2>. HIDE DEF own, top
  <2>. QED
    BY <1>1, <1>3, <1>4, <2>1, GreatestIs
<1>6. own # {}
  BY <1>3
<1>. QED
  BY <1>3, <1>5, <1>6 DEF Innermost, NearestStage

LEMMA TopTyped ==
  ASSUME SpansOK, StackOK, NEW t \in Threads, stack[t] # <<>>
  PROVE  /\ Len(stack[t]) \in 1 .. Len(stack[t]) /\ Top(t) \in 1 .. Len(spans)
         /\ spans[Top(t)].open /\ spans[Top(t)].thread = t
<1>1. stack[t] \in Seq(Nat)
  BY DEF StackOK
<1>2. Len(stack[t]) \in Nat /\ Len(stack[t]) # 0
  BY <1>1, LenProperties, EmptySeq
<1>. QED
  BY <1>2 DEF StackOK, Top

\* A stage on top is the nearest.
LEMMA TopIsNearest ==
  ASSUME SpansOK, StackOK, NEW t \in Threads, stack[t] # <<>>, IsStage(Top(t))
  PROVE  Stages(t) # {} /\ NearestStage(t) = Top(t)
<1>1. Len(stack[t]) \in 1 .. Len(stack[t]) /\ Len(stack[t]) \in Nat
  BY TopTyped
<1>2. Len(stack[t]) \in Stages(t)
  BY <1>1 DEF Stages, Top
<1>3. Stages(t) \subseteq 1 .. Len(stack[t])
  BY DEF Stages
<1>4. Max(Stages(t)) = Len(stack[t])
  BY <1>1, <1>2, <1>3, GreatestIs
<1>. QED
  BY <1>2, <1>4 DEF NearestStage, Top

\* A step that changes spans leaves the closed ones alone; and perhaps closes none.
Grows ==
  /\ Len(spans) <= Len(spans')
  /\ \A s \in 1 .. Len(spans) : ~spans[s].open =>
       spans'[s] = spans[s] /\ (s \in noted' => s \in noted)

NoneCloses ==
  \A s \in 1 .. Len(spans') : IsStage(s)' /\ ~spans'[s].open =>
    s \in 1 .. Len(spans) /\ ~spans[s].open

LEMMA FieldsExtended ==
  ASSUME StagesAssumption, NEW old \in Fields, NEW f \in Emitted, NEW s \in 1 .. MaxSpans,
         NEW new, new = [k \in DOMAIN old \cup {f} |-> IF k = f THEN s ELSE old[k]]
  PROVE  new \in Fields /\ new # None /\ DOMAIN new = DOMAIN old \cup {f}
<1>1. PICK F \in SUBSET Emitted : old \in [F -> 1 .. MaxSpans]
  BY DEF Fields
<1>2. new \in [F \cup {f} -> 1 .. MaxSpans] /\ F \cup {f} \in SUBSET Emitted
  BY <1>1
<1>3. new \in Fields
  BY <1>2 DEF Fields
<1>. QED
  BY <1>3 DEF StagesAssumption

\* A value recorded for the stage it names.
LEMMA RecordedKept ==
  ASSUME StagesAssumption, SpansOK, NEW s \in 1 .. Len(spans), IsStage(s), NEW f \in Emitted,
         spans' = Recorded(s, f, s)
  PROVE  /\ SpansOK' /\ Len(spans') = Len(spans)
         /\ \A x \in 1 .. Len(spans) :
              /\ spans'[x].thread = spans[x].thread /\ spans'[x].open = spans[x].open
              /\ IsStage(x)' <=> IsStage(x)
              /\ x # s => spans'[x] = spans[x]
         /\ DOMAIN spans'[s].fields = DOMAIN spans[s].fields \cup {f}
<1>. DEFINE old == spans[s].fields
            new == [k \in DOMAIN old \cup {f} |-> IF k = f THEN s ELSE old[k]]
            e == [spans[s] EXCEPT !.fields = new]
<1>1. spans \in Seq(Span) /\ Len(spans) \in Nat /\ spans[s] \in Span /\ Len(spans) <= MaxSpans
      /\ MaxSpans \in Nat
  BY SpanTyped DEF SpansOK, StagesAssumption
<1>2. old \in Fields /\ s \in 1 .. MaxSpans /\ \A k \in DOMAIN old : old[k] = s
  BY <1>1, SpanTyped DEF IsStage, SpansOK
<1>3. new \in Fields /\ new # None /\ DOMAIN new = DOMAIN old \cup {f}
  <2>1. new = [k \in DOMAIN old \cup {f} |-> IF k = f THEN s ELSE old[k]]
    OBVIOUS
  <2>. HIDE DEF new, old
  <2>. QED
    BY <1>2, <2>1, FieldsExtended
<1>4. \A k \in DOMAIN new : new[k] = s
  BY <1>2
<1>. HIDE DEF new
<1>5. e \in Span /\ e.thread = spans[s].thread /\ e.open = spans[s].open /\ e.fields = new
  BY <1>1, <1>3 DEF Span
<1>6. spans' = [spans EXCEPT ![s] = e]
  BY DEF Recorded, new
<1>. HIDE DEF e
<1>7. /\ spans' \in Seq(Span) /\ Len(spans') = Len(spans)
      /\ \A x \in 1 .. Len(spans) : spans'[x] = IF x = s THEN e ELSE spans[x]
  BY <1>1, <1>5, <1>6, ExceptSeq
<1>8. ASSUME NEW x \in 1 .. Len(spans)
      PROVE  /\ spans'[x].thread = spans[x].thread /\ spans'[x].open = spans[x].open
             /\ IsStage(x)' <=> IsStage(x)
             /\ x # s => spans'[x] = spans[x]
  BY <1>3, <1>5, <1>7 DEF IsStage
<1>9. ASSUME NEW x \in 1 .. Len(spans), IsStage(x)', NEW k \in DOMAIN spans'[x].fields
      PROVE  spans'[x].fields[k] = x
  <2>1. CASE x = s
    BY <1>4, <1>5, <1>7, <1>9, <2>1
  <2>2. CASE x # s
    BY <1>7, <1>9, <2>2 DEF SpansOK, IsStage
  <2>. QED
    BY <2>1, <2>2
<1>10. SpansOK'
  BY <1>1, <1>7, <1>9 DEF SpansOK
<1>. QED
  BY <1>3, <1>5, <1>7, <1>8, <1>10

-----------------------------------------------------------------------------
(* Steps that change spans and leave the lines and the file alone. *)

LEMMA ToldKept ==
  ASSUME Grows, NEW s, NEW fields, Told(s, fields), Len(spans) \in Nat, Len(spans') \in Nat
  PROVE  Told(s, fields)'
BY DEF Grows, Told, IsStage

LEMMA SpansMove ==
  ASSUME TraceInv, Grows, NoneCloses, SpansOK', StackOK', NotedOK', UNCHANGED <<line, lock, file, broken>>
  PROVE  TraceInv'
<1>1. Len(spans) \in Nat /\ Len(spans') \in Nat
  BY LenProperties DEF TraceInv, SpansOK
<1>2. Lines' = Lines
  BY DEF Lines
<1>3. LineOK'
  <2>1. ASSUME NEW t \in Threads, line[t] # None
        PROVE  /\ Told(line[t].span, line[t].fields)'
               /\ spans'[line[t].span].thread = t
    <3>1. Told(line[t].span, line[t].fields) /\ spans[line[t].span].thread = t
      BY <2>1 DEF TraceInv, LineOK
    <3>2. ASSUME NEW s, NEW fields, s = line[t].span, fields = line[t].fields
          PROVE  Told(s, fields)' /\ spans'[s] = spans[s]
      <4>1. Told(s, fields)
        BY <3>1, <3>2
      <4>2. Told(s, fields)'
        BY <1>1, <4>1, ToldKept
      <4>. QED
        BY <4>1, <4>2 DEF Told, Grows
    <3>. QED
      BY <3>1, <3>2
  <2>. QED
    BY <2>1 DEF TraceInv, LineOK
<1>4. FileOK'
  <2>1. ASSUME NEW i \in Lines PROVE Told(file[i].span, file[i].fields)'
    <3>1. Told(file[i].span, file[i].fields)
      BY <2>1 DEF TraceInv, FileOK
    <3>2. ASSUME NEW s, NEW fields, s = file[i].span, fields = file[i].fields
          PROVE  Told(s, fields)'
      BY <1>1, <3>1, <3>2, ToldKept
    <3>. QED
      BY <3>2
  <2>. QED
    BY <1>2, <2>1 DEF TraceInv, FileOK
<1>5. OnceOK'
  BY <1>2 DEF TraceInv, OnceOK
<1>6. ~broken => PiecesOK'
  BY DEF TraceInv, PiecesOK, Halfway
<1>7. ~broken => AllTold'
  <2>1. ASSUME ~broken, NEW s \in 1 .. Len(spans'), IsStage(s)', ~spans'[s].open
        PROVE  \/ \E i \in Lines : file[i].span = s
               \/ \E t \in Threads : line[t] # None /\ line[t].span = s
    <3>1. s \in 1 .. Len(spans) /\ ~spans[s].open
      BY <2>1 DEF NoneCloses
    <3>2. IsStage(s)
      BY <2>1, <3>1 DEF Grows, IsStage
    <3>. QED
      BY <2>1, <3>1, <3>2 DEF TraceInv, AllTold
  <2>. QED
    BY <1>2, <2>1 DEF AllTold
<1>. QED
  BY <1>3, <1>4, <1>5, <1>6, <1>7 DEF TraceInv

\* record_bytes and record_rows: the stage is not changed but for its fields.
LEMMA RecordKeeps ==
  ASSUME StagesAssumption, TraceInv, NEW s \in 1 .. Len(spans), IsStage(s), spans[s].open,
         NEW f \in Emitted, spans' = Recorded(s, f, s),
         noted' \in {noted, noted \cup {s}}, noted' # noted => f = "rows",
         UNCHANGED <<stack, line, lock, file, broken>>
  PROVE  TraceInv'
<1>1. /\ SpansOK' /\ Len(spans') = Len(spans)
      /\ \A x \in 1 .. Len(spans) :
           /\ spans'[x].thread = spans[x].thread /\ spans'[x].open = spans[x].open
           /\ IsStage(x)' <=> IsStage(x)
           /\ x # s => spans'[x] = spans[x]
      /\ DOMAIN spans'[s].fields = DOMAIN spans[s].fields \cup {f}
  BY RecordedKept DEF TraceInv
<1>2. StackOK'
  <2>1. \A x \in Threads : \A i \in 1 .. Len(stack[x]) :
          /\ stack[x][i] \in 1 .. Len(spans')
          /\ spans'[stack[x][i]].thread = x /\ spans'[stack[x][i]].open
    BY <1>1 DEF TraceInv, StackOK
  <2>2. \A x \in 1 .. Len(spans') : spans'[x].open =>
          \E i \in 1 .. Len(stack[spans'[x].thread]) : stack[spans'[x].thread][i] = x
    BY <1>1, SMTT(40) DEF TraceInv, StackOK
  <2>. QED
    BY <2>1, <2>2 DEF TraceInv, StackOK
<1>3. NotedOK'
  BY <1>1 DEF TraceInv, NotedOK
<1>4. Grows /\ NoneCloses
  BY <1>1 DEF Grows, NoneCloses, TraceInv, SpansOK
<1>. QED
  BY <1>1, <1>2, <1>3, <1>4, SpansMove

LEMMA RecordBytesKeeps ==
  ASSUME StagesAssumption, TraceInv, NEW t \in Threads, RecordBytes(t)
  PROVE  TraceInv'
<1>1. /\ stack[t] # <<>> /\ UNCHANGED <<stack, line, lock, file, broken, noted>>
      /\ spans' = Recorded(Top(t), "bytes", Innermost(t))
      /\ Top(t) \in 1 .. Len(spans) /\ spans[Top(t)].open
  BY TopTyped DEF RecordBytes, TraceInv
<1>2. CASE IsStage(Top(t))
  <2>1. Innermost(t) = Top(t)
    BY <1>1, <1>2, TopIsNearest, InnermostIsNearest DEF TraceInv
  <2>. QED
    BY <1>1, <1>2, <2>1, RecordKeeps DEF Emitted
<1>3. CASE ~IsStage(Top(t))
  <2>1. spans' = spans
    BY <1>1, <1>3 DEF Recorded
  <2>2. SpansOK' /\ StackOK' /\ NotedOK'
    <3>1. SpansOK'
      BY <2>1 DEF TraceInv, SpansOK, IsStage
    <3>2. StackOK'
      BY <1>1, <2>1 DEF TraceInv, StackOK
    <3>3. NotedOK'
      BY <1>1, <2>1 DEF TraceInv, NotedOK, IsStage
    <3>. QED
      BY <3>1, <3>2, <3>3
  <2>3. Grows /\ NoneCloses
    BY <1>1, <2>1, LenProperties DEF TraceInv, SpansOK, Grows, NoneCloses, IsStage
  <2>. QED
    BY <1>1, <2>2, <2>3, SpansMove
<1>. QED
  BY <1>2, <1>3

LEMMA RecordRowsKeeps ==
  ASSUME StagesAssumption, TraceInv, NEW t \in Threads, RecordRows(t)
  PROVE  TraceInv'
<1>1. UNCHANGED <<stack, line, lock, file, broken>> /\ noted' = noted \cup {Innermost(t)}
  BY DEF RecordRows
<1>2. CASE Stages(t) # {}
  <2>1. /\ Innermost(t) = NearestStage(t) /\ NearestStage(t) \in 1 .. Len(spans)
        /\ IsStage(NearestStage(t)) /\ spans[NearestStage(t)].open
    BY <1>2, InnermostIsNearest DEF TraceInv
  <2>2. spans' = Recorded(NearestStage(t), "rows", NearestStage(t))
    BY <1>2, <2>1 DEF RecordRows
  <2>. QED
    BY <1>1, <2>1, <2>2, RecordKeeps DEF Emitted
<1>3. CASE Stages(t) = {}
  <2>1. spans' = spans
    BY <1>3 DEF RecordRows
  <2>2. Innermost(t) = None
    <3>1. ASSUME NEW s \in 1 .. Len(spans), spans[s].thread = t, spans[s].open, IsStage(s)
          PROVE  FALSE
      <4>1. PICK i \in 1 .. Len(stack[t]) : stack[t][i] = s
        BY <3>1 DEF TraceInv, StackOK
      <4>. QED
        BY <1>3, <3>1, <4>1 DEF Stages
    <3>. QED
      BY <3>1 DEF Innermost
  <2>3. \A s \in 1 .. Len(spans) : s \in noted' <=> s \in noted
    <3>1. Len(spans) \in Nat
      BY LenProperties DEF TraceInv, SpansOK
    <3>2. None \notin 1 .. Len(spans)
      BY <3>1 DEF StagesAssumption
    <3>. QED
      BY <1>1, <2>2, <3>2
  <2>4. NotedOK'
    BY <1>1, <2>1, <2>2, <2>3 DEF TraceInv, NotedOK, IsStage
  <2>. QED
    BY <1>1, <2>1, <2>3, <2>4, SpansMove DEF TraceInv, Grows, NoneCloses, SpansOK, StackOK, IsStage
<1>. QED
  BY <1>2, <1>3

LEMMA LogEventKeeps ==
  ASSUME StagesAssumption, TraceInv, NEW t \in Threads, NEW f \in Emitted, LogEvent(t, f)
  PROVE  TraceInv'
<1>1. UNCHANGED <<stack, line, lock, file, broken>> /\ noted' = noted
  BY DEF LogEvent
<1>2. CASE Stages(t) # {}
  <2>1. /\ Innermost(t) = NearestStage(t) /\ NearestStage(t) \in 1 .. Len(spans)
        /\ IsStage(NearestStage(t)) /\ spans[NearestStage(t)].open
    BY <1>2, InnermostIsNearest DEF TraceInv
  <2>2. spans' = Recorded(NearestStage(t), f, NearestStage(t))
    BY <1>2, <2>1 DEF LogEvent
  <2>. QED
    BY <1>1, <2>1, <2>2, RecordKeeps
<1>3. CASE Stages(t) = {}
  <2>1. spans' = spans
    BY <1>3 DEF LogEvent
  <2>2. SpansOK'
    BY <2>1 DEF TraceInv, SpansOK, IsStage
  <2>3. StackOK'
    BY <1>1, <2>1 DEF TraceInv, StackOK
  <2>4. NotedOK'
    BY <1>1, <2>1 DEF TraceInv, NotedOK, IsStage
  <2>5. Grows /\ NoneCloses
    BY <1>1, <2>1, LenProperties DEF Grows, NoneCloses, TraceInv, SpansOK, IsStage
  <2>. QED
    BY <1>1, <2>2, <2>3, <2>4, <2>5, SpansMove
<1>. QED
  BY <1>2, <1>3

\* A span is made, a stage that knows its own name or one the layer does not know.
LEMMA PushKeeps ==
  ASSUME StagesAssumption, TraceInv, NEW t \in Threads, NEW fields,
         fields \in {None, [f \in {"stage"} |-> Len(spans) + 1]}, Push(t, fields)
  PROVE  TraceInv'
<1>. DEFINE n == Len(spans) + 1
            e == [thread |-> t, open |-> TRUE, fields |-> fields]
<1>1. /\ spans \in Seq(Span) /\ Len(spans) \in Nat /\ n \in 1 .. MaxSpans
      /\ stack \in [Threads -> Seq(Nat)] /\ stack[t] \in Seq(Nat) /\ Len(stack[t]) \in Nat
      /\ UNCHANGED <<line, lock, file, broken, noted>>
  BY LenProperties DEF Push, TraceInv, SpansOK, StackOK, StagesAssumption
<1>2. e \in Span
  <2>1. [f \in {"stage"} |-> n] \in [{"stage"} -> 1 .. MaxSpans] /\ {"stage"} \in SUBSET Emitted
    BY <1>1 DEF Emitted
  <2>2. fields \in Fields \cup {None}
    BY <2>1 DEF Fields
  <2>. QED
    BY <2>2 DEF Span
<1>3. /\ spans' \in Seq(Span) /\ Len(spans') = n /\ spans'[n] = e
      /\ \A s \in 1 .. Len(spans) : spans'[s] = spans[s]
  <2>. HIDE DEF e
  <2>1. spans' = Append(spans, e)
    BY DEF Push, e
  <2>. QED
    BY <1>1, <1>2, <2>1, AppendProperties
<1>4. \A s \in 1 .. n : s \in 1 .. Len(spans) \/ s = n
  BY <1>1
<1>5. SpansOK'
  <2>1. ASSUME NEW s \in 1 .. n, IsStage(s)', NEW f \in DOMAIN spans'[s].fields
        PROVE  spans'[s].fields[f] = s
    <3>1. CASE s = n
      <4>1. spans'[s].fields = fields /\ fields # None
        BY <1>3, <2>1, <3>1 DEF IsStage
      <4>. QED
        BY <2>1, <3>1, <4>1
    <3>2. CASE s \in 1 .. Len(spans)
      BY <1>3, <2>1, <3>2 DEF TraceInv, SpansOK, IsStage
    <3>. QED
      BY <1>4, <3>1, <3>2
  <2>. QED
    BY <1>1, <1>3, <2>1 DEF SpansOK
<1>6. /\ stack' \in [Threads -> Seq(Nat)] /\ Len(stack'[t]) = Len(stack[t]) + 1
      /\ stack'[t][Len(stack[t]) + 1] = n
      /\ \A i \in 1 .. Len(stack[t]) : stack'[t][i] = stack[t][i]
      /\ \A x \in Threads : x # t => stack'[x] = stack[x]
  <2>. HIDE DEF n
  <2>1. stack' = [stack EXCEPT ![t] = Append(stack[t], n)] /\ n \in Nat
    BY <1>1 DEF Push, n
  <2>2. /\ Append(stack[t], n) \in Seq(Nat) /\ Len(Append(stack[t], n)) = Len(stack[t]) + 1
        /\ Append(stack[t], n)[Len(stack[t]) + 1] = n
        /\ \A i \in 1 .. Len(stack[t]) : Append(stack[t], n)[i] = stack[t][i]
    BY <1>1, <2>1, AppendProperties
  <2>. QED
    BY <1>1, <2>1, <2>2
<1>7. StackOK'
  <2>1. ASSUME NEW x \in Threads, NEW i \in 1 .. Len(stack'[x])
        PROVE  /\ stack'[x][i] \in 1 .. n
               /\ spans'[stack'[x][i]].thread = x /\ spans'[stack'[x][i]].open
               /\ \A j \in 1 .. Len(stack'[x]) : i < j => stack'[x][i] < stack'[x][j]
    <3>1. CASE x # t
      <4>1. stack'[x] = stack[x]
        BY <1>6, <3>1
      <4>2. /\ stack[x][i] \in 1 .. Len(spans)
            /\ spans[stack[x][i]].thread = x /\ spans[stack[x][i]].open
            /\ \A j \in 1 .. Len(stack[x]) : i < j => stack[x][i] < stack[x][j]
        BY <2>1, <4>1 DEF TraceInv, StackOK
      <4>. QED
        BY <1>1, <1>3, <4>1, <4>2
    <3>2. CASE x = t /\ i \in 1 .. Len(stack[t])
      <4>1. /\ stack'[x][i] = stack[t][i] /\ stack[t][i] \in 1 .. Len(spans)
            /\ spans[stack[t][i]].thread = t /\ spans[stack[t][i]].open
        BY <1>6, <3>2 DEF TraceInv, StackOK
      <4>2. ASSUME NEW j \in 1 .. Len(stack'[t]), i < j PROVE stack[t][i] < stack'[t][j]
        <5>1. CASE j \in 1 .. Len(stack[t])
          BY <1>6, <3>2, <4>2, <5>1 DEF TraceInv, StackOK
        <5>2. CASE j = Len(stack[t]) + 1
          BY <1>1, <1>6, <4>1, <5>2
        <5>. QED
          BY <1>1, <1>6, <5>1, <5>2
      <4>3. stack[t][i] \in 1 .. n /\ spans'[stack[t][i]] = spans[stack[t][i]]
        BY <1>1, <1>3, <4>1
      <4>4. spans'[stack[t][i]].thread = t /\ spans'[stack[t][i]].open
        BY <4>1, <4>3
      <4>. HIDE DEF n, e
      <4>. QED
        BY <3>2, <4>1, <4>2, <4>3, <4>4
    <3>3. CASE x = t /\ i = Len(stack[t]) + 1
      BY <1>1, <1>3, <1>6, <3>3
    <3>. QED
      BY <1>1, <1>6, <3>1, <3>2, <3>3
  <2>2. ASSUME NEW s \in 1 .. n, spans'[s].open
        PROVE  \E i \in 1 .. Len(stack'[spans'[s].thread]) : stack'[spans'[s].thread][i] = s
    <3>1. CASE s = n
      <4>1. spans'[s].thread = t
        BY <1>3, <3>1
      <4>2. Len(stack[t]) + 1 \in 1 .. Len(stack'[t]) /\ stack'[t][Len(stack[t]) + 1] = s
        BY <1>1, <1>6, <3>1
      <4>. QED
        BY <4>1, <4>2
    <3>2. CASE s \in 1 .. Len(spans)
      <4>1. PICK i \in 1 .. Len(stack[spans[s].thread]) : stack[spans[s].thread][i] = s
        BY <1>3, <2>2, <3>2 DEF TraceInv, StackOK
      <4>2. spans[s].thread \in Threads /\ spans'[s] = spans[s]
        BY <1>3, <3>2, SpanTyped DEF TraceInv
      <4>3. \A x \in Threads : \A j \in 1 .. Len(stack[x]) :
              j \in 1 .. Len(stack'[x]) /\ stack'[x][j] = stack[x][j]
        <5>1. ASSUME NEW x \in Threads, NEW j \in 1 .. Len(stack[x])
              PROVE  j \in 1 .. Len(stack'[x]) /\ stack'[x][j] = stack[x][j]
          <6>1. CASE x = t
            BY <1>1, <1>6, <5>1, <6>1
          <6>2. CASE x # t
            BY <1>6, <6>2
          <6>. QED
            BY <6>1, <6>2
        <5>. QED
          BY <5>1
      <4>. QED
        BY <4>1, <4>2, <4>3
    <3>. QED
      BY <1>4, <3>1, <3>2
  <2>. QED
    BY <1>3, <1>6, <2>1, <2>2 DEF StackOK
<1>8. n \notin noted
  BY <1>1 DEF TraceInv, NotedOK, StagesAssumption
<1>9. NotedOK'
  <2>1. ASSUME NEW s \in 1 .. n, IsStage(s)', s \in noted PROVE "rows" \in DOMAIN spans'[s].fields
    <3>1. s \in 1 .. Len(spans)
      BY <1>4, <1>8, <2>1
    <3>. QED
      BY <1>3, <2>1, <3>1 DEF TraceInv, NotedOK, IsStage
  <2>2. noted' \subseteq (1 .. n) \cup {None}
    BY <1>1 DEF TraceInv, NotedOK
  <2>. QED
    BY <1>1, <1>3, <2>1, <2>2 DEF NotedOK
<1>10. Grows /\ NoneCloses
  <2>1. \A s \in 1 .. n : IsStage(s)' /\ ~spans'[s].open => s \in 1 .. Len(spans) /\ ~spans[s].open
    BY <1>3, <1>4
  <2>. QED
    BY <1>1, <1>3, <2>1 DEF Grows, NoneCloses
<1>. QED
  BY <1>1, <1>5, <1>7, <1>9, <1>10, SpansMove

\* A span ends, and with a stage its line begins.
LEMMA CloseSpans ==
  ASSUME StagesAssumption, TraceInv, NEW t \in Threads, Close(t)
  PROVE  /\ SpansOK' /\ StackOK' /\ NotedOK' /\ Len(spans') = Len(spans)
         /\ Top(t) \in 1 .. Len(spans) /\ spans[Top(t)].open /\ ~spans'[Top(t)].open
         /\ spans'[Top(t)].fields = spans[Top(t)].fields /\ spans'[Top(t)].thread = t
         /\ \A s \in 1 .. Len(spans) : s # Top(t) => spans'[s] = spans[s]
<1>. DEFINE top == Top(t)
            e == [spans[top] EXCEPT !.open = FALSE]
            n == Len(stack[t])
<1>1. /\ stack[t] # <<>> /\ spans \in Seq(Span) /\ Len(spans) \in Nat
      /\ stack \in [Threads -> Seq(Nat)] /\ stack[t] \in Seq(Nat) /\ n \in Nat
      /\ noted' = noted
  BY LenProperties DEF Close, TraceInv, SpansOK, StackOK
<1>2. /\ n \in 1 .. n /\ top \in 1 .. Len(spans) /\ spans[top].open /\ spans[top].thread = t
      /\ top = stack[t][n]
  BY <1>1, TopTyped DEF TraceInv, Top
<1>3. e \in Span /\ e.open = FALSE /\ e.thread = t /\ e.fields = spans[top].fields
  BY <1>2, SpanTyped DEF TraceInv, Span
<1>4. /\ spans' \in Seq(Span) /\ Len(spans') = Len(spans)
      /\ \A s \in 1 .. Len(spans) : spans'[s] = IF s = top THEN e ELSE spans[s]
  <2>1. spans' = [spans EXCEPT ![top] = e]
    BY DEF Close
  <2>. HIDE DEF top, e
  <2>. QED
    BY <1>1, <1>2, <1>3, <2>1, ExceptSeq
<1>5. /\ stack' \in [Threads -> Seq(Nat)] /\ Len(stack'[t]) = n - 1
      /\ \A i \in 1 .. n - 1 : stack'[t][i] = stack[t][i]
      /\ \A x \in Threads : x # t => stack'[x] = stack[x]
  <2>1. stack' = [stack EXCEPT ![t] = SubSeq(stack[t], 1, n - 1)]
    BY DEF Close
  <2>2. \A i \in 1 .. n - 1 : stack[t][i] \in Nat
    BY <1>1, ElementOfSeq
  <2>3. /\ SubSeq(stack[t], 1, n - 1) \in Seq(Nat) /\ Len(SubSeq(stack[t], 1, n - 1)) = n - 1
        /\ \A i \in 1 .. n - 1 : SubSeq(stack[t], 1, n - 1)[i] = stack[t][i]
    <3>. HIDE DEF n
    <3>. QED
      BY <1>1, <1>2, <2>2, SubSeqProperties
  <2>. QED
    BY <1>1, <2>1, <2>3
<1>6. SpansOK'
  <2>1. ASSUME NEW s \in 1 .. Len(spans), IsStage(s)', NEW f \in DOMAIN spans'[s].fields
        PROVE  spans'[s].fields[f] = s
    <3>1. spans'[s].fields = spans[s].fields
      BY <1>3, <1>4
    <3>. QED
      BY <2>1, <3>1 DEF TraceInv, SpansOK, IsStage
  <2>. QED
    BY <1>4, <2>1 DEF TraceInv, SpansOK
<1>7. \A x \in Threads : \A i \in 1 .. Len(stack'[x]) :
        /\ i \in 1 .. Len(stack[x]) /\ stack'[x][i] = stack[x][i] /\ stack[x][i] # top
  <2>1. ASSUME NEW x \in Threads, NEW i \in 1 .. Len(stack'[x])
        PROVE  i \in 1 .. Len(stack[x]) /\ stack'[x][i] = stack[x][i] /\ stack[x][i] # top
    <3>1. CASE x = t
      <4>1. i \in 1 .. n /\ i < n /\ stack'[t][i] = stack[t][i]
        BY <1>1, <1>5, <2>1, <3>1
      <4>2. stack[t][i] < stack[t][n] /\ stack[t][i] \in Nat /\ stack[t][n] \in Nat
        BY <1>1, <1>2, <4>1 DEF TraceInv, StackOK
      <4>. QED
        BY <1>2, <3>1, <4>1, <4>2
    <3>2. CASE x # t
      BY <1>2, <1>5, <2>1, <3>2, SMTT(40) DEF TraceInv, StackOK
    <3>. QED
      BY <3>1, <3>2
  <2>. QED
    BY <2>1
<1>8. StackOK'
  <2>1. ASSUME NEW x \in Threads, NEW i \in 1 .. Len(stack'[x])
        PROVE  /\ stack'[x][i] \in 1 .. Len(spans)
               /\ spans'[stack'[x][i]].thread = x /\ spans'[stack'[x][i]].open
               /\ \A j \in 1 .. Len(stack'[x]) : i < j => stack'[x][i] < stack'[x][j]
    <3>1. i \in 1 .. Len(stack[x]) /\ stack'[x][i] = stack[x][i] /\ stack[x][i] # top
      BY <1>7
    <3>2. /\ stack[x][i] \in 1 .. Len(spans)
          /\ spans[stack[x][i]].thread = x /\ spans[stack[x][i]].open
      BY <3>1 DEF TraceInv, StackOK
    <3>3. ASSUME NEW j \in 1 .. Len(stack'[x]), i < j PROVE stack'[x][i] < stack'[x][j]
      <4>1. j \in 1 .. Len(stack[x]) /\ stack'[x][j] = stack[x][j]
        BY <1>7
      <4>. QED
        BY <3>1, <3>3, <4>1 DEF TraceInv, StackOK
    <3>. QED
      BY <1>4, <3>1, <3>2, <3>3
  <2>2. ASSUME NEW s \in 1 .. Len(spans), spans'[s].open
        PROVE  \E i \in 1 .. Len(stack'[spans'[s].thread]) : stack'[spans'[s].thread][i] = s
    <3>1. s # top /\ spans'[s] = spans[s]
      BY <1>3, <1>4, <2>2
    <3>2. PICK i \in 1 .. Len(stack[spans[s].thread]) : stack[spans[s].thread][i] = s
      BY <2>2, <3>1 DEF TraceInv, StackOK
    <3>3. spans[s].thread \in Threads
      BY SpanTyped DEF TraceInv
    <3>4. CASE spans[s].thread = t
      <4>1. i \in 1 .. n - 1
        BY <1>1, <1>2, <3>1, <3>2, <3>4
      <4>. QED
        BY <1>5, <3>1, <3>2, <3>4, <4>1
    <3>5. CASE spans[s].thread # t
      BY <1>5, <3>1, <3>2, <3>3, <3>5
    <3>. QED
      BY <3>4, <3>5
  <2>. QED
    BY <1>4, <1>5, <2>1, <2>2 DEF StackOK
<1>9. NotedOK'
  <2>1. \A s \in 1 .. Len(spans) : spans'[s].fields = spans[s].fields
    BY <1>3, <1>4
  <2>. QED
    BY <1>1, <1>4, <2>1 DEF TraceInv, NotedOK, IsStage
<1>. QED
  BY <1>2, <1>3, <1>4, <1>6, <1>8, <1>9

LEMMA CloseKeeps ==
  ASSUME StagesAssumption, TraceInv, NEW t \in Threads, Close(t)
  PROVE  TraceInv'
<1>. DEFINE top == Top(t)
            fields == [f \in DOMAIN spans[top].fields \cap Emitted |-> spans[top].fields[f]]
            r == [span |-> top, written |-> FALSE, fields |-> fields]
<1>1. /\ SpansOK' /\ StackOK' /\ NotedOK' /\ Len(spans') = Len(spans)
      /\ top \in 1 .. Len(spans) /\ spans[top].open /\ ~spans'[top].open
      /\ spans'[top].fields = spans[top].fields /\ spans'[top].thread = t
      /\ \A s \in 1 .. Len(spans) : s # top => spans'[s] = spans[s]
  BY CloseSpans
<1>2. /\ line[t] = None /\ UNCHANGED <<lock, file, broken, noted>>
      /\ line' = [line EXCEPT ![t] = IF IsStage(top) THEN r ELSE None]
      /\ line \in [Threads -> Record \cup {None}] /\ Len(spans) \in Nat
  BY LenProperties DEF Close, Quiet, TraceInv, LineOK, SpansOK
<1>3. Grows
  BY <1>1, <1>2 DEF Grows
<1>4. Lines' = Lines
  BY <1>2 DEF Lines
<1>5. IsStage(top) => r \in Record /\ r # None
  <2>1. ASSUME IsStage(top) PROVE fields \in Fields
    <3>1. PICK F \in SUBSET Emitted : spans[top].fields \in [F -> 1 .. MaxSpans]
      BY <1>1, <2>1, SpanTyped DEF TraceInv, IsStage, Fields
    <3>2. fields \in [F -> 1 .. MaxSpans]
      BY <3>1
    <3>. QED
      BY <3>2 DEF Fields
  <2>2. top \in Nat
    BY <1>1, <1>2
  <2>. HIDE DEF fields, top
  <2>3. IsStage(top) => r \in Record
    BY <2>1, <2>2 DEF Record
  <2>. QED
    BY <2>3 DEF StagesAssumption
<1>6. ASSUME NEW s, NEW g, s = top, g = fields, IsStage(top)
      PROVE  Told(s, g)'
  <2>1. /\ \A f \in DOMAIN fields : fields[f] = top
        /\ top \in noted => "rows" \in DOMAIN fields
    <3>1. \A f \in DOMAIN spans[top].fields : spans[top].fields[f] = top
      BY <1>1, <1>6 DEF TraceInv, SpansOK
    <3>2. top \in noted => "rows" \in DOMAIN spans[top].fields
      BY <1>1, <1>6 DEF TraceInv, NotedOK
    <3>. QED
      BY <3>1, <3>2 DEF Emitted
  <2>. QED
    BY <1>1, <1>2, <1>6, <2>1 DEF Told, IsStage
<1>. HIDE DEF fields, top
<1>7. LineOK'
  <2>1. ASSUME NEW x \in Threads, line'[x] # None,
               NEW s, NEW g, s = line'[x].span, g = line'[x].fields
        PROVE  Told(s, g)' /\ spans'[s].thread = x /\ (line'[x].written => lock = x)
    <3>1. CASE x # t
      <4>1. line'[x] = line[x]
        BY <1>2, <3>1
      <4>2. Told(s, g) /\ spans[s].thread = x /\ (line[x].written => lock = x)
        BY <2>1, <4>1 DEF TraceInv, LineOK
      <4>3. Told(s, g)' /\ spans'[s] = spans[s]
        BY <1>1, <1>2, <1>3, <4>2, ToldKept DEF Told, Grows
      <4>. QED
        BY <4>1, <4>2, <4>3
    <3>2. CASE x = t
      <4>1. IsStage(top) /\ line'[x] = r
        BY <1>2, <2>1, <3>2
      <4>2. s = top /\ g = fields /\ ~line'[x].written
        BY <2>1, <4>1
      <4>. QED
        BY <1>1, <1>6, <3>2, <4>1, <4>2
    <3>. QED
      BY <3>1, <3>2
  <2>3. lock # None => lock # t /\ line'[lock] # None
    BY <1>2 DEF TraceInv, LineOK
  <2>4. line' \in [Threads -> Record \cup {None}]
    BY <1>2, <1>5
  <2>. QED
    BY <1>2, <2>1, <2>3, <2>4 DEF TraceInv, LineOK
<1>8. FileOK'
  <2>1. ASSUME NEW i \in Lines PROVE Told(file[i].span, file[i].fields)'
    <3>1. ASSUME NEW s, NEW g, s = file[i].span, g = file[i].fields PROVE Told(s, g)'
      <4>1. Told(s, g)
        BY <2>1, <3>1 DEF TraceInv, FileOK
      <4>. QED
        BY <1>1, <1>2, <1>3, <4>1, ToldKept
    <3>. QED
      BY <1>2, <3>1
  <2>. QED
    BY <1>2, <1>4, <2>1 DEF TraceInv, FileOK
<1>9. OnceOK'
  <2>1. \A i \in Lines : file[i].span # top
    BY <1>1 DEF TraceInv, FileOK, Told
  <2>. QED
    BY <1>2, <1>4, <2>1 DEF TraceInv, OnceOK
<1>10. ~broken => PiecesOK'
  <2>1. lock # None => lock # t /\ lock \in Threads
    BY <1>2 DEF TraceInv, LineOK
  <2>2. lock # None => line'[lock] = line[lock]
    BY <1>2, <2>1
  <2>. QED
    BY <1>2, <2>2 DEF TraceInv, PiecesOK, Halfway
<1>11. ~broken => AllTold'
  <2>1. ASSUME ~broken, NEW s \in 1 .. Len(spans), IsStage(s)', ~spans'[s].open
        PROVE  \/ \E i \in Lines : file[i].span = s
               \/ \E x \in Threads : line'[x] # None /\ line'[x].span = s
    <3>1. CASE s = top
      <4>1. IsStage(top)
        BY <1>1, <2>1, <3>1 DEF IsStage
      <4>. QED
        BY <1>2, <1>5, <3>1, <4>1
    <3>2. CASE s # top
      <4>1. IsStage(s) /\ ~spans[s].open
        BY <1>1, <2>1, <3>2 DEF IsStage
      <4>2. ASSUME NEW x \in Threads, line[x] # None PROVE line'[x] = line[x]
        BY <1>2, <4>2
      <4>. QED
        BY <2>1, <4>1, <4>2 DEF TraceInv, AllTold
    <3>. QED
      BY <3>1, <3>2
  <2>. QED
    BY <1>1, <1>2, <1>4, <2>1 DEF AllTold
<1>. QED
  BY <1>1, <1>2, <1>7, <1>8, <1>9, <1>10, <1>11 DEF TraceInv

-----------------------------------------------------------------------------
(* Steps of the writer: the spans stay. *)

LEMMA ToldStays ==
  ASSUME UNCHANGED <<spans, noted>>, NEW s, NEW fields
  PROVE  Told(s, fields)' <=> Told(s, fields)
BY DEF Told, IsStage

LEMMA StacksStay ==
  ASSUME TraceInv, UNCHANGED <<spans, stack, noted>>
  PROVE  SpansOK' /\ StackOK' /\ NotedOK'
<1>1. SpansOK'
  BY DEF TraceInv, SpansOK, IsStage
<1>2. StackOK'
  BY DEF TraceInv, StackOK
<1>3. NotedOK'
  BY DEF TraceInv, NotedOK, IsStage
<1>. QED
  BY <1>1, <1>2, <1>3

\* What is known of the thread that writes.
LEMMA Writer ==
  ASSUME StagesAssumption, TraceInv, NEW t \in Threads
  PROVE  /\ lock = t => /\ line[t] # None /\ line[t] \in Record
                        /\ line[t].span \in Nat /\ line[t].fields \in Fields
                        /\ line[t].written \in BOOLEAN
                        /\ Told(line[t].span, line[t].fields)
         /\ \A u \in Threads : u # t /\ line[u] # None /\ line[t] # None =>
              line[u].span # line[t].span
         /\ \A u \in Threads : lock = t /\ u # t /\ line[u] # None => ~line[u].written
<1>1. ASSUME lock = t
      PROVE  /\ line[t] # None /\ line[t] \in Record
             /\ Told(line[t].span, line[t].fields)
  <2>1. lock # None
    BY <1>1 DEF StagesAssumption
  <2>. QED
    BY <1>1, <2>1 DEF TraceInv, LineOK
<1>2. line[t] \in Record => line[t].span \in Nat /\ line[t].fields \in Fields /\ line[t].written \in BOOLEAN
  BY DEF Record
<1>3. \A u \in Threads : u # t /\ line[u] # None /\ line[t] # None => line[u].span # line[t].span
  BY DEF TraceInv, LineOK
<1>4. \A u \in Threads : lock = t /\ u # t /\ line[u] # None => ~line[u].written
  BY DEF TraceInv, LineOK
<1>. QED
  BY <1>1, <1>2, <1>3, <1>4

LEMMA LockKeeps ==
  ASSUME StagesAssumption, TraceInv, NEW t \in Threads, Lock(t)
  PROVE  TraceInv'
<1>1. /\ line[t] # None /\ lock = None /\ lock' = t
      /\ UNCHANGED <<spans, stack, line, file, broken, noted>> /\ t # None
  BY DEF Lock, Quiet, StagesAssumption
<1>2. \A u \in Threads : line[u] # None => ~line[u].written
  BY <1>1 DEF TraceInv, LineOK, StagesAssumption
<1>3. SpansOK' /\ StackOK' /\ NotedOK'
  BY <1>1, StacksStay
<1>4. LineOK'
  <2>1. ASSUME NEW u \in Threads, line[u] # None, NEW s, NEW g, s = line[u].span, g = line[u].fields
        PROVE  Told(s, g)' /\ spans[s].thread = u
    BY <1>1, <2>1, ToldStays DEF TraceInv, LineOK
  <2>. QED
    BY <1>1, <1>2, <2>1 DEF TraceInv, LineOK
<1>5. Lines' = Lines
  BY <1>1 DEF Lines
<1>6. FileOK'
  BY <1>1, <1>5 DEF TraceInv, FileOK, Told, IsStage
<1>7. OnceOK'
  BY <1>1, <1>5 DEF TraceInv, OnceOK
<1>8. ~broken => PiecesOK'
  BY <1>1, <1>2 DEF TraceInv, PiecesOK, Halfway
<1>9. ~broken => AllTold'
  BY <1>1, <1>5 DEF TraceInv, AllTold, IsStage
<1>. QED
  BY <1>1, <1>3, <1>4, <1>6, <1>7, <1>8, <1>9 DEF TraceInv

\* A piece is appended to the trace.
LEMMA PieceAppended ==
  ASSUME FileOK, NEW p, file' = Append(file, p),
         p \in [piece : {"object", "newline"}, span : Nat, fields : Fields \cup {<<>>}]
  PROVE  /\ Len(file) \in Nat /\ Len(file') = Len(file) + 1 /\ file'[Len(file) + 1] = p
         /\ \A i \in 1 .. Len(file) : file'[i] = file[i]
         /\ \A i \in 1 .. Len(file') : i \in 1 .. Len(file) \/ i = Len(file) + 1
         /\ file' \in Seq([piece : {"object", "newline"}, span : Nat, fields : Fields \cup {<<>>}])
         /\ \A i : i \in Lines' <=> i \in Lines \/ (i = Len(file) + 1 /\ p.piece = "object")
         /\ Lines \subseteq 1 .. Len(file)
<1>. DEFINE P == [piece : {"object", "newline"}, span : Nat, fields : Fields \cup {<<>>}]
<1>1. file \in Seq(P)
  BY DEF FileOK
<1>. HIDE DEF P
<1>2. /\ Len(file) \in Nat /\ Len(file') = Len(file) + 1 /\ file'[Len(file) + 1] = p
      /\ \A i \in 1 .. Len(file) : file'[i] = file[i]
      /\ file' \in Seq(P)
  BY <1>1, AppendProperties, LenProperties DEF P
<1>3. \A i \in 1 .. Len(file') : i \in 1 .. Len(file) \/ i = Len(file) + 1
  BY <1>2
<1>4. \A i : i \in Lines' <=> i \in Lines \/ (i = Len(file) + 1 /\ p.piece = "object")
  BY <1>2, <1>3 DEF Lines
<1>. QED
  BY <1>2, <1>3, <1>4 DEF Lines, P

LEMMA WriteObjectKeeps ==
  ASSUME StagesAssumption, TraceInv, NEW t \in Threads, WriteObject(t)
  PROVE  TraceInv'
<1>. DEFINE s == line[t].span
            g == line[t].fields
            p == [piece |-> "object", span |-> s, fields |-> g]
            n == Len(file) + 1
            r == [line[t] EXCEPT !.written = TRUE]
<1>1. /\ lock = t /\ ~line[t].written /\ file' = Append(file, p)
      /\ line' = [line EXCEPT ![t] = r] /\ line \in [Threads -> Record \cup {None}]
      /\ UNCHANGED <<spans, stack, lock, broken, noted>> /\ t # None
  BY DEF WriteObject, StagesAssumption, TraceInv, LineOK
<1>2. line[t] # None /\ line[t] \in Record /\ s \in Nat /\ g \in Fields /\ Told(s, g)
  BY <1>1, Writer
<1>3. r \in Record /\ r # None /\ r.span = s /\ r.fields = g /\ r.written
  <2>1. r \in Record /\ r.span = s /\ r.fields = g /\ r.written
    BY <1>2 DEF Record
  <2>. QED
    BY <2>1 DEF StagesAssumption
<1>4. line'[t] = r /\ \A u \in Threads : u # t => line'[u] = line[u]
  BY <1>1
<1>5. /\ Len(file) \in Nat /\ Len(file') = n /\ file'[n] = p
      /\ \A i \in 1 .. Len(file) : file'[i] = file[i]
      /\ \A i \in 1 .. Len(file') : i \in 1 .. Len(file) \/ i = n
      /\ file' \in Seq([piece : {"object", "newline"}, span : Nat, fields : Fields \cup {<<>>}])
      /\ \A i : i \in Lines' <=> i \in Lines \/ i = n
      /\ Lines \subseteq 1 .. Len(file)
  <2>1. p \in [piece : {"object", "newline"}, span : Nat, fields : Fields \cup {<<>>}]
        /\ p.piece = "object" /\ FileOK
    BY <1>2 DEF TraceInv
  <2>. HIDE DEF p
  <2>2. \A i : i \in Lines' <=> i \in Lines \/ i = n
    BY <1>1, <2>1, PieceAppended
  <2>3. /\ Len(file) \in Nat /\ Len(file') = n /\ file'[n] = p
        /\ \A i \in 1 .. Len(file) : file'[i] = file[i]
        /\ \A i \in 1 .. Len(file') : i \in 1 .. Len(file) \/ i = n
        /\ file' \in Seq([piece : {"object", "newline"}, span : Nat, fields : Fields \cup {<<>>}])
        /\ Lines \subseteq 1 .. Len(file)
    BY <1>1, <2>1, PieceAppended
  <2>. QED
    BY <2>2, <2>3
<1>6. SpansOK' /\ StackOK' /\ NotedOK'
  BY <1>1, StacksStay
<1>7. p.span = s /\ p.fields = g /\ p.piece = "object"
  OBVIOUS
<1>. HIDE DEF p, r
<1>8. LineOK'
  <2>1. ASSUME NEW u \in Threads, line'[u] # None, NEW x, NEW h, x = line'[u].span, h = line'[u].fields
        PROVE  Told(x, h)' /\ spans[x].thread = u /\ (line'[u].written => lock = u)
    <3>1. line[u] # None /\ x = line[u].span /\ h = line[u].fields
      BY <1>2, <1>3, <1>4, <2>1
    <3>2. Told(x, h) /\ spans[x].thread = u /\ (line[u].written => lock = u)
      BY <3>1 DEF TraceInv, LineOK
    <3>. QED
      BY <1>1, <1>4, <3>2, ToldStays
  <2>2. line' \in [Threads -> Record \cup {None}]
    BY <1>1, <1>3
  <2>3. line'[lock] # None
    BY <1>1, <1>3, <1>4
  <2>. QED
    BY <1>1, <2>1, <2>2, <2>3 DEF TraceInv, LineOK
<1>9. FileOK'
  <2>1. ASSUME NEW i \in Lines', NEW x, NEW h, x = file'[i].span, h = file'[i].fields
        PROVE  Told(x, h)'
    <3>1. CASE i \in Lines
      <4>1. Told(x, h)
        BY <1>5, <2>1, <3>1 DEF TraceInv, FileOK
      <4>. QED
        BY <1>1, <4>1, ToldStays
    <3>2. CASE i = n
      <4>1. Told(x, h)
        BY <1>2, <1>5, <1>7, <2>1, <3>2
      <4>. QED
        BY <1>1, <4>1, ToldStays
    <3>. QED
      BY <1>5, <3>1, <3>2
  <2>. QED
    BY <1>5, <2>1 DEF FileOK
<1>10. OnceOK'
  <2>1. \A i \in Lines : file[i].span # s
    BY <1>1, <1>2 DEF TraceInv, OnceOK
  <2>2. \A i \in Lines : file'[i] = file[i]
    BY <1>5
  <2>3. ASSUME NEW i \in Lines', NEW j \in Lines', file'[i].span = file'[j].span PROVE i = j
    <3>1. CASE i \in Lines /\ j \in Lines
      BY <2>2, <2>3, <3>1 DEF TraceInv, OnceOK
    <3>2. CASE i = n \/ j = n
      BY <1>5, <1>7, <2>1, <2>2, <2>3, <3>2
    <3>. QED
      BY <1>5, <3>1, <3>2
  <2>4. ASSUME NEW u \in Threads, line'[u] # None, ~line'[u].written, NEW i \in Lines'
        PROVE  file'[i].span # line'[u].span
    <3>1. u # t /\ line'[u] = line[u]
      BY <1>3, <1>4, <2>4
    <3>2. line[u].span # s
      BY <1>2, <2>4, <3>1, Writer
    <3>3. CASE i \in Lines
      BY <2>2, <2>4, <3>1, <3>3 DEF TraceInv, OnceOK
    <3>4. CASE i = n
      BY <1>5, <1>7, <3>1, <3>2, <3>4
    <3>. QED
      BY <1>5, <3>3, <3>4
  <2>. QED
    BY <2>3, <2>4 DEF OnceOK
<1>11. ~broken => PiecesOK'
  <2>. SUFFICES ASSUME ~broken PROVE PiecesOK'
    OBVIOUS
  <2>1. PiecesOK /\ Len(file) % 2 = 0
    BY <1>1 DEF TraceInv, PiecesOK, Halfway
  <2>2. n % 2 = 1 /\ n \in Nat
    BY <1>5, <2>1
  <2>3. ASSUME NEW i \in 1 .. n
        PROVE  /\ file'[i].piece = IF i % 2 = 1 THEN "object" ELSE "newline"
               /\ i % 2 = 0 => file'[i].span = file'[i - 1].span
    <3>1. CASE i = n
      BY <1>5, <1>7, <2>2, <3>1
    <3>2. CASE i \in 1 .. Len(file)
      <4>1. i % 2 = 0 => i - 1 \in 1 .. Len(file)
        BY <1>5, <3>2
      <4>. QED
        BY <1>5, <2>1, <3>2, <4>1 DEF PiecesOK
    <3>. QED
      BY <1>5, <3>1, <3>2
  <2>4. Halfway' /\ file'[Len(file')].span = line'[lock'].span
    BY <1>1, <1>3, <1>4, <1>5, <1>7 DEF Halfway
  <2>. QED
    BY <1>5, <2>2, <2>3, <2>4 DEF PiecesOK
<1>12. ~broken => AllTold'
  <2>1. ASSUME NEW u \in Threads, line[u] # None
        PROVE  line'[u] # None /\ line'[u].span = line[u].span
    BY <1>3, <1>4, <2>1
  <2>2. \A i \in Lines : i \in Lines' /\ file'[i] = file[i]
    BY <1>5
  <2>3. ASSUME ~broken, NEW x \in 1 .. Len(spans), IsStage(x), ~spans[x].open
        PROVE  \/ \E i \in Lines' : file'[i].span = x
               \/ \E u \in Threads : line'[u] # None /\ line'[u].span = x
    <3>1. \/ \E i \in Lines : file[i].span = x
          \/ \E u \in Threads : line[u] # None /\ line[u].span = x
      BY <2>3 DEF TraceInv, AllTold
    <3>. QED
      BY <2>1, <2>2, <3>1
  <2>. QED
    BY <1>1, <2>3 DEF AllTold, IsStage
<1>. QED
  BY <1>1, <1>6, <1>8, <1>9, <1>10, <1>11, <1>12 DEF TraceInv

\* The record of t is done with.
LEMMA WrittenLines ==
  ASSUME StagesAssumption, TraceInv, NEW t \in Threads, lock = t, Written(t),
         UNCHANGED <<spans, stack, noted>>
  PROVE  /\ LineOK' /\ lock' = None /\ line'[t] = None
         /\ \A u \in Threads : u # t => line'[u] = line[u]
<1>1. /\ line' = [line EXCEPT ![t] = None] /\ lock' = None
      /\ line \in [Threads -> Record \cup {None}]
  BY DEF Written, TraceInv, LineOK
<1>2. line'[t] = None /\ \A u \in Threads : u # t => line'[u] = line[u]
  BY <1>1
<1>3. ASSUME NEW u \in Threads, line'[u] # None, NEW x, NEW h, x = line'[u].span, h = line'[u].fields
      PROVE  Told(x, h)' /\ spans[x].thread = u /\ ~line'[u].written
  <2>1. line'[u] = line[u] /\ u # t
    BY <1>2, <1>3
  <2>2. Told(x, h) /\ spans[x].thread = u /\ ~line[u].written
    BY <1>3, <2>1 DEF TraceInv, LineOK
  <2>. QED
    BY <2>1, <2>2, ToldStays
<1>4. line' \in [Threads -> Record \cup {None}]
  BY <1>1
<1>5. LineOK'
  BY <1>1, <1>3, <1>4 DEF LineOK
<1>. QED
  BY <1>1, <1>2, <1>5

LEMMA WriteNewlineKeeps ==
  ASSUME StagesAssumption, TraceInv, NEW t \in Threads, WriteNewline(t)
  PROVE  TraceInv'
<1>. DEFINE s == line[t].span
            p == [piece |-> "newline", span |-> s, fields |-> <<>>]
            n == Len(file) + 1
<1>1. /\ lock = t /\ line[t].written /\ file' = Append(file, p) /\ Written(t)
      /\ UNCHANGED <<spans, stack, broken, noted>> /\ t # None
  BY DEF WriteNewline, StagesAssumption
<1>2. line[t] # None /\ s \in Nat
  BY <1>1, Writer
<1>3. /\ LineOK' /\ lock' = None /\ line'[t] = None
      /\ \A u \in Threads : u # t => line'[u] = line[u]
  BY <1>1, WrittenLines
<1>4. /\ Len(file) \in Nat /\ Len(file') = n /\ file'[n] = p
      /\ \A i \in 1 .. Len(file) : file'[i] = file[i]
      /\ \A i \in 1 .. Len(file') : i \in 1 .. Len(file) \/ i = n
      /\ file' \in Seq([piece : {"object", "newline"}, span : Nat, fields : Fields \cup {<<>>}])
      /\ Lines' = Lines /\ Lines \subseteq 1 .. Len(file)
  <2>1. p \in [piece : {"object", "newline"}, span : Nat, fields : Fields \cup {<<>>}]
        /\ p.piece # "object" /\ FileOK
    BY <1>2 DEF TraceInv
  <2>. HIDE DEF p
  <2>2. \A i : i \in Lines' <=> i \in Lines
    BY <1>1, <2>1, PieceAppended
  <2>. QED
    BY <1>1, <2>1, <2>2, PieceAppended
<1>5. SpansOK' /\ StackOK' /\ NotedOK'
  BY <1>1, StacksStay
<1>6. p.span = s /\ p.piece = "newline"
  OBVIOUS
<1>. HIDE DEF p
<1>7. \A i \in Lines : file'[i] = file[i]
  BY <1>4
<1>8. FileOK'
  <2>1. ASSUME NEW i \in Lines, NEW x, NEW h, x = file'[i].span, h = file'[i].fields
        PROVE  Told(x, h)'
    <3>1. Told(x, h)
      BY <1>7, <2>1 DEF TraceInv, FileOK
    <3>. QED
      BY <1>1, <3>1, ToldStays
  <2>. QED
    BY <1>4, <2>1 DEF FileOK
<1>9. OnceOK'
  <2>1. ASSUME NEW u \in Threads, line'[u] # None PROVE line'[u] = line[u]
    BY <1>3, <2>1
  <2>. QED
    BY <1>4, <1>7, <2>1, SMTT(40) DEF TraceInv, OnceOK
<1>10. ASSUME ~broken
       PROVE  PiecesOK /\ Len(file) % 2 = 1 /\ file[Len(file)].span = s
  BY <1>1, <1>10 DEF TraceInv, PiecesOK, Halfway
<1>11. ~broken => PiecesOK'
  <2>. SUFFICES ASSUME ~broken PROVE PiecesOK'
    OBVIOUS
  <2>1. n % 2 = 0 /\ n \in Nat /\ n - 1 = Len(file) /\ Len(file) \in 1 .. Len(file)
    BY <1>4, <1>10, SMTT(40)
  <2>2. ASSUME NEW i \in 1 .. n
        PROVE  /\ file'[i].piece = IF i % 2 = 1 THEN "object" ELSE "newline"
               /\ i % 2 = 0 => file'[i].span = file'[i - 1].span
    <3>1. CASE i = n
      <4>1. file'[n - 1].span = s
        BY <1>4, <1>10, <2>1
      <4>. QED
        BY <1>4, <1>6, <2>1, <3>1, <4>1
    <3>2. CASE i \in 1 .. Len(file)
      <4>1. i % 2 = 0 => i - 1 \in 1 .. Len(file)
        BY <1>4, <3>2
      <4>. QED
        BY <1>4, <1>10, <3>2, <4>1 DEF PiecesOK
    <3>. QED
      BY <1>4, <3>1, <3>2
  <2>3. ~Halfway'
    BY <1>3 DEF Halfway
  <2>. QED
    BY <1>4, <2>1, <2>2, <2>3 DEF PiecesOK
<1>12. ~broken => AllTold'
  <2>. SUFFICES ASSUME ~broken PROVE AllTold'
    OBVIOUS
  <2>1. Len(file) \in Lines /\ file[Len(file)].span = s
    <3>1. Len(file) \in 1 .. Len(file)
      BY <1>4, <1>10
    <3>. QED
      BY <1>10, <3>1 DEF PiecesOK, Lines
  <2>2. ASSUME NEW x \in 1 .. Len(spans), IsStage(x), ~spans[x].open
        PROVE  \/ \E i \in Lines : file'[i].span = x
               \/ \E u \in Threads : line'[u] # None /\ line'[u].span = x
    <3>1. CASE \E i \in Lines : file[i].span = x
      BY <1>7, <3>1
    <3>2. CASE \E u \in Threads : line[u] # None /\ line[u].span = x
      <4>1. PICK u \in Threads : line[u] # None /\ line[u].span = x
        BY <3>2
      <4>2. CASE u = t
        BY <1>7, <2>1, <4>1, <4>2
      <4>3. CASE u # t
        BY <1>3, <4>1, <4>3
      <4>. QED
        BY <4>2, <4>3
    <3>. QED
      BY <2>2, <3>1, <3>2 DEF TraceInv, AllTold
  <2>. QED
    BY <1>1, <1>4, <2>2 DEF AllTold, IsStage
<1>. QED
  BY <1>1, <1>3, <1>5, <1>8, <1>9, <1>11, <1>12 DEF TraceInv

LEMMA WriteFailsKeeps ==
  ASSUME StagesAssumption, TraceInv, NEW t \in Threads, WriteFails(t)
  PROVE  TraceInv'
<1>1. /\ lock = t /\ broken' = TRUE /\ Written(t)
      /\ UNCHANGED <<spans, stack, file, noted>>
  BY DEF WriteFails
<1>2. /\ LineOK' /\ line'[t] = None
      /\ \A u \in Threads : u # t => line'[u] = line[u]
  BY <1>1, WrittenLines
<1>3. SpansOK' /\ StackOK' /\ NotedOK'
  BY <1>1, StacksStay
<1>4. Lines' = Lines
  BY <1>1 DEF Lines
<1>5. FileOK'
  BY <1>1, <1>4 DEF TraceInv, FileOK, Told, IsStage
<1>6. OnceOK'
  <2>1. ASSUME NEW u \in Threads, line'[u] # None PROVE line'[u] = line[u]
    BY <1>2, <2>1
  <2>. QED
    BY <1>1, <1>4, <2>1 DEF TraceInv, OnceOK
<1>. QED
  BY <1>1, <1>2, <1>3, <1>5, <1>6 DEF TraceInv

-----------------------------------------------------------------------------
(* The theorem. *)

LEMMA InitTraceInv ==
  ASSUME StagesAssumption, Init
  PROVE  TraceInv
<1>1. spans = <<>> /\ file = <<>> /\ Len(spans) = 0 /\ Len(file) = 0
  BY EmptySeq DEF Init
<1>2. SpansOK
  BY <1>1, EmptySeq DEF SpansOK, StagesAssumption
<1>3. StackOK
  BY <1>1, EmptySeq DEF StackOK, Init
<1>4. NotedOK
  BY <1>1 DEF NotedOK, Init
<1>5. LineOK
  BY DEF LineOK, Init
<1>6. Lines = {}
  BY <1>1 DEF Lines
<1>7. FileOK /\ OnceOK /\ PiecesOK /\ AllTold
  <2>1. file \in Seq([piece : {"object", "newline"}, span : Nat, fields : Fields \cup {<<>>}])
    BY <1>1, EmptySeq
  <2>2. ~Halfway
    BY DEF Init, Halfway
  <2>. QED
    BY <1>1, <1>6, <2>1, <2>2 DEF FileOK, OnceOK, PiecesOK, AllTold, Init
<1>. QED
  BY <1>2, <1>3, <1>4, <1>5, <1>7 DEF TraceInv, Init

LEMMA NextTraceInv ==
  ASSUME StagesAssumption, TraceInv, [Next]_vars
  PROVE  TraceInv'
<1>1. CASE UNCHANGED vars
  <2>1. UNCHANGED <<spans, stack, line, lock, file, broken, noted>>
    BY <1>1 DEF vars
  <2>2. SpansOK' /\ StackOK' /\ NotedOK'
    BY <2>1, StacksStay
  <2>3. Grows /\ NoneCloses
    BY <2>1, LenProperties DEF Grows, NoneCloses, TraceInv, SpansOK, IsStage
  <2>. QED
    BY <2>1, <2>2, <2>3, SpansMove
<1>2. CASE Next
  <2>1. PICK t \in Threads :
          \/ EnterStage(t) \/ EnterOther(t) \/ RecordBytes(t) \/ RecordRows(t) \/ Close(t)
          \/ \E f \in Emitted \ {"stage"} : LogEvent(t, f)
          \/ Lock(t) \/ WriteObject(t) \/ WriteNewline(t) \/ WriteFails(t)
    BY <1>2 DEF Next
  <2>2. CASE EnterStage(t)
    BY <2>2, PushKeeps DEF EnterStage
  <2>3. CASE EnterOther(t)
    BY <2>3, PushKeeps DEF EnterOther
  <2>4. CASE RecordBytes(t) \/ RecordRows(t) \/ Close(t)
    BY <2>4, RecordBytesKeeps, RecordRowsKeeps, CloseKeeps
  <2>5. CASE Lock(t) \/ WriteObject(t) \/ WriteNewline(t) \/ WriteFails(t)
    BY <2>5, LockKeeps, WriteObjectKeeps, WriteNewlineKeeps, WriteFailsKeeps
  <2>6. ASSUME NEW f \in Emitted, LogEvent(t, f) PROVE TraceInv'
    BY <2>6, LogEventKeeps
  <2>. QED
    BY <2>1, <2>2, <2>3, <2>4, <2>5, <2>6
<1>. QED
  BY <1>1, <1>2

LEMMA TraceInvHonest ==
  ASSUME TraceInv
  PROVE  TraceHonest
<1>1. LineOfItsStage
  BY DEF TraceInv, FileOK, Told, LineOfItsStage
<1>2. CountsReachTheLine
  BY DEF TraceInv, FileOK, Told, CountsReachTheLine
<1>3. TraceIsLines
  <2>1. broken \in BOOLEAN /\ OnceOK /\ (~broken => PiecesOK /\ AllTold)
    BY DEF TraceInv
  <2>. QED
    BY <2>1 DEF OnceOK, PiecesOK, AllTold, TraceIsLines
<1>. QED
  BY <1>1, <1>2, <1>3 DEF TraceHonest

\* The JSONL trace, whatever number of threads open, record on and close their
\* spans at the same time: each line carries only what was recorded in its own
\* stage, and all the rows that were; and until a write fails the file is whole
\* lines, one for each stage that has closed (telemetry/jsonl.rs).
THEOREM TraceHonestHolds ==
  ASSUME StagesAssumption
  PROVE  Spec => []TraceHonest
<1>1. Init => TraceInv
  BY InitTraceInv
<1>2. TraceInv /\ [Next]_vars => TraceInv'
  BY NextTraceInv
<1>3. TraceInv => TraceHonest
  BY TraceInvHonest
<1>. QED
  BY <1>1, <1>2, <1>3, PTL DEF Spec

=============================================================================
