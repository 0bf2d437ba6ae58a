-------------------------- MODULE SDVPipelineProofs --------------------------
(***************************************************************************)
(* What a generation keeps of the data that a source has, for every        *)
(* source, limit and size.                                                 *)
(*                                                                         *)
(* The history of a run is an invariant: what was loaded, what was made of *)
(* it and which cells the sample has.  The properties of SDVPipeline follow *)
(* from it by what FlattenProofs says of single columns, AvroCellProofs of *)
(* the values of a file, and the sections below of JSON records, of the    *)
(* formats of a schema and of the ids of its fields.                       *)
(***************************************************************************)
EXTENDS SDVPipeline, FlattenProofs, AvroCellProofs

(* Each request that can be loaded gives a table. *)
TablesLoaded(Tokens, kinds, Of) ==
    \A q \in Requests : Loads(q.source, q.limit) =>
       LET loaded == LoadDataframe(q.source, q.limit) IN
       /\ CellTypes(loaded.backend, Tokens, kinds[loaded.backend], Of[loaded.backend])
       /\ TableOf(loaded.backend, Tokens, kinds[loaded.backend], Of[loaded.backend], loaded.table)

-----------------------------------------------------------------------------
(* The history of a run. *)

(* input before anything is read. *)
Nothing == [backend |-> "pandas", table |-> <<>>]

(* input is what the source gave. *)
Read ==
    /\ request \in Requests
    /\ Loads(request.source, request.limit)
    /\ input = LoadDataframe(request.source, request.limit)
    /\ NumRows > 0

(* schema and flat are made of it. *)
Flattened ==
    /\ Read
    /\ schema = Schema(input.backend, input.table)
    /\ flat = FlattenTable(input.backend, input.table)

(* Each cell of the sample is one its column has. *)
Drawn ==
    /\ Flattened
    /\ DOMAIN flat # {}
    /\ DOMAIN sampled = DOMAIN flat
    /\ Long(OutputSize, sampled)
    /\ \A name \in DOMAIN flat : \A r \in 1 .. OutputSize : \E q \in 1 .. NumRows :
          sampled[name][r] = flat[name][q]

(* Where input is what a source gave. *)
InputKnown ==
    \/ stage \in {"load", "error"} /\ input = Nothing
    \/ stage # "load" /\ Read

(* Where there are flat columns. *)
FlatKnown ==
    \/ stage \in {"load", "flatten", "error"} /\ schema = <<>> /\ flat = <<>> /\ types = <<>>
    \/ /\ stage \notin {"load", "flatten"}
       /\ Flattened
       /\ DOMAIN types \in {{}, DOMAIN flat}
       /\ stage = "sample" => DOMAIN flat # {}

(* A column without nulls has the same type in the sample. *)
TypesKnown ==
    LET before == FlatTypes(input.backend, input.table, flat) IN
    /\ stage \in {"fit", "sample"} => types = before
    /\ stage \in {"unflatten", "done"} =>
          \A name \in DOMAIN before :
             before[name] # "null" /\ (\A q \in 1 .. NumRows : flat[name][q] # Null)
             => types[name] = before[name]

(* Where there is a sample. *)
SampleKnown ==
    \/ stage \notin {"unflatten", "done"} /\ sampled = <<>>
    \/ stage \in {"unflatten", "done", "error"} /\ Drawn

(* Where there is a result. *)
ResultKnown ==
    stage = "done" => result = UnflattenTable(input.backend, schema, sampled, OutputSize)

(* All of it: the invariant. *)
History ==
    /\ stage \in {"load", "flatten", "fit", "sample", "unflatten", "done", "error"}
    /\ request \in Requests
    /\ InputKnown
    /\ FlatKnown
    /\ TypesKnown
    /\ SampleKnown
    /\ ResultKnown

(* A run begins with nothing. *)
LEMMA HistoryStarts == Init => History
BY DEF Init, History, InputKnown, FlatKnown, TypesKnown, SampleKnown, ResultKnown, Nothing

(* What a sample does to the types of columns without nulls. *)
LEMMA SampleTypes ==
  ASSUME History, Sample
  PROVE  TypesKnown'
<1> DEFINE before == FlatTypes(input.backend, input.table, flat)
<1>1. Flattened /\ types = before /\ stage' = "unflatten" /\ UNCHANGED <<request, input, flat>>
  BY DEF History, FlatKnown, TypesKnown, Sample
<1>2. OutputSize \in Nat \ {0} /\ OutputSize' = OutputSize
  BY <1>1, RequestsAssumption DEF OutputSize, Flattened, Read
<1>3. PICK row \in [DOMAIN flat -> [1 .. OutputSize -> 1 .. NumRows]] :
         sampled' = [name \in DOMAIN flat |-> [r \in 1 .. OutputSize |-> flat[name][row[name][r]]]]
  BY DEF Sample
<1>4. PICK texts \in SUBSET Unconverted(sampled') :
         types' = [name \in DOMAIN types |->
                     IF name \in texts THEN "string" ELSE SampledType(sampled', name)]
  BY DEF Sample
<1>5. DOMAIN before \subseteq DOMAIN flat
  BY DEF FlatTypes
<1> HIDE DEF before
<1>6. ASSUME NEW name \in DOMAIN before, before[name] # "null",
             \A q \in 1 .. NumRows : flat[name][q] # Null
      PROVE  types'[name] = before[name]
  <2>1. name \in DOMAIN flat
    BY <1>5, <1>6
  <2>2. \A r \in 1 .. OutputSize : sampled'[name][r] = flat[name][row[name][r]] /\ row[name][r] \in 1 .. NumRows
    BY <1>3, <2>1
  <2>3. Nulls(sampled', name) = {}
    BY <1>6, <2>2 DEF Nulls
  <2>4. name \notin Unconverted(sampled')
    <3>1. 1 \in 1 .. OutputSize
      BY <1>2
    <3>2. Nulls(sampled', name) # 1 .. OutputSize
      BY <2>3, <3>1
    <3> QED
      BY <2>3, <3>2 DEF Unconverted
  <2>5. types'[name] = SampledType(sampled', name)
    BY <1>1, <1>4, <2>4
  <2> QED
    BY <1>1, <1>6, <2>3, <2>5 DEF SampledType
<1>7. before' = before /\ NumRows' = NumRows
  BY <1>1 DEF before, NumRows
<1> QED
  BY <1>1, <1>6, <1>7 DEF TypesKnown, before

(* Every step adds to the history what it does. *)
LEMMA HistoryKept == History /\ [Next]_vars => History'
<1> SUFFICES ASSUME History, [Next]_vars
             PROVE  History'
  OBVIOUS
<1> USE DEF History
<1>1. CASE Load
  BY <1>1 DEF Load, InputKnown, FlatKnown, TypesKnown, SampleKnown, ResultKnown, Read, NumRows
<1>2. CASE FlattenData
  <2>1. Read /\ Read' /\ stage = "flatten" /\ stage' = "fit" /\ Flattened'
    BY <1>2 DEF FlattenData, InputKnown, Read, Flattened, NumRows
  <2>2. types' = FlatTypes(input.backend, input.table, flat)' /\ DOMAIN types' \in {{}, DOMAIN flat'}
    <3>1. types' = FlatTypes(input.backend, input.table, flat)'
      BY <1>2 DEF FlattenData
    <3> QED
      BY <3>1 DEF FlatTypes
  <2> QED
    BY <1>2, <2>1, <2>2 DEF FlattenData, InputKnown, FlatKnown, TypesKnown, SampleKnown, ResultKnown
<1>3. CASE Fit
  <2>1. Flattened /\ Flattened' /\ Read'
    BY <1>3 DEF Fit, FlatKnown, Read, Flattened, NumRows
  <2> QED
    BY <1>3, <2>1 DEF Fit, InputKnown, FlatKnown, TypesKnown, SampleKnown, ResultKnown
<1>4. CASE Sample
  <2>1. Flattened /\ Flattened' /\ Read' /\ stage' = "unflatten" /\ DOMAIN flat # {}
    BY <1>4 DEF Sample, FlatKnown, Read, Flattened, NumRows
  <2>2. Drawn'
    <3>1. PICK row \in [DOMAIN flat -> [1 .. OutputSize -> 1 .. NumRows]] :
             sampled' = [name \in DOMAIN flat |-> [r \in 1 .. OutputSize |-> flat[name][row[name][r]]]]
      BY <1>4 DEF Sample
    <3>2. flat' = flat /\ OutputSize' = OutputSize /\ NumRows' = NumRows
      BY <1>4 DEF Sample, OutputSize, NumRows
    <3>3. Long(OutputSize', sampled')
      BY <3>1, <3>2 DEF Long
    <3>4. ASSUME NEW name \in DOMAIN flat, NEW r \in 1 .. OutputSize
          PROVE  row[name][r] \in 1 .. NumRows /\ sampled'[name][r] = flat[name][row[name][r]]
      BY <3>1
    <3>5. DOMAIN sampled' = DOMAIN flat'
      BY <3>1, <3>2
    <3> QED
      BY <2>1, <3>2, <3>3, <3>4, <3>5 DEF Drawn
  <2>3. TypesKnown'
    BY <1>4, SampleTypes
  <2>4. DOMAIN types' \in {{}, DOMAIN flat'}
    BY <1>4 DEF Sample, FlatKnown
  <2> QED
    BY <1>4, <2>1, <2>2, <2>3, <2>4 DEF Sample, InputKnown, FlatKnown, SampleKnown, ResultKnown
<1>5. CASE Unflatten
  <2>1. Drawn /\ Flattened /\ Read
    BY <1>5 DEF Unflatten, SampleKnown, Flattened, Drawn
  <2>2. Drawn' /\ Flattened' /\ Read'
    <3>1. UNCHANGED <<request, input, schema, flat, sampled>>
      BY <1>5 DEF Unflatten
    <3>2. Read' /\ NumRows' = NumRows /\ OutputSize' = OutputSize
      BY <2>1, <3>1 DEF Read, NumRows, OutputSize
    <3>3. Flattened'
      BY <2>1, <3>1, <3>2 DEF Flattened
    <3> QED
      BY <2>1, <3>1, <3>2, <3>3 DEF Drawn
  <2>3. result' = UnflattenTable(input.backend, schema, sampled, OutputSize)'
    BY <1>5 DEF Unflatten, OutputSize
  <2> QED
    BY <1>5, <2>1, <2>2, <2>3 DEF Unflatten, InputKnown, FlatKnown, TypesKnown, SampleKnown, ResultKnown, NumRows
<1>6. CASE Fails
  BY <1>6 DEF Fails, InputKnown, FlatKnown, TypesKnown, SampleKnown, ResultKnown, Read, Flattened, Drawn, NumRows, OutputSize
<1>7. CASE UNCHANGED vars
  BY <1>7 DEF vars, InputKnown, FlatKnown, TypesKnown, SampleKnown, ResultKnown, Read, Flattened, Drawn, NumRows, OutputSize
<1> QED
  BY <1>1, <1>2, <1>3, <1>4, <1>5, <1>6, <1>7 DEF Next, Ended

(* The history of every run is known. *)
THEOREM HistoryKnown == Spec => []History
<1> QED
  BY HistoryStarts, HistoryKept, PTL DEF Spec
-----------------------------------------------------------------------------
(* Tables that were read. *)

(* What is known of input then. *)
LEMMA ReadTable ==
  ASSUME NEW Tokens, NEW kinds, NEW Of, TablesLoaded(Tokens, kinds, Of), Read
  PROVE  /\ input.backend \in {"pandas", "arrow"}
         /\ CellTypes(input.backend, Tokens, kinds[input.backend], Of[input.backend])
         /\ TableOf(input.backend, Tokens, kinds[input.backend], Of[input.backend], input.table)
         /\ NumRows = Len(input.table[1].cells)
         /\ \A i \in DOMAIN input.table : Len(input.table[i].cells) = NumRows
<1>1. NumRows = Len(input.table[1].cells)
  BY DEF Read, NumRows
<1>2. /\ CellTypes(input.backend, Tokens, kinds[input.backend], Of[input.backend])
      /\ TableOf(input.backend, Tokens, kinds[input.backend], Of[input.backend], input.table)
  BY DEF Read, TablesLoaded
<1>3. \A i \in DOMAIN input.table : Len(input.table[i].cells) = Len(input.table[1].cells)
  BY <1>2 DEF TableOf
<1>4. input.backend \in {"pandas", "arrow"}
  BY <1>2 DEF CellTypes
<1> QED
  BY <1>1, <1>2, <1>3, <1>4

(* There is nothing in a table before it is read. *)
LEMMA NothingRead == input = Nothing => NumRows = 0 /\ input.table = <<>> /\ ~Read
BY DEF Nothing, NumRows, Read

(* Every step gives its result the size it should have: each flat column as *)
(* many cells as the table has rows, the sample and the result as many     *)
(* rows as were asked for.                                                 *)
THEOREM PipelineTypes ==
  ASSUME FlattenRecursion, NEW Tokens, NEW kinds, NEW Of, TablesLoaded(Tokens, kinds, Of)
  PROVE  Spec => []TypeOK
<1>1. ASSUME History PROVE TypeOK
  <2>1. /\ stage \in {"load", "flatten", "fit", "sample", "unflatten", "done", "error"}
        /\ request \in Requests
        /\ stage \notin {"load", "error"} => NumRows > 0
        /\ input.backend \in {"pandas", "arrow"}
    BY <1>1, ReadTable DEF History, InputKnown, Read, Nothing
  <2>2. /\ Len(schema) \in {0, Len(input.table)}
        /\ \A name \in DOMAIN flat : Len(flat[name]) = NumRows
        /\ DOMAIN types \in {{}, DOMAIN flat}
    <3>1. CASE schema = <<>> /\ flat = <<>> /\ types = <<>>
      BY <3>1
    <3>2. CASE Flattened /\ DOMAIN types \in {{}, DOMAIN flat}
      <4>1. /\ CellTypes(input.backend, Tokens, kinds[input.backend], Of[input.backend])
            /\ TableOf(input.backend, Tokens, kinds[input.backend], Of[input.backend], input.table)
            /\ NumRows = Len(input.table[1].cells)
        BY <3>2, ReadTable DEF Flattened
      <4>2. Len(schema) = Len(input.table)
        BY <3>2, <4>1 DEF Flattened, Schema, TableOf
      <4>3. Long(NumRows, flat)
        BY <3>2, <4>1, TableLong DEF Flattened
      <4>4. NumRows \in Nat
        <5> DEFINE table == input.table
        <5>3. table # <<>>
          BY <3>2 DEF Flattened, Read, NumRows
        <5>4. Len(table) \in Nat
          BY <4>1 DEF TableOf
        <5>5. table = [i \in 1 .. Len(table) |-> table[i]]
          BY <4>1 DEF TableOf
        <5> HIDE DEF table
        <5>2. 1 \in DOMAIN table
          BY <5>3, <5>4, <5>5
        <5>1. ColumnOf(input.backend, Tokens, kinds[input.backend], Of[input.backend], input.table[1])
          BY <4>1, <5>2 DEF TableOf, table
        <5> QED
          BY <4>1, <5>1 DEF ColumnOf
      <4>5. \A name \in DOMAIN flat : Len(flat[name]) = NumRows
        BY <4>3, <4>4 DEF Long
      <4> QED
        BY <3>2, <4>2, <4>5
    <3> QED
      BY <1>1, <3>1, <3>2 DEF History, FlatKnown
  <2>3. \A name \in DOMAIN sampled : Len(sampled[name]) = OutputSize
    <3>1. CASE sampled = <<>>
      BY <3>1
    <3>2. CASE Drawn
      <4>1. OutputSize \in Nat
        BY <2>1, RequestsAssumption DEF OutputSize
      <4> QED
        BY <3>2, <4>1 DEF Drawn, Long
    <3> QED
      BY <1>1, <3>1, <3>2 DEF History, SampleKnown
  <2>4. stage = "done" => Len(result) = Len(input.table)
    <3>1. SUFFICES ASSUME stage = "done" PROVE Len(result) = Len(input.table)
      OBVIOUS
    <3>2. Drawn /\ result = UnflattenTable(input.backend, schema, sampled, OutputSize)
      BY <1>1, <3>1 DEF History, SampleKnown, ResultKnown
    <3>3. TableOf(input.backend, Tokens, kinds[input.backend], Of[input.backend], input.table)
      BY <3>2, ReadTable DEF Drawn, Flattened
    <3> QED
      BY <3>2, <3>3 DEF Drawn, Flattened, Schema, UnflattenTable, TableOf
  <2> QED
    BY <2>1, <2>2, <2>3, <2>4 DEF TypeOK
<1> QED
  BY <1>1, HistoryKnown, PTL

(* No keys in a column meet at a flat name. *)
ColumnApart(b, column) == NamesApart(b, Values(b, column.cells), Node(b, column), column.name)

(* The flat cells of row r of a column that has its names to itself are     *)
(* those that flattening makes of row r.                                   *)
LEMMA OwnRow ==
  ASSUME NEW Tokens, NEW kinds, NEW Of, TablesLoaded(Tokens, kinds, Of), Flattened, InputApart,
         NEW i \in DOMAIN input.table, NEW r
  PROVE  /\ TakenFrom({r}, flat, r, FlattenColumn(input.backend, input.table[i]))
         /\ ColumnApart(input.backend, input.table[i])
<1>1. TableOf(input.backend, Tokens, kinds[input.backend], Of[input.backend], input.table)
  BY ReadTable DEF Flattened
<1>2. ColumnsApart(input.backend, input.table)
  BY DEF InputApart, Apart
<1>3. \A long \in DOMAIN FlattenColumn(input.backend, input.table[i]) :
         FlattenTable(input.backend, input.table)[long] = FlattenColumn(input.backend, input.table[i])[long]
  BY <1>1, <1>2, FlatApart DEF TableOf
<1>4. ColumnApart(input.backend, input.table[i])
  BY DEF InputApart, Apart, ColumnApart
<1> QED
  BY <1>3, <1>4 DEF TakenFrom, Flattened

(* What Restored is. *)
LEMMA RestoredCell ==
  ASSUME NEW Tokens, NEW kinds, NEW Of, TablesLoaded(Tokens, kinds, Of), Flattened, DOMAIN flat # {}
  PROVE  Restored = [i \in DOMAIN input.table |-> [r \in 1 .. NumRows |->
                       CellOf(input.backend, flat, Node(input.backend, input.table[i]), input.table[i].name, r)]]
BY DEF Restored, UnflattenTable, Flattened, Schema

(* unflatten() undoes flatten() for every table where nothing meets at a    *)
(* flat name, inside a column or across columns.                           *)
THEOREM PipelineRoundTrip ==
  ASSUME FlattenRecursion, NEW Tokens, NEW kinds, NEW Of, TablesLoaded(Tokens, kinds, Of)
  PROVE  Spec => []RoundTrip
<1>1. ASSUME History PROVE RoundTrip
  <2>1. SUFFICES ASSUME DOMAIN flat # {}, InputApart,
                        NEW i \in DOMAIN input.table, NEW r \in 1 .. NumRows
                 PROVE  Returned(Original[i][r], Restored[i][r])
    BY DEF RoundTrip
  <2>2. Flattened
    BY <1>1, <2>1 DEF History, FlatKnown
  <2>3. /\ CellTypes(input.backend, Tokens, kinds[input.backend], Of[input.backend])
        /\ ColumnOf(input.backend, Tokens, kinds[input.backend], Of[input.backend], input.table[i])
        /\ r \in 1 .. Len(input.table[i].cells)
    BY <2>2, ReadTable DEF TableOf, Flattened
  <2>4. /\ TakenFrom({r}, flat, r, FlattenColumn(input.backend, input.table[i]))
        /\ ColumnApart(input.backend, input.table[i])
    BY <2>1, <2>2, OwnRow
  <2>5. Returned(Values(input.backend, input.table[i].cells)[r],
                 CellOf(input.backend, flat, Node(input.backend, input.table[i]), input.table[i].name, r))
    BY <2>3, <2>4, ColumnReturned DEF ColumnApart
  <2>6. Original[i] = Values(input.backend, input.table[i].cells)
    BY DEF Original
  <2> QED
    BY <2>1, <2>2, <2>5, <2>6, RestoredCell
<1> QED
  BY <1>1, HistoryKnown, PTL

(* Frames without nulls, where nothing meets, come back as they were.      *)
THEOREM PipelineFrames ==
  ASSUME FlattenRecursion, NEW Tokens, NEW kinds, NEW Of, TablesLoaded(Tokens, kinds, Of)
  PROVE  Spec => []FramesComeBack
<1>1. ASSUME History PROVE FramesComeBack
  <2>1. SUFFICES ASSUME DOMAIN flat # {}, input.backend = "pandas", InputApart,
                        \A i \in DOMAIN input.table : Whole(Range(input.table[i].cells))
                 PROVE  Restored = Original
    BY DEF FramesComeBack
  <2>2. Flattened
    BY <1>1, <2>1 DEF History, FlatKnown
  <2>3. ASSUME NEW i \in DOMAIN input.table
        PROVE  [r \in 1 .. NumRows |-> CellOf("pandas", flat, Node("pandas", input.table[i]), input.table[i].name, r)]
                 = Values("pandas", input.table[i].cells)
    <3> DEFINE column == input.table[i]
    <3>1. /\ CellTypes("pandas", Tokens, kinds["pandas"], Of["pandas"])
          /\ ColumnOf("pandas", Tokens, kinds["pandas"], Of["pandas"], column)
          /\ NumRows = Len(column.cells)
      <4>1. /\ CellTypes(input.backend, Tokens, kinds[input.backend], Of[input.backend])
            /\ TableOf(input.backend, Tokens, kinds[input.backend], Of[input.backend], input.table)
            /\ NumRows = Len(column.cells)
        BY <2>2, ReadTable DEF Flattened
      <4>2. /\ CellTypes("pandas", Tokens, kinds["pandas"], Of["pandas"])
            /\ TableOf("pandas", Tokens, kinds["pandas"], Of["pandas"], input.table)
        BY <2>1, <4>1
      <4> QED
        BY <4>1, <4>2 DEF TableOf
    <3>2. Whole(Range(column.cells))
      BY <2>1
    <3>3. /\ \A r : TakenFrom({r}, flat, r, FlattenColumn("pandas", column))
          /\ ColumnApart("pandas", column)
      BY <2>1, <2>2, OwnRow
    <3> HIDE DEF column
    <3>4. ASSUME NEW r \in 1 .. NumRows
          PROVE  CellOf("pandas", flat, Node("pandas", column), column.name, r) = column.cells[r]
      <4>1. r \in 1 .. Len(column.cells) /\ TakenFrom({r}, flat, r, FlattenColumn("pandas", column))
        BY <3>1, <3>3
      <4> QED
        BY <3>1, <3>2, <3>3, <4>1, ColumnSame DEF ColumnApart
    <3>5. column.cells = [r \in 1 .. NumRows |-> column.cells[r]]
      BY <3>1 DEF ColumnOf
    <3>6. Values("pandas", column.cells) = column.cells
      BY DEF Values
    <3> QED
      BY <3>4, <3>5, <3>6 DEF column
  <2> QED
    BY <2>1, <2>2, <2>3, RestoredCell DEF Original
<1> QED
  BY <1>1, HistoryKnown, PTL

(* Whatever rows are mixed, every cell of the result has the shape and the  *)
(* values of its column in the source, where nothing meets.                *)
THEOREM PipelineFits ==
  ASSUME FlattenRecursion, NEW Tokens, NEW kinds, NEW Of, TablesLoaded(Tokens, kinds, Of)
  PROVE  Spec => []SampledFits
<1>1. ASSUME History PROVE SampledFits
  <2>1. SUFFICES ASSUME stage = "done", InputApart,
                        NEW i \in DOMAIN input.table, NEW r \in 1 .. OutputSize
                 PROVE  Fits(input.backend, result[i][r], Range(Original[i]))
    BY DEF SampledFits
  <2> DEFINE column == input.table[i]
             b == input.backend
  <2>2. Drawn /\ Flattened /\ result = UnflattenTable(b, schema, sampled, OutputSize)
    BY <1>1, <2>1 DEF History, SampleKnown, ResultKnown, Drawn
  <2>3. /\ CellTypes(b, Tokens, kinds[b], Of[b])
        /\ ColumnOf(b, Tokens, kinds[b], Of[b], column)
        /\ NumRows = Len(column.cells)
    BY <2>2, ReadTable DEF TableOf, Flattened
  <2>4. TakenFrom(1 .. Len(column.cells), sampled, r, FlattenColumn(b, column))
    <3>1. ColumnsApart(b, input.table)
      BY <2>1 DEF InputApart, Apart
    <3>2. ASSUME NEW long \in DOMAIN FlattenColumn(b, column)
          PROVE  \E q \in 1 .. NumRows : sampled[long][r] = FlattenColumn(b, column)[long][q]
      <4>1. Len(input.table) \in Nat /\ input.table = [j \in 1 .. Len(input.table) |-> input.table[j]]
        BY <2>2, ReadTable DEF TableOf, Flattened
      <4>2. long \in DOMAIN FlattenTable(b, input.table) /\ FlattenTable(b, input.table)[long] = FlattenColumn(b, column)[long]
        BY <3>1, <4>1, FlatApart
      <4>3. long \in DOMAIN flat /\ flat[long] = FlattenColumn(b, column)[long]
        BY <2>2, <4>2 DEF Flattened
      <4> QED
        BY <2>1, <2>2, <4>3 DEF Drawn
    <3> QED
      BY <2>3, <3>2 DEF TakenFrom
  <2>5. Fits(b, CellOf(b, sampled, Node(b, column), column.name, r), Range(Values(b, column.cells)))
    <3>1. ColumnApart(b, column)
      BY <2>1 DEF InputApart, Apart, ColumnApart
    <3> HIDE DEF b, column
    <3> QED
      BY <2>3, <2>4, <3>1, ColumnFits DEF ColumnApart
  <2>6. Original[i] = Values(b, column.cells)
    BY DEF Original
  <2>7. result[i][r] = CellOf(b, sampled, Node(b, column), column.name, r)
    <3>1. result = [j \in DOMAIN schema |-> [q \in 1 .. OutputSize |->
                      CellOf(b, sampled, schema[j].root, schema[j].name, q)]]
      BY <2>1, <2>2 DEF UnflattenTable, Drawn
    <3>2. i \in DOMAIN schema /\ schema[i] = [name |-> column.name, root |-> Node(b, column)]
      BY <2>1, <2>2 DEF Drawn, Flattened, Schema
    <3> HIDE DEF b, column
    <3> QED
      BY <2>1, <3>1, <3>2
  <2> QED
    BY <2>5, <2>6, <2>7
<1> QED
  BY <1>1, HistoryKnown, PTL
-----------------------------------------------------------------------------
(* Types. *)

(* The kinds of the cells of a scalar type. *)
KindsOf(of) ==
    CASE of \in {"long", "uint64"} -> {"num"}
      [] of = "string" -> TextKinds
      [] of = "timestamp" -> {"time"}
      [] of = "boolean" -> {"flag"}
      [] OTHER -> {"date"}

(* An Arrow table has cells of the kinds that its scalar types have. *)
ScalarsTyped(ofLevel, Of) ==
    \A n \in Nat : \A type \in ofLevel[n] : type.t = "scalar" =>
       /\ type = ScalarOf(type.of)
       /\ type.of \in {"long", "uint64", "string", "timestamp", "boolean", "date"}
       /\ \A c \in Of[type] : c = Null \/ c.k \in KindsOf(type.of)

(* A scalar column of an Arrow table is its own flat column. *)
LEMMA ScalarColumn ==
  ASSUME NEW column, column.type.t = "scalar"
  PROVE  FlattenColumn("arrow", column) = [long \in {column.name} |-> Values("arrow", column.cells)]
<1>1. Node("arrow", column) = ScalarNode(Dtype(column.type.of))
  BY DEF Node, InferArrow
<1>2. Node("arrow", column).k = "scalar"
  BY <1>1 DEF ScalarNode
<1> QED
  BY <1>2 DEF FlattenColumn, FlattenCells

(* What the type of such a column is inferred to be. *)
LEMMA ScalarInferred ==
  ASSUME NEW kinds, NEW Of, ScalarsTyped(kinds, Of), NEW n \in Nat, NEW type \in kinds[n],
         type.t = "scalar", type.of # "timestamp",
         NEW cells \in Seq(Of[type]), Len(cells) > 0, Null \notin Range(cells)
  PROVE  InferredType(Values("arrow", cells)) = FlatTypeOf(type.of)
<1> DEFINE values == Values("arrow", cells)
           ks == {values[r].k : r \in DOMAIN values}
<1>1. \A r \in DOMAIN cells : cells[r].k \in KindsOf(type.of)
  BY DEF ScalarsTyped, Range
<1>2. type.of \in {"long", "uint64", "string", "boolean", "date"}
  BY DEF ScalarsTyped
<1>3. \A r \in DOMAIN cells : cells[r].k \notin {"time", "dict", "list", "null"}
  BY <1>1, <1>2 DEF KindsOf, TextKinds
<1>4. \A r \in DOMAIN cells : Rendered(cells[r]) = cells[r]
  BY <1>3 DEF Rendered
<1>5. DOMAIN values = DOMAIN cells /\ \A r \in DOMAIN cells : values[r] = cells[r]
  BY <1>4 DEF Values
<1>6. 1 \in DOMAIN cells
  OBVIOUS
<1>7. ks # {} /\ ks \subseteq KindsOf(type.of) /\ "null" \notin ks
  BY <1>1, <1>3, <1>5, <1>6
<1>8. ks \ {"null"} = ks
  BY <1>7
<1>9. InferredType(values) =
        CASE ks = {} -> "null"
          [] ks = {"num"} -> "int64"
          [] ks # {} /\ ks \subseteq TextKinds -> "string"
          [] ks = {"flag"} -> "bool"
          [] ks = {"date"} -> "date32"
          [] OTHER -> "other"
  BY <1>8 DEF InferredType
<1> HIDE DEF ks, values
<1>10. CASE type.of = "string"
  <2>1. ks # {} /\ ks \subseteq TextKinds
    BY <1>7, <1>10 DEF KindsOf
  <2>2. ks # {"num"} /\ ks # {"flag"} /\ ks # {"date"}
    BY <2>1 DEF TextKinds
  <2>3. ks # {}
    BY <2>1
  <2>4. InferredType(values) = "string"
    BY <1>9, <2>1, <2>2, <2>3
  <2>5. FlatTypeOf(type.of) = "string"
    BY <1>10 DEF FlatTypeOf
  <2> QED
    BY <2>4, <2>5 DEF values
<1>11. CASE type.of # "string"
  <2>1. \E kind \in {"num", "flag", "date"} : KindsOf(type.of) = {kind} /\ ks = {kind}
    BY <1>2, <1>7, <1>11 DEF KindsOf
  <2>2. PICK kind \in {"num", "flag", "date"} : KindsOf(type.of) = {kind} /\ ks = {kind}
    BY <2>1
  <2>3. ~(ks \subseteq TextKinds)
    BY <2>2 DEF TextKinds
  <2>4. \/ type.of \in {"long", "uint64"} /\ kind = "num"
        \/ type.of = "boolean" /\ kind = "flag"
        \/ type.of = "date" /\ kind = "date"
    BY <1>2, <1>11, <2>2 DEF KindsOf
  <2>5. ks # {}
    BY <2>2
  <2>6. CASE kind = "num"
    <3>1. InferredType(values) = "int64"
      BY <1>9, <2>2, <2>3, <2>5, <2>6
    <3>2. FlatTypeOf(type.of) = "int64"
      BY <2>4, <2>6 DEF FlatTypeOf
    <3> QED
      BY <3>1, <3>2 DEF values
  <2>7. CASE kind = "flag"
    <3>1. InferredType(values) = "bool"
      BY <1>9, <2>2, <2>3, <2>5, <2>7
    <3>2. FlatTypeOf(type.of) = "bool"
      BY <2>4, <2>7 DEF FlatTypeOf
    <3> QED
      BY <3>1, <3>2 DEF values
  <2>8. CASE kind = "date"
    <3>1. InferredType(values) = "date32"
      BY <1>9, <2>2, <2>3, <2>5, <2>8
    <3>2. FlatTypeOf(type.of) = "date32"
      BY <2>4, <2>8 DEF FlatTypeOf
    <3> QED
      BY <3>1, <3>2 DEF values
  <2> QED
    BY <2>6, <2>7, <2>8
<1> QED
  BY <1>10, <1>11

(* Whatever the sample, a scalar column that had no nulls is written with   *)
(* the type that stands for the type of the source.                        *)
THEOREM PipelineKeepsTypes ==
  ASSUME FlattenRecursion, NEW Tokens, NEW kinds, NEW Of, TablesLoaded(Tokens, kinds, Of),
         ScalarsTyped(kinds["arrow"], Of["arrow"])
  PROVE  Spec => []TypesKept
<1>1. ASSUME History PROVE TypesKept
  <2>1. SUFFICES ASSUME stage \in {"unflatten", "done"}, input.backend = "arrow",
                        ColumnsApart(input.backend, input.table),
                        NEW i \in DOMAIN input.table, input.table[i].type.t = "scalar",
                        Null \notin Range(input.table[i].cells)
                 PROVE  types[input.table[i].name] = FlatTypeOf(input.table[i].type.of)
    BY DEF TypesKept
  <2> DEFINE column == input.table[i]
             name == column.name
             before == FlatTypes("arrow", input.table, flat)
  <2>2. Drawn /\ Flattened /\ Read
    BY <1>1, <2>1 DEF History, SampleKnown, Drawn, Flattened
  <2>3. /\ ColumnOf("arrow", Tokens, kinds["arrow"], Of["arrow"], column)
        /\ CellTypes("arrow", Tokens, kinds["arrow"], Of["arrow"])
        /\ NumRows = Len(column.cells) /\ NumRows > 0
        /\ Len(input.table) \in Nat /\ input.table = [j \in 1 .. Len(input.table) |-> input.table[j]]
    <3>1. /\ CellTypes(input.backend, Tokens, kinds[input.backend], Of[input.backend])
          /\ TableOf(input.backend, Tokens, kinds[input.backend], Of[input.backend], input.table)
          /\ NumRows = Len(column.cells)
      BY <2>2, ReadTable
    <3>2. /\ CellTypes("arrow", Tokens, kinds["arrow"], Of["arrow"])
          /\ TableOf("arrow", Tokens, kinds["arrow"], Of["arrow"], input.table)
      BY <2>1, <3>1
    <3> QED
      BY <2>2, <3>1, <3>2 DEF TableOf, Read
  <2>4. PICK n \in Nat : \E type \in kinds["arrow"][n] : column.cells \in Seq(Of["arrow"][type]) /\ column.type = type
    BY <2>3 DEF ColumnOf
  <2>5. column.type \in kinds["arrow"][n] /\ column.cells \in Seq(Of["arrow"][column.type])
    BY <2>4
  <2>6. ColumnsApart("arrow", input.table)
    BY <2>1
  <2>7. FlattenColumn("arrow", column) = [long \in {name} |-> Values("arrow", column.cells)]
    BY <2>1, ScalarColumn
  <2>8. name \in DOMAIN flat /\ flat[name] = Values("arrow", column.cells)
    <3>1. name \in DOMAIN FlattenColumn("arrow", column) /\ FlattenColumn("arrow", column)[name] = Values("arrow", column.cells)
      BY <2>7
    <3>2. flat = FlattenTable("arrow", input.table)
      BY <2>1, <2>2 DEF Flattened
    <3> QED
      BY <2>3, <2>6, <3>1, <3>2, FlatApart
  <2>9. before[name] = IF name \in Timestamps(input.table) THEN "string" ELSE InferredType(flat[name])
    BY <2>8 DEF FlatTypes
  <2>10. name \in DOMAIN before
    BY <2>8 DEF FlatTypes
  <2>11. before[name] = FlatTypeOf(column.type.of)
    <3>1. CASE column.type.of = "timestamp"
      <4>1. column.type = [t |-> "scalar", of |-> "timestamp"]
        BY <2>1, <2>5, <3>1 DEF ScalarsTyped, ScalarOf
      <4>2. name \in Timestamps(input.table)
        BY <4>1 DEF Timestamps
      <4>3. FlatTypeOf(column.type.of) = "string"
        BY <3>1 DEF FlatTypeOf
      <4> QED
        BY <2>9, <4>2, <4>3
    <3>2. CASE column.type.of # "timestamp"
      <4>1. ASSUME name \in Timestamps(input.table) PROVE FALSE
        <5>1. PICK j \in DOMAIN input.table : /\ input.table[j].type = [t |-> "scalar", of |-> "timestamp"]
                                              /\ input.table[j].name = name
          BY <4>1 DEF Timestamps
        <5>2. j # i
          BY <3>2, <5>1
        <5>3. name \in DOMAIN FlattenColumn("arrow", input.table[j])
          <6>1. input.table[j].type.t = "scalar"
            BY <5>1
          <6>2. FlattenColumn("arrow", input.table[j]) =
                  [long \in {input.table[j].name} |-> Values("arrow", input.table[j].cells)]
            BY <6>1, ScalarColumn
          <6> QED
            BY <5>1, <6>2
        <5>4. name \in DOMAIN FlattenColumn("arrow", input.table[i])
          BY <2>7
        <5> QED
          BY <2>6, <5>2, <5>3, <5>4 DEF ColumnsApart
      <4>2. InferredType(Values("arrow", column.cells)) = FlatTypeOf(column.type.of)
        BY <2>1, <2>3, <2>5, <3>2, ScalarInferred
      <4> QED
        BY <2>8, <2>9, <4>1, <4>2
    <3> QED
      BY <3>1, <3>2
  <2>12. before[name] # "null"
    BY <2>11 DEF FlatTypeOf
  <2>13. \A q \in 1 .. NumRows : flat[name][q] # Null
    <3>1. ASSUME NEW q \in 1 .. NumRows PROVE Rendered(column.cells[q]) # Null
      <4>1. column.cells[q] # Null
        BY <2>1, <2>3, <2>5 DEF Range
      <4> QED
        BY <4>1 DEF Rendered, Null, Text, Dict, List
    <3>2. DOMAIN column.cells = 1 .. NumRows
      BY <2>3, <2>5
    <3> QED
      BY <2>8, <3>1, <3>2 DEF Values
  <2> HIDE DEF name, before
  <2>14. types[name] = before[name]
    BY <1>1, <2>1, <2>10, <2>12, <2>13 DEF History, TypesKnown, before
  <2> QED
    BY <2>11, <2>14 DEF name
<1> QED
  BY <1>1, HistoryKnown, PTL
-----------------------------------------------------------------------------
(* Records that were read. *)

(* The rows that are asked for of so many. *)
Asked(limit, length) == IF limit = NoLimit THEN length ELSE Min({limit, length})

(* A sequence, of whatever. *)
IsSequence(s) == Len(s) \in Nat /\ s = [i \in 1 .. Len(s) |-> s[i]]

(* As many as there are, or the limit when that is less. *)
LEMMA AskedIs ==
  ASSUME NEW limit \in Nat, NEW length \in Nat
  PROVE  /\ Asked(limit, length) \in 0 .. length
         /\ Asked(limit, length) = IF limit # NoLimit /\ length > limit THEN limit ELSE length
<1>1. CASE limit <= length
  <2>1. \A x \in {limit, length} : (\A y \in {limit, length} : x <= y) => x = limit
    BY <1>1
  <2>2. limit \in {limit, length} /\ \A y \in {limit, length} : limit <= y
    BY <1>1
  <2>3. Min({limit, length}) = limit
    BY <2>1, <2>2 DEF Min
  <2> QED
    BY <1>1, <2>3 DEF Asked, NoLimit
<1>2. CASE ~(limit <= length)
  <2>1. \A x \in {limit, length} : (\A y \in {limit, length} : x <= y) => x = length
    BY <1>2
  <2>2. length \in {limit, length} /\ \A y \in {limit, length} : length <= y
    BY <1>2
  <2>3. Min({limit, length}) = length
    BY <2>1, <2>2 DEF Min
  <2> QED
    BY <1>2, <2>3 DEF Asked, NoLimit
<1> QED
  BY <1>1, <1>2

(* What is kept of a column are its first rows. *)
LEMMA LimitedIs ==
  ASSUME NEW rows, IsSequence(rows), NEW limit \in Nat
  PROVE  /\ Limited(rows, limit) = [r \in 1 .. Asked(limit, Len(rows)) |-> rows[r]]
         /\ Len(Limited(rows, limit)) = Asked(limit, Len(rows))
<1> DEFINE n == Len(rows)
           V == {rows[r] : r \in 1 .. n}
<1>1. n \in Nat /\ rows \in Seq(V)
  BY DEF IsSequence
<1>2. Asked(limit, n) \in 0 .. n /\ Asked(limit, n) = IF limit # NoLimit /\ n > limit THEN limit ELSE n
  BY <1>1, AskedIs
<1>3. CASE limit # NoLimit /\ n > limit
  <2>1. Limited(rows, limit) = SubSeq(rows, 1, limit)
    BY <1>3 DEF Limited
  <2> HIDE DEF V
  <2>2. SubSeq(rows, 1, limit) = [r \in 1 .. limit |-> rows[r]]
    BY <1>1, <1>3
  <2> QED
    BY <1>2, <1>3, <2>1, <2>2
<1>4. CASE ~(limit # NoLimit /\ n > limit)
  <2>1. Limited(rows, limit) = rows
    BY <1>4 DEF Limited
  <2> QED
    BY <1>2, <1>4, <2>1 DEF IsSequence
<1> QED
  BY <1>3, <1>4

(* The files that are loaded have records, fields and columns of the types. *)
FilesOf(ofLevel, In) ==
    \A q \in Requests : q.source.kind = "avro-ocf" =>
       /\ IsSequence(q.source.records)
       /\ IsSequence(q.source.schema.fields)
       /\ \A i \in DOMAIN q.source.schema.fields :
             LET name == q.source.schema.fields[i].name
                 type == ConvertSchema(q.source.schema, q.source.large)[name]
             IN /\ \E n \in Nat : type \in ofLevel[n]
                /\ \A r \in DOMAIN q.source.records : Get(q.source.records[r], name) \in In[type]

(* Each column of a file that is loaded has the records that were asked for. *)
LEMMA FileColumn ==
  ASSUME ConversionRecursion, NEW kinds, NEW In, ValuesOf(kinds, In), FilesOf(kinds, In),
         NEW q \in Requests, q.source.kind = "avro-ocf", Loads(q.source, q.limit),
         NEW i \in DOMAIN q.source.schema.fields
  PROVE  LET records == q.source.records
             count == Asked(q.limit, Len(records))
             column == LoadDataframe(q.source, q.limit).table[i]
         IN /\ Len(column.cells) = count
            /\ \A r \in 1 .. count : Carries(Get(records[r], q.source.schema.fields[i].name),
                                             column.type, column.cells[r])
<1> DEFINE source == q.source
           limit == q.limit
           records == source.records
           count == Asked(limit, Len(records))
           name == source.schema.fields[i].name
           type == ConvertSchema(source.schema, source.large)[name]
           read == ReadRecords(source, limit)
           values == [r \in DOMAIN read |-> Get(read[r], name)]
           column == LoadDataframe(source, limit).table[i]
<1>1. limit \in Nat /\ IsSequence(records) /\ Len(records) \in Nat
  BY RequestsAssumption DEF FilesOf, IsSequence
<1>2. /\ LoadDataframe(source, limit).table = AvroTable(source, limit)
      /\ AvroLoads(source, limit)
  BY DEF LoadDataframe, Loads
<1>3. read = [r \in 1 .. count |-> records[r]]
  <2>1. read = Limited(records, limit)
    BY DEF ReadRecords, Limited
  <2> QED
    BY <1>1, <2>1, LimitedIs
<1>4. count \in 0 .. Len(records)
  BY <1>1, AskedIs
<1>5. column = [name |-> Spelled(name), type |-> type, cells |-> BuildArray(values, type)]
  BY <1>2 DEF AvroTable, RecordsToTable
<1>6. \A r \in 1 .. count : ~Raises(column.cells[r])
  BY <1>2, <1>3 DEF AvroLoads
<1>7. values = [r \in 1 .. count |-> Get(records[r], name)]
  BY <1>3
<1>8. TypeCarried(type, In) /\ \A r \in 1 .. count : Get(records[r], name) \in In[type]
  <2>1. \A r \in DOMAIN records : Get(records[r], name) \in In[type]
    BY DEF FilesOf
  <2>2. \A r \in 1 .. count : r \in DOMAIN records
    BY <1>1, <1>4 DEF IsSequence
  <2>3. PICK n \in Nat : type \in kinds[n]
    BY DEF FilesOf
  <2> QED
    BY <2>1, <2>2, <2>3, AllCarried
<1> HIDE DEF count, type, values, column, name, records
<1>9. values \in Seq(In[type]) /\ Len(values) = count
  BY <1>4, <1>7, <1>8
<1>10. ColumnCarried(values, type)
  BY <1>8, <1>9 DEF TypeCarried
<1>11. column.cells = BuildArray(values, type) /\ column.type = type
  BY <1>5
<1>12. Len(column.cells) = count /\ \A r \in 1 .. count : Carries(values[r], type, column.cells[r])
  <2>1. count \in Nat
    BY <1>4 DEF records
  <2> QED
    BY <1>6, <1>9, <1>10, <1>11, <2>1 DEF ColumnCarried
<1>13. \A r \in 1 .. count : values[r] = Get(records[r], name)
  BY <1>7
<1> QED
  BY <1>11, <1>12, <1>13 DEF column, count, name, records

(* A set as a sequence has each member once. *)
LEMMA SequenceOfSet ==
  ASSUME NEW S, IsFiniteSet(S)
  PROVE  /\ SetToSeq(S) \in Seq(S)
         /\ IsInjective(SetToSeq(S))
         /\ Range(SetToSeq(S)) = S
<1> DEFINE n == Cardinality(S)
           f == SetToSeq(S)
<1>1. n \in Nat
  BY FS_CardinalityType
<1>2. PICK g \in [1 .. n -> S] : IsInjective(g)
  <2>1. PICK g : g \in Bijection(1 .. n, S)
    BY FS_CardinalityType DEF ExistsBijection
  <2>2. g \in [1 .. n -> S] /\ \A a, b \in 1 .. n : g[a] = g[b] => a = b
    BY <2>1 DEF Bijection, Injection, IsInjective
  <2> QED
    BY <2>2 DEF IsInjective
<1>3. f \in [1 .. n -> S] /\ IsInjective(f)
  BY <1>2 DEF SetToSeq
<1> HIDE DEF f, n
<1>4. f \in Injection(1 .. n, S)
  BY <1>3 DEF Injection, IsInjective
<1>5. Cardinality(1 .. n) = n
  BY <1>1, FS_Interval
<1>6. f \in Surjection(1 .. n, S)
  BY <1>4, <1>5, FS_Injection DEF n
<1>7. \A x \in S : \E i \in 1 .. n : f[i] = x
  BY <1>6 DEF Surjection
<1>8. Range(f) = S
  BY <1>3, <1>7 DEF Range
<1> QED
  BY <1>1, <1>3, <1>8 DEF f

(* Every key of the records has one column. *)
LEMMA KeysSeen ==
  ASSUME NEW records, IsSequence(records), NEW K,
         \A r \in DOMAIN records : DOMAIN records[r].f \subseteq K /\ IsFiniteSet(DOMAIN records[r].f)
  PROVE  /\ ColumnKeys(records) \in Seq(K)
         /\ IsInjective(ColumnKeys(records))
         /\ Range(ColumnKeys(records)) = UNION {DOMAIN records[r].f : r \in DOMAIN records}
<1> DEFINE n == Len(records)
           keys(r) == DOMAIN records[r].f
           New(v, r) == SetToSeq(keys(r) \ Range(v))
           Body(f) == [r \in 0 .. n |-> IF r = 0 THEN <<>> ELSE f[r - 1] \o New(f[r - 1], r)]
           seen == CHOOSE f : f = Body(f)
           step == [p \in Nat \X Seq(K) |->
                      IF p[1] + 1 \in 1 .. n THEN p[2] \o New(p[2], p[1] + 1) ELSE p[2]]
           Good(v, r) == /\ v \in Seq(K)
                         /\ IsInjective(v)
                         /\ Range(v) = UNION {keys(q) : q \in 1 .. r}
<1>1. n \in Nat /\ DOMAIN records = 1 .. n
      /\ \A r \in 1 .. n : keys(r) \subseteq K /\ IsFiniteSet(keys(r))
  BY DEF IsSequence
<1>2. ColumnKeys(records) = seen[n]
  BY DEF ColumnKeys
<1> HIDE DEF n, keys
<1>3. ASSUME NEW v \in Seq(K), NEW r \in 1 .. n
      PROVE  /\ New(v, r) \in Seq(K) /\ IsInjective(New(v, r))
             /\ Range(New(v, r)) = keys(r) \ Range(v)
  <2> DEFINE S == keys(r) \ Range(v)
  <2>1. IsFiniteSet(S) /\ S \subseteq K
    BY <1>1, FS_Subset
  <2> HIDE DEF S
  <2>2. SetToSeq(S) \in Seq(S) /\ IsInjective(SetToSeq(S)) /\ Range(SetToSeq(S)) = S
    BY <2>1, SequenceOfSet
  <2>3. SetToSeq(S) \in Seq(K)
    BY <2>1, <2>2
  <2> QED
    BY <2>2, <2>3 DEF S
<1> HIDE DEF New
<1>4. step \in [Nat \X Seq(K) -> Seq(K)]
  <2>1. ASSUME NEW v \in Seq(K), NEW r \in 1 .. n PROVE v \o New(v, r) \in Seq(K)
    BY <1>3, Appended
  <2> QED
    BY <2>1
<1>5. \A i \in Nat, v \in Seq(K) :
         step[<<i, v>>] = IF i + 1 \in 1 .. n THEN v \o New(v, i + 1) ELSE v
  OBVIOUS
<1> HIDE DEF step
<1>6. PICK g \in [Nat -> Seq(K)] : Follows(g, <<>>, step)
  <2>1. <<>> \in Seq(K)
    OBVIOUS
  <2> QED
    BY <1>4, <2>1, Recursion
<1> DEFINE t == [r \in 0 .. n |-> g[r]]
<1>7. t = Body(t)
  <2>1. ASSUME NEW r \in 0 .. n, r # 0 PROVE t[r] = t[r - 1] \o New(t[r - 1], r)
    <3>1. r - 1 \in Nat /\ (r - 1) + 1 = r /\ r - 1 \in 0 .. n /\ r \in 1 .. n
      BY <1>1, <2>1
    <3>2. g[(r - 1) + 1] = step[<<r - 1, g[r - 1]>>] /\ g[r - 1] \in Seq(K)
      BY <1>6, <3>1 DEF Follows
    <3> QED
      BY <1>5, <3>1, <3>2
  <2>2. t[0] = <<>>
    BY <1>1, <1>6 DEF Follows
  <2>3. t = [r \in 0 .. n |-> t[r]]
    OBVIOUS
  <2> HIDE DEF t
  <2> QED
    BY <2>1, <2>2, <2>3
<1>8. seen = Body(seen)
  BY <1>7
<1> HIDE DEF seen, t
<1>9. seen[0] = <<>> /\ \A r \in 1 .. n : seen[r] = seen[r - 1] \o New(seen[r - 1], r)
  <2>1. 0 \in 0 .. n /\ \A r \in 1 .. n : r \in 0 .. n /\ r # 0
    BY <1>1
  <2> QED
    BY <1>8, <2>1
<1>10. ASSUME NEW r \in 1 .. n, Good(seen[r - 1], r - 1) PROVE Good(seen[r], r)
  <2> DEFINE v == seen[r - 1]
             w == New(v, r)
  <2>1. v \in Seq(K) /\ IsInjective(v) /\ Range(v) = UNION {keys(q) : q \in 1 .. r - 1}
    BY <1>10
  <2>2. w \in Seq(K) /\ IsInjective(w) /\ Range(w) = keys(r) \ Range(v)
    BY <1>3, <2>1
  <2>3. seen[r] = v \o w
    BY <1>9
  <2> HIDE DEF v, w
  <2>4. /\ v \o w \in Seq(K) /\ Len(v \o w) = Len(v) + Len(w)
        /\ \A i \in 1 .. Len(v) : (v \o w)[i] = v[i]
        /\ \A i \in 1 .. Len(w) : (v \o w)[Len(v) + i] = w[i]
    BY <2>1, <2>2, Appended
  <2>5. Len(v) \in Nat /\ Len(w) \in Nat /\ DOMAIN v = 1 .. Len(v) /\ DOMAIN w = 1 .. Len(w)
        /\ DOMAIN (v \o w) = 1 .. Len(v) + Len(w)
    <3>1. \A s \in Seq(K) : Len(s) \in Nat /\ DOMAIN s = 1 .. Len(s)
      OBVIOUS
    <3> QED
      BY ONLY <2>1, <2>2, <2>4, <3>1
  <2> DEFINE all == v \o w
  <2> HIDE DEF all
  <2>6. \A i \in 1 .. Len(v) + Len(w) : i \in 1 .. Len(v) \/ \E j \in 1 .. Len(w) : i = Len(v) + j
    <3>1. ASSUME NEW i \in 1 .. Len(v) + Len(w), i \notin 1 .. Len(v)
          PROVE  \E j \in 1 .. Len(w) : i = Len(v) + j
      <4>1. i - Len(v) \in 1 .. Len(w) /\ i = Len(v) + (i - Len(v))
        BY <2>5, <3>1
      <4> QED
        BY <4>1
    <3> QED
      BY <3>1
  <2>7. \A i \in 1 .. Len(v) : i \in 1 .. Len(v) + Len(w)
    BY <2>5
  <2>8. \A j \in 1 .. Len(w) : Len(v) + j \in 1 .. Len(v) + Len(w)
    BY <2>5
  <2>9. Range(all) = Range(v) \cup Range(w)
    <3>1. /\ Range(all) = {all[i] : i \in 1 .. Len(v) + Len(w)}
          /\ Range(v) = {v[i] : i \in 1 .. Len(v)}
          /\ Range(w) = {w[i] : i \in 1 .. Len(w)}
      BY <2>5 DEF Range, all
    <3>2. \A i \in 1 .. Len(v) : all[i] = v[i]
      BY <2>4 DEF all
    <3>3. \A j \in 1 .. Len(w) : all[Len(v) + j] = w[j]
      BY <2>4 DEF all
    <3>4. ASSUME NEW i \in 1 .. Len(v) + Len(w) PROVE all[i] \in Range(v) \cup Range(w)
      <4>1. CASE i \in 1 .. Len(v)
        BY <3>1, <3>2, <4>1
      <4>2. CASE i \notin 1 .. Len(v)
        <5>1. PICK j \in 1 .. Len(w) : i = Len(v) + j
          BY <2>6, <4>2
        <5> QED
          BY <3>1, <3>3, <5>1
      <4> QED
        BY <4>1, <4>2
    <3>5. \A x \in Range(v) \cup Range(w) : x \in Range(all)
      BY <2>7, <2>8, <3>1, <3>2, <3>3
    <3> QED
      BY <3>1, <3>4, <3>5
  <2>10. IsInjective(all)
    <3>1. SUFFICES ASSUME NEW i \in 1 .. Len(v) + Len(w), NEW j \in 1 .. Len(v) + Len(w), all[i] = all[j]
                   PROVE  i = j
      BY <2>5 DEF IsInjective, all
    <3>2. \A a \in 1 .. Len(v) : all[a] = v[a] /\ v[a] \in Range(v)
      BY <2>4, <2>5 DEF Range, all
    <3>3. \A a \in 1 .. Len(w) : all[Len(v) + a] = w[a] /\ w[a] \in Range(w)
      BY <2>4, <2>5 DEF Range, all
    <3>4. Range(v) \cap Range(w) = {}
      BY <2>2
    <3>5. CASE i \in 1 .. Len(v) /\ j \in 1 .. Len(v)
      <4>1. v[i] = v[j] /\ i \in DOMAIN v /\ j \in DOMAIN v
        BY <2>5, <3>1, <3>2, <3>5
      <4> QED
        BY <2>1, <4>1 DEF IsInjective
    <3>6. CASE i \in 1 .. Len(v) /\ j \notin 1 .. Len(v)
      <4>1. PICK a \in 1 .. Len(w) : j = Len(v) + a
        BY <2>6, <3>6
      <4> QED
        BY <3>1, <3>2, <3>3, <3>4, <3>6, <4>1
    <3>7. CASE i \notin 1 .. Len(v) /\ j \in 1 .. Len(v)
      <4>1. PICK a \in 1 .. Len(w) : i = Len(v) + a
        BY <2>6, <3>7
      <4> QED
        BY <3>1, <3>2, <3>3, <3>4, <3>7, <4>1
    <3>8. CASE i \notin 1 .. Len(v) /\ j \notin 1 .. Len(v)
      <4>1. PICK a \in 1 .. Len(w) : i = Len(v) + a
        BY <2>6, <3>8
      <4>2. PICK c \in 1 .. Len(w) : j = Len(v) + c
        BY <2>6, <3>8
      <4>3. w[a] = w[c]
        BY <3>1, <3>3, <4>1, <4>2
      <4>4. a = c
        <5>1. a \in DOMAIN w /\ c \in DOMAIN w
          BY <2>5
        <5> QED
          BY <2>2, <4>3, <5>1 DEF IsInjective
      <4> QED
        BY <4>1, <4>2, <4>4
    <3> QED
      BY <3>5, <3>6, <3>7, <3>8
  <2>11. Range(v) \cup Range(w) = UNION {keys(q) : q \in 1 .. r}
    <3>1. /\ \A q \in 1 .. r : q = r \/ q \in 1 .. r - 1
          /\ \A q \in 1 .. r - 1 : q \in 1 .. r
          /\ r \in 1 .. r
      BY <1>1
    <3>2. UNION {keys(q) : q \in 1 .. r} = (UNION {keys(q) : q \in 1 .. r - 1}) \cup keys(r)
      BY <3>1
    <3> QED
      BY <2>1, <2>2, <3>2
  <2> QED
    BY <2>3, <2>4, <2>9, <2>10, <2>11 DEF all
<1>11. Good(seen[0], 0)
  <2>1. 1 .. 0 = {} /\ DOMAIN <<>> = {}
    OBVIOUS
  <2>2. UNION {keys(q) : q \in 1 .. 0} = {}
    BY <2>1
  <2> QED
    BY <1>9, <2>1, <2>2 DEF IsInjective, Range
<1> HIDE DEF Good
<1> DEFINE T == {r \in 1 .. n + 1 : Good(seen[r - 1], r - 1)}
<1>12. 1 \in T
  <2>1. 1 \in 1 .. n + 1 /\ 1 - 1 = 0
    BY <1>1
  <2> QED
    BY <1>11, <2>1
<1>13. ASSUME NEW r \in 1 .. (n + 1) - 1, r \in T PROVE r + 1 \in T
  <2>1. r \in 1 .. n /\ r + 1 \in 1 .. n + 1 /\ (r + 1) - 1 = r
    BY <1>1
  <2> QED
    BY <1>10, <1>13, <2>1
<1>14. n + 1 \in Nat /\ n + 1 > 0 /\ n + 1 \in 1 .. n + 1 /\ (n + 1) - 1 = n
  BY <1>1
<1> HIDE DEF T
<1>15. \A r \in 1 .. n + 1 : r \in T
  BY <1>12, <1>13, <1>14, InductionAlong
<1>16. Good(seen[n], n)
  BY <1>14, <1>15 DEF T
<1> QED
  BY <1>1, <1>2, <1>16 DEF Good, keys

(* JSON records are dictionaries. *)
JsonRecords ==
    \A q \in Requests : q.source.kind = "json" =>
       /\ IsSequence(q.source.records)
       /\ \A r \in DOMAIN q.source.records :
             q.source.records[r].k = "dict" /\ IsFiniteSet(DOMAIN q.source.records[r].f)

(* A frame has one column for each key, with the first records.             *)
FrameOfFirst(records, count, table) ==
    /\ IsSequence(table)
    /\ \A i \in DOMAIN table :
          /\ Len(table[i].cells) = count
          /\ \E key \in Keys(Range(records)) :
                /\ table[i].name = Spelled(key)
                /\ \A r \in 1 .. count : table[i].cells[r] = Get(records[r], key)
    /\ \A key \in Keys(Range(records)) :
          Cardinality({i \in DOMAIN table : table[i].name = Spelled(key)}) = 1

(* So does the one that is loaded, with those that were asked for.          *)
LEMMA FrameColumns ==
  ASSUME JsonRecords, NEW q \in Requests, q.source.kind = "json"
  PROVE  FrameOfFirst(q.source.records, Asked(q.limit, Len(q.source.records)),
                      LoadDataframe(q.source, q.limit).table)
<1> DEFINE records == q.source.records
           limit == q.limit
           count == Asked(limit, Len(records))
           table == LoadDataframe(q.source, limit).table
           keys == ColumnKeys(records)
           K == UNION {DOMAIN records[r].f : r \in DOMAIN records}
<1>1. IsSequence(records) /\ limit \in Nat
      /\ \A r \in DOMAIN records : DOMAIN records[r].f \subseteq K /\ IsFiniteSet(DOMAIN records[r].f)
  BY RequestsAssumption DEF JsonRecords
<1>2. table = LimitedTable(FrameOf(records), limit)
  BY DEF LoadDataframe
<1>3. /\ Keys(Range(records)) = K
      /\ \A key, other \in K : Spelled(key) = Spelled(other) => key = other
  <2>1. \A r \in DOMAIN records : records[r].k = "dict"
    BY DEF JsonRecords
  <2>2. Dicts(Range(records)) = {records[r] : r \in DOMAIN records}
    BY <2>1 DEF Dicts, Range
  <2>3. Keys(Range(records)) = K
    BY <2>2 DEF Keys
  <2>4. \A key, other \in Keys(Range(records)) : Spelled(key) = Spelled(other) => key = other
    BY KeysAssumption
  <2> QED
    BY <2>3, <2>4
<1> HIDE DEF records, limit, table
<1>4. keys \in Seq(K) /\ IsInjective(keys) /\ Range(keys) = K
  <2> HIDE DEF K
  <2>1. keys \in Seq(K) /\ IsInjective(keys)
    BY <1>1, KeysSeen
  <2>2. Range(keys) = UNION {DOMAIN records[r].f : r \in DOMAIN records}
    BY <1>1, KeysSeen
  <2> QED
    BY <2>1, <2>2 DEF K
<1>5. Len(keys) \in Nat /\ DOMAIN keys = 1 .. Len(keys)
  BY <1>4
<1> HIDE DEF keys
<1>6. table = [i \in 1 .. Len(keys) |->
                 [name |-> Spelled(keys[i]), type |-> ScalarOf("object"),
                  cells |-> Limited([r \in DOMAIN records |-> Get(records[r], keys[i])], limit)]]
  <2>1. FrameOf(records) = [i \in 1 .. Len(keys) |->
                              [name |-> Spelled(keys[i]), type |-> ScalarOf("object"),
                               cells |-> [r \in DOMAIN records |-> Get(records[r], keys[i])]]]
    BY <1>5 DEF FrameOf, keys
  <2> QED
    BY <1>2, <2>1 DEF LimitedTable
<1>7. IsSequence(table)
  BY <1>5, <1>6 DEF IsSequence
<1>8. ASSUME NEW i \in DOMAIN table
      PROVE  /\ Len(table[i].cells) = count
             /\ \E key \in K : /\ table[i].name = Spelled(key)
                               /\ \A r \in 1 .. count : table[i].cells[r] = Get(records[r], key)
  <2> DEFINE cells == [r \in DOMAIN records |-> Get(records[r], keys[i])]
  <2>1. Len(cells) = Len(records) /\ IsSequence(cells) /\ Len(records) \in Nat /\ DOMAIN records = 1 .. Len(records)
    BY <1>1 DEF IsSequence
  <2>2. /\ Limited(cells, limit) = [r \in 1 .. count |-> cells[r]]
        /\ Len(Limited(cells, limit)) = count
    <3> HIDE DEF cells, count
    <3>1. /\ Limited(cells, limit) = [r \in 1 .. Asked(limit, Len(cells)) |-> cells[r]]
          /\ Len(Limited(cells, limit)) = Asked(limit, Len(cells))
      BY <1>1, <2>1, LimitedIs
    <3>2. Asked(limit, Len(cells)) = count
      BY <2>1 DEF count
    <3> QED
      BY <3>1, <3>2
  <2>3. count \in 0 .. Len(records)
    BY <1>1, <2>1, AskedIs
  <2>4. table[i].cells = Limited(cells, limit) /\ table[i].name = Spelled(keys[i])
    BY <1>6
  <2>5. keys[i] \in K
    BY <1>4, <1>5, <1>6
  <2>6. \A r \in 1 .. count : cells[r] = Get(records[r], keys[i])
    BY <2>1, <2>3
  <2> HIDE DEF cells, count
  <2>7. \A r \in 1 .. count : Limited(cells, limit)[r] = cells[r]
    BY <2>2
  <2>8. Len(table[i].cells) = count
    BY <2>2, <2>4
  <2>9. ASSUME NEW r \in 1 .. count
        PROVE  table[i].cells[r] = Get(records[r], keys[i])
    <3>1. table[i].cells[r] = cells[r]
      BY <2>4, <2>7
    <3>2. cells[r] = Get(records[r], keys[i])
      BY <2>6
    <3> QED
      BY <3>1, <3>2
  <2> QED
    BY <2>4, <2>8, <2>9, <2>5
<1>9. ASSUME NEW key \in K
      PROVE  Cardinality({i \in DOMAIN table : table[i].name = Spelled(key)}) = 1
  <2>1. PICK j \in DOMAIN keys : keys[j] = key
    BY <1>4 DEF Range
  <2>2. \A i \in DOMAIN table : table[i].name = Spelled(keys[i]) /\ i \in DOMAIN keys
    BY <1>5, <1>6
  <2>3. \A i \in DOMAIN keys : keys[i] \in K
    BY <1>4
  <2>4. DOMAIN table = DOMAIN keys
    BY <1>5, <1>6
  <2>5. {i \in DOMAIN table : table[i].name = Spelled(key)} = {j}
    BY <1>4, <1>3, <2>1, <2>2, <2>4, <2>3 DEF IsInjective
  <2> QED
    BY <2>5, FS_Singleton
<1> QED
  BY <1>7, <1>8, <1>9, <1>3 DEF FrameOfFirst, records, limit, table

(* Every value of a file or a request is loaded to its row, column and      *)
(* place, up to the limit (avro_to_arrow.py l.206-336, source.py l.96-101, *)
(* json.py l.28-32).                                                       *)
THEOREM PipelineLoads ==
  ASSUME ConversionRecursion, NEW kinds, NEW In, ValuesOf(kinds, In), FilesOf(kinds, In), JsonRecords
  PROVE  Spec => []RecordsLoaded
<1>1. ASSUME History PROVE RecordsLoaded
  <2>1. CASE stage \in {"load", "error"}
    BY <2>1 DEF RecordsLoaded, Loaded
  <2>2. CASE stage \notin {"load", "error"}
    <3>1. Read
      BY <1>1, <2>2 DEF History, InputKnown
    <3>2. /\ request \in Requests /\ Loads(request.source, request.limit)
          /\ input.table = LoadDataframe(request.source, request.limit).table
      BY <3>1 DEF Read
    <3>3. RowsAsked = Asked(request.limit, Len(Records))
      BY DEF RowsAsked, Asked
    <3>4. NumRows > 0 /\ input.table # <<>> /\ NumRows = Len(input.table[1].cells)
      BY <3>1 DEF Read, NumRows
    <3>5. CASE IsAvro
      <4>1. Len(Fields) \in Nat /\ DOMAIN Fields = 1 .. Len(Fields)
        BY <3>2, <3>5 DEF FilesOf, IsSequence, IsAvro, Fields
      <4>2. 1 \in DOMAIN Fields
        <5>1. input.table = AvroTable(request.source, request.limit)
          BY <3>2, <3>5 DEF LoadDataframe, IsAvro
        <5>2. input.table = [i \in DOMAIN Fields |-> input.table[i]]
          BY <5>1 DEF AvroTable, RecordsToTable, Fields
        <5>3. Len(Fields) # 0
          BY <3>4, <4>1, <5>2
        <5> QED
          BY <4>1, <5>3
      <4>3. \A i \in DOMAIN Fields :
               /\ Len(input.table[i].cells) = RowsAsked
               /\ \A r \in 1 .. RowsAsked : Carries(Get(Records[r], Fields[i].name), input.table[i].type, input.table[i].cells[r])
        <5>1. request.source.kind = "avro-ocf"
          BY <3>5 DEF IsAvro
        <5> QED
          BY <3>2, <3>3, <5>1, FileColumn DEF Fields, Records
      <4>4. NumRows = RowsAsked
        BY <3>4, <4>2, <4>3
      <4> QED
        BY <3>5, <4>3, <4>4 DEF RecordsLoaded, IsAvro
    <3>6. CASE request.source.kind = "json"
      <4>1. FrameOfFirst(Records, RowsAsked, input.table)
        BY <3>2, <3>3, <3>6, FrameColumns DEF Records
      <4>2. 1 \in DOMAIN input.table
        BY <3>4, <4>1 DEF FrameOfFirst, IsSequence
      <4>3. NumRows = RowsAsked
        BY <3>4, <4>1, <4>2 DEF FrameOfFirst
      <4> QED
        BY <3>6, <4>1, <4>3 DEF FrameOfFirst, RecordsLoaded, IsAvro
    <3>7. CASE ~IsAvro /\ request.source.kind # "json"
      BY <3>7 DEF RecordsLoaded
    <3> QED
      BY <3>5, <3>6, <3>7
  <2> QED
    BY <2>1, <2>2
<1> QED
  BY <1>1, HistoryKnown, PTL

-----------------------------------------------------------------------------
(* The types of the columns. *)

(* Each method calls itself. *)
SchemaRecursion ==
    /\ \A type : ArrowTypeBelow(type) = ArrowType(type)
    /\ \A type, path : FormatPathsOfTypeBelow(type, path) = FormatPathsOfType(type, path)
    /\ \A type, path, formats, large :
          FixFieldBelow(type, path, formats, large) = FixField(type, path, formats, large)
    /\ \A type, within, large : ExpectedTypeBelow(type, within, large) = ExpectedType(type, within, large)

(* The types of an Avro schema that pyiceberg converts, in levels: the      *)
(* fields of a record have different names.                                *)
AvroTypes(kinds, Names) ==
    /\ "_item" \in Names
    /\ \A n \in Nat : \A type \in kinds[n] :
       \/ /\ type.a = "record"
          /\ \A i \in DOMAIN type.fields : /\ type.fields[i].name \in Names
                                           /\ type.fields[i].type \in Below(kinds, n)
          /\ \A i, j \in DOMAIN type.fields : type.fields[i].name = type.fields[j].name => i = j
       \/ type.a = "array" /\ type.items \in Below(kinds, n)
       \/ type.a = "union" /\ Len(NonNull(type)) = 1 /\ NonNull(type)[1] \in Below(kinds, n)
       \/ type.a \notin {"record", "array", "union"}

(* A path goes on below another. *)
GoesOn(long, path) ==
    Len(path) < Len(long) /\ \A i \in 1 .. Len(path) : long[i] = path[i]

(* The paths in a type. *)
PathsInside(Names, type) ==
    \A path \in Seq(Names) : \A long \in DOMAIN FormatPathsOfType(type, path) :
       long \in Seq(Names) /\ GoesOn(long, path)

(* One more name. *)
LEMMA NextPath ==
  ASSUME NEW Names, NEW path \in Seq(Names), NEW name \in Names
  PROVE  /\ Append(path, name) \in Seq(Names)
         /\ Len(Append(path, name)) = Len(path) + 1
         /\ Append(path, name)[Len(path) + 1] = name
         /\ GoesOn(Append(path, name), path)
BY DEF GoesOn

(* What is inside of a longer path is inside of the shorter one. *)
LEMMA InsideOf ==
  ASSUME NEW Names, NEW path \in Seq(Names), NEW name \in Names, NEW long \in Seq(Names),
         GoesOn(long, Append(path, name))
  PROVE  GoesOn(long, path) /\ long[Len(path) + 1] = name /\ long # Append(path, name)
<1> DEFINE next == Append(path, name)
<1>1. /\ next \in Seq(Names) /\ Len(next) = Len(path) + 1 /\ next[Len(path) + 1] = name
      /\ \A i \in 1 .. Len(path) : next[i] = path[i]
  BY NextPath DEF GoesOn
<1>2. Len(next) < Len(long) /\ \A i \in 1 .. Len(next) : long[i] = next[i]
  BY DEF GoesOn
<1> HIDE DEF next
<1>3. Len(path) \in Nat /\ Len(long) \in Nat
  OBVIOUS
<1>4. Len(path) + 1 \in 1 .. Len(next) /\ \A i \in 1 .. Len(path) : i \in 1 .. Len(next)
  BY <1>1, <1>3
<1>5. long[Len(path) + 1] = name /\ \A i \in 1 .. Len(path) : long[i] = path[i]
  BY <1>1, <1>2, <1>4
<1>6. Len(path) < Len(long) /\ Len(path) <= Len(long) /\ long # next
  BY <1>1, <1>2, <1>3
<1> QED
  BY <1>5, <1>6 DEF GoesOn, next

(* The formats of a record are those of its fields and of what is inside.  *)
LEMMA FormatsOfFields ==
  ASSUME SchemaRecursion, NEW record, NEW prefix
  PROVE  /\ \A at \in DOMAIN FormatPaths(record, prefix) : \E i \in DOMAIN record.fields :
               LET path == Append(prefix, record.fields[i].name)
                   inside == FormatPathsOfType(record.fields[i].type, path)
               IN \/ /\ at = path
                     /\ record.fields[i].format # NoFormat
                     /\ FormatPaths(record, prefix)[at] = record.fields[i].format
                  \/ /\ at \in DOMAIN inside
                     /\ ~(at = path /\ record.fields[i].format # NoFormat)
                     /\ FormatPaths(record, prefix)[at] = inside[at]
         /\ \A i \in DOMAIN record.fields :
               LET path == Append(prefix, record.fields[i].name) IN
               /\ record.fields[i].format # NoFormat => path \in DOMAIN FormatPaths(record, prefix)
               /\ DOMAIN FormatPathsOfType(record.fields[i].type, path) \subseteq DOMAIN FormatPaths(record, prefix)
<1> DEFINE D == DOMAIN record.fields
           path(i) == Append(prefix, record.fields[i].name)
           format(i) == record.fields[i].format
           inside(i) == FormatPathsOfType(record.fields[i].type, path(i))
           own(i) == {at \in {path(i)} : format(i) # NoFormat}
           of == [i \in D |-> [at \in own(i) \cup DOMAIN inside(i) |->
                                 IF at \in own(i) THEN format(i) ELSE inside(i)[at]]]
           all == FormatPaths(record, prefix)
<1>1. all = Joined(of)
  <2> DEFINE below(i) == FormatPathsOfTypeBelow(record.fields[i].type, path(i))
  <2>1. \A i \in D : below(i) = inside(i)
    BY DEF SchemaRecursion
  <2>2. all = Joined([i \in D |-> [at \in own(i) \cup DOMAIN below(i) |->
                                 IF at \in own(i) THEN format(i) ELSE below(i)[at]]])
    BY DEF FormatPaths
  <2> HIDE DEF below, inside, own, format, all
  <2>3. of = [i \in D |-> [at \in own(i) \cup DOMAIN below(i) |->
                                 IF at \in own(i) THEN format(i) ELSE below(i)[at]]]
    BY <2>1
  <2> QED
    BY <2>2, <2>3
<1> HIDE DEF all, inside, path, format, D
<1>2. \A i \in D : \A at : at \in own(i) <=> (at = path(i) /\ format(i) # NoFormat)
  OBVIOUS
<1> HIDE DEF own
<1>3. DOMAIN of = D /\ \A i \in D : DOMAIN of[i] = own(i) \cup DOMAIN inside(i)
  OBVIOUS
<1>4. \A i \in D : \A at \in DOMAIN of[i] : of[i][at] = IF at \in own(i) THEN format(i) ELSE inside(i)[at]
  OBVIOUS
<1> HIDE DEF of
<1>5. DOMAIN all = UNION {DOMAIN of[i] : i \in D}
  BY <1>1, <1>3 DEF Joined
<1>6. ASSUME NEW at \in DOMAIN all
      PROVE  \E i \in D : \/ at = path(i) /\ format(i) # NoFormat /\ all[at] = format(i)
                          \/ /\ at \in DOMAIN inside(i)
                             /\ ~(at = path(i) /\ format(i) # NoFormat)
                             /\ all[at] = inside(i)[at]
  <2> DEFINE i == CHOOSE j \in D : at \in DOMAIN of[j]
  <2>1. i \in D /\ at \in DOMAIN of[i]
    BY <1>5
  <2>2. all[at] = of[i][at]
    BY <1>1, <1>3, <1>5 DEF Joined
  <2> HIDE DEF i
  <2> QED
    BY <1>2, <1>3, <1>4, <2>1, <2>2
<1>7. ASSUME NEW i \in D
      PROVE  /\ format(i) # NoFormat => path(i) \in DOMAIN all
             /\ DOMAIN inside(i) \subseteq DOMAIN all
  BY <1>2, <1>3, <1>5
<1> QED
  BY <1>6, <1>7 DEF all, inside, path, format, D

(* All formats of a type are at paths inside of its own. *)
LEMMA AllPathsInside ==
  ASSUME SchemaRecursion, NEW kinds, NEW Names, AvroTypes(kinds, Names)
  PROVE  \A n \in Nat : \A type \in kinds[n] : PathsInside(Names, type)
<1> DEFINE T == {n \in Nat : \A type \in kinds[n] : PathsInside(Names, type)}
<1>1. ASSUME NEW n \in Nat, \A m \in 0 .. n - 1 : m \in T
      PROVE  n \in T
  <2>1. \A type \in Below(kinds, n) : PathsInside(Names, type)
    BY <1>1 DEF Below
  <2>2. ASSUME NEW type \in kinds[n], NEW path \in Seq(Names),
               NEW long \in DOMAIN FormatPathsOfType(type, path)
        PROVE  long \in Seq(Names) /\ GoesOn(long, path)
    <3>1. CASE /\ type.a = "record"
               /\ \A i \in DOMAIN type.fields : /\ type.fields[i].name \in Names
                                                /\ type.fields[i].type \in Below(kinds, n)
      <4>1. FormatPathsOfType(type, path) = FormatPaths(type, path)
        BY <3>1 DEF FormatPathsOfType
      <4>2. PICK i \in DOMAIN type.fields :
               \/ long = Append(path, type.fields[i].name)
               \/ long \in DOMAIN FormatPathsOfType(type.fields[i].type, Append(path, type.fields[i].name))
        BY <4>1, FormatsOfFields
      <4>3. type.fields[i].name \in Names /\ PathsInside(Names, type.fields[i].type)
        BY <2>1, <3>1
      <4> DEFINE name == type.fields[i].name
                 inner == type.fields[i].type
      <4>4. name \in Names /\ PathsInside(Names, inner)
            /\ (long = Append(path, name) \/ long \in DOMAIN FormatPathsOfType(inner, Append(path, name)))
        BY <4>2, <4>3
      <4> HIDE DEF name, inner
      <4>5. Append(path, name) \in Seq(Names) /\ GoesOn(Append(path, name), path)
        BY <4>4, NextPath
      <4>6. CASE long = Append(path, name)
        BY <4>5, <4>6
      <4>7. CASE long \in DOMAIN FormatPathsOfType(inner, Append(path, name))
        <5>1. long \in Seq(Names) /\ GoesOn(long, Append(path, name))
          BY <4>4, <4>5, <4>7 DEF PathsInside
        <5> QED
          BY <4>4, <5>1, InsideOf
      <4> QED
        BY <4>4, <4>6, <4>7
    <3>2. CASE type.a = "array" /\ type.items \in Below(kinds, n)
      <4> DEFINE inner == type.items
                 next == Append(path, "_item")
      <4>1. FormatPathsOfType(type, path) = FormatPathsOfType(inner, next)
        <5>1. FormatPathsOfType(type, path) = FormatPathsOfTypeBelow(inner, next)
          BY <3>2 DEF FormatPathsOfType, ItemPath
        <5> QED
          BY <5>1 DEF SchemaRecursion
      <4>2. PathsInside(Names, inner)
        BY <2>1, <3>2
      <4> HIDE DEF inner
      <4>3. "_item" \in Names
        BY DEF AvroTypes
      <4>4. next \in Seq(Names)
        BY <4>3, NextPath
      <4>5. long \in Seq(Names) /\ GoesOn(long, next)
        BY <4>1, <4>2, <4>4 DEF PathsInside
      <4> QED
        BY <4>3, <4>5, InsideOf
    <3>3. CASE type.a = "union" /\ Len(NonNull(type)) = 1 /\ NonNull(type)[1] \in Below(kinds, n)
      <4> DEFINE inner == NonNull(type)[1]
      <4>1. FormatPathsOfType(type, path) = FormatPathsOfType(inner, path)
        <5>1. FormatPathsOfType(type, path) = FormatPathsOfTypeBelow(inner, path)
          BY <3>3 DEF FormatPathsOfType
        <5> QED
          BY <5>1 DEF SchemaRecursion
      <4>2. PathsInside(Names, inner)
        BY <2>1, <3>3
      <4> HIDE DEF inner
      <4> QED
        BY <4>1, <4>2 DEF PathsInside
    <3>4. CASE type.a \notin {"record", "array", "union"}
      <4>1. FormatPathsOfType(type, path) = <<>>
        BY <3>4 DEF FormatPathsOfType
      <4> QED
        BY <4>1
    <3> QED
      BY <3>1, <3>2, <3>3, <3>4 DEF AvroTypes
  <2> QED
    BY <2>2 DEF PathsInside
<1> HIDE DEF T
<1>2. \A n \in Nat : n \in T
  BY <1>1, StrongInduction
<1> QED
  BY <1>2 DEF T

(* Without formats a type is what pyiceberg makes of it. *)
SameUnformatted(type, large) == ExpectedType(type, FALSE, large) = ArrowType(type)

(* That holds at any depth. *)
LEMMA Unformatted ==
  ASSUME SchemaRecursion, NEW kinds, NEW Names, AvroTypes(kinds, Names), NEW large
  PROVE  \A n \in Nat : \A type \in kinds[n] : SameUnformatted(type, large)
<1> DEFINE Same(type) == ExpectedType(type, FALSE, large) = ArrowType(type)
           T == {n \in Nat : \A type \in kinds[n] : Same(type)}
<1>1. ASSUME NEW n \in Nat, \A m \in 0 .. n - 1 : m \in T
      PROVE  n \in T
  <2>1. \A type \in Below(kinds, n) : Same(type)
    BY <1>1 DEF Below
  <2>2. ASSUME NEW type \in kinds[n]
        PROVE  Same(type)
    <3>1. CASE /\ type.a = "record"
               /\ \A i \in DOMAIN type.fields : type.fields[i].type \in Below(kinds, n)
               /\ \A i, j \in DOMAIN type.fields : type.fields[i].name = type.fields[j].name => i = j
      <4> DEFINE K == {type.fields[i].name : i \in DOMAIN type.fields}
                 field(name) == CHOOSE i \in DOMAIN type.fields : type.fields[i].name = name
                 found(name) == CHOOSE f \in Range(type.fields) : f.name = name
      <4>1. ArrowType(type) = [t |-> "struct",
                               fields |-> [name \in K |-> ArrowType(type.fields[field(name)].type)]]
        <5>1. ArrowType(type) = [t |-> "struct",
                                 fields |-> [name \in K |-> ArrowTypeBelow(type.fields[field(name)].type)]]
          BY <3>1 DEF ArrowType
        <5> HIDE DEF field, K
        <5> QED
          BY <5>1 DEF SchemaRecursion
      <4>2. ExpectedType(type, FALSE, large) =
               [t |-> "struct", fields |-> [name \in K |-> ExpectedType(found(name).type, FALSE, large)]]
        <5>1. ExpectedType(type, FALSE, large) =
                 [t |-> "struct", fields |-> [name \in K |-> ExpectedField(found(name), FALSE, large)]]
          BY <3>1 DEF ExpectedType
        <5> HIDE DEF found, K
        <5>2. \A name \in K : ExpectedField(found(name), FALSE, large) = ExpectedType(found(name).type, FALSE, large)
          BY DEF ExpectedField, SchemaRecursion
        <5> QED
          BY <5>1, <5>2
      <4>3. ASSUME NEW name \in K
            PROVE  ExpectedType(found(name).type, FALSE, large) = ArrowType(type.fields[field(name)].type)
        <5>1. field(name) \in DOMAIN type.fields /\ type.fields[field(name)].name = name
          OBVIOUS
        <5>2. found(name) \in Range(type.fields) /\ found(name).name = name
          <6>1. \E f \in Range(type.fields) : f.name = name
            BY <5>1 DEF Range
          <6> QED
            BY <6>1
        <5> HIDE DEF field, found
        <5>3. found(name) = type.fields[field(name)]
          BY <3>1, <5>1, <5>2 DEF Range
        <5>4. Same(type.fields[field(name)].type)
          BY <2>1, <3>1, <5>1
        <5> QED
          BY <5>3, <5>4
      <4> HIDE DEF K, field, found
      <4> QED
        BY <4>1, <4>2, <4>3
    <3>2. CASE type.a = "array" /\ type.items \in Below(kinds, n)
      <4>1. ArrowType(type) = [t |-> "list", element |-> ArrowTypeBelow(type.items)]
        BY <3>2 DEF ArrowType
      <4>2. ExpectedType(type, FALSE, large) =
               [t |-> "list", element |-> ExpectedTypeBelow(type.items, FALSE /\ ~large, large)]
        BY <3>2 DEF ExpectedType
      <4>3. ExpectedTypeBelow(type.items, FALSE /\ ~large, large) = ExpectedType(type.items, FALSE, large)
        BY DEF SchemaRecursion
      <4>4. ArrowTypeBelow(type.items) = ArrowType(type.items)
        BY DEF SchemaRecursion
      <4>5. Same(type.items)
        BY <2>1, <3>2
      <4> QED
        BY <4>1, <4>2, <4>3, <4>4, <4>5
    <3>3. CASE type.a = "union" /\ NonNull(type)[1] \in Below(kinds, n)
      <4>1. ArrowType(type) = ArrowTypeBelow(NonNull(type)[1])
        BY <3>3 DEF ArrowType
      <4>2. ExpectedType(type, FALSE, large) = ExpectedTypeBelow(NonNull(type)[1], FALSE, large)
        BY <3>3 DEF ExpectedType
      <4>3. Same(NonNull(type)[1])
        BY <2>1, <3>3
      <4> QED
        BY <4>1, <4>2, <4>3 DEF SchemaRecursion
    <3>4. CASE type.a \notin {"record", "array", "union"}
      BY <3>4 DEF ArrowType, ExpectedType
    <3> QED
      BY <3>1, <3>2, <3>3, <3>4 DEF AvroTypes
  <2> QED
    BY <2>2
<1> HIDE DEF T
<1>2. \A n \in Nat : n \in T
  BY <1>1, StrongInduction
<1> QED
  BY <1>2 DEF T, SameUnformatted

(* Two mappings of formats are the same inside of a path. *)
AgreeInside(Names, path, formats, others) ==
    \A long \in Seq(Names) : GoesOn(long, path) =>
       /\ long \in DOMAIN formats <=> long \in DOMAIN others
       /\ long \in DOMAIN formats => formats[long] = others[long]

(* The formats of a record are, inside of the path of a field, those of the *)
(* type of the field, and at the path itself that of the field.            *)
LEMMA FormatsOfField ==
  ASSUME SchemaRecursion, NEW Names, NEW record, NEW prefix \in Seq(Names),
         \A i \in DOMAIN record.fields : /\ record.fields[i].name \in Names
                                         /\ PathsInside(Names, record.fields[i].type),
         \A i, j \in DOMAIN record.fields : record.fields[i].name = record.fields[j].name => i = j,
         NEW i \in DOMAIN record.fields
  PROVE  LET path == Append(prefix, record.fields[i].name)
             all == FormatPaths(record, prefix)
         IN /\ path \in DOMAIN all <=> record.fields[i].format # NoFormat
            /\ path \in DOMAIN all => all[path] = record.fields[i].format
            /\ AgreeInside(Names, path, all, FormatPathsOfType(record.fields[i].type, path))
<1> DEFINE D == DOMAIN record.fields
           name(j) == record.fields[j].name
           path(j) == Append(prefix, name(j))
           format(j) == record.fields[j].format
           inside(j) == FormatPathsOfType(record.fields[j].type, path(j))
           all == FormatPaths(record, prefix)
<1>1. /\ \A at \in DOMAIN all : \E j \in D :
            \/ at = path(j) /\ format(j) # NoFormat /\ all[at] = format(j)
            \/ at \in DOMAIN inside(j) /\ all[at] = inside(j)[at]
      /\ \A j \in D : /\ format(j) # NoFormat => path(j) \in DOMAIN all
                      /\ DOMAIN inside(j) \subseteq DOMAIN all
  BY FormatsOfFields
<1>2. \A j \in D : name(j) \in Names
  OBVIOUS
<1>3. \A j, k \in D : name(j) = name(k) => j = k
  OBVIOUS
<1>4. ASSUME NEW j \in D
      PROVE  /\ path(j) \in Seq(Names) /\ Len(path(j)) = Len(prefix) + 1
             /\ path(j)[Len(prefix) + 1] = name(j)
  BY <1>2, NextPath
<1>5. ASSUME NEW j \in D, NEW long \in DOMAIN inside(j)
      PROVE  /\ long \in Seq(Names) /\ GoesOn(long, path(j))
             /\ long[Len(prefix) + 1] = name(j) /\ long # path(j) /\ Len(long) > Len(prefix) + 1
  <2>1. PathsInside(Names, record.fields[j].type)
    OBVIOUS
  <2> HIDE DEF name
  <2>2. long \in Seq(Names) /\ GoesOn(long, path(j))
    BY <1>4, <2>1 DEF PathsInside
  <2>3. long[Len(prefix) + 1] = name(j) /\ long # path(j)
    BY <1>2, <2>2, InsideOf
  <2>4. Len(long) > Len(prefix) + 1
    BY <1>4, <2>2 DEF GoesOn
  <2> QED
    BY <2>2, <2>3, <2>4
<1>6. i \in D
  OBVIOUS
<1> HIDE DEF inside, all, format, D
<1>7. ASSUME path(i) \in DOMAIN all
      PROVE  format(i) # NoFormat /\ all[path(i)] = format(i)
  <2>1. PICK j \in D : \/ path(i) = path(j) /\ format(j) # NoFormat /\ all[path(i)] = format(j)
                       \/ path(i) \in DOMAIN inside(j) /\ all[path(i)] = inside(j)[path(i)]
    BY <1>1, <1>7
  <2>2. CASE path(i) = path(j) /\ format(j) # NoFormat /\ all[path(i)] = format(j)
    <3>1. name(i) = name(j)
      BY <1>4, <1>6, <2>2
    <3>2. i = j
      BY <1>3, <1>6, <3>1
    <3> QED
      BY <2>2, <3>2
  <2>3. CASE path(i) \in DOMAIN inside(j)
    <3>1. Len(path(i)) > Len(prefix) + 1
      BY <1>5, <2>3
    <3>2. Len(path(i)) = Len(prefix) + 1 /\ Len(prefix) \in Nat
      BY <1>4, <1>6
    <3> QED
      BY <3>1, <3>2
  <2> QED
    BY <2>1, <2>2, <2>3
<1>8. format(i) # NoFormat => path(i) \in DOMAIN all
  BY <1>1, <1>6
<1>9. ASSUME NEW long \in Seq(Names), GoesOn(long, path(i))
      PROVE  /\ long \in DOMAIN all <=> long \in DOMAIN inside(i)
             /\ long \in DOMAIN all => all[long] = inside(i)[long]
  <2>1. long[Len(prefix) + 1] = name(i) /\ Len(long) > Len(prefix) + 1
    <3>1. Len(long) > Len(prefix) + 1
      BY <1>4, <1>6, <1>9 DEF GoesOn
    <3>2. GoesOn(long, Append(prefix, name(i))) /\ name(i) \in Names
      BY <1>2, <1>6, <1>9
    <3> HIDE DEF name
    <3> QED
      BY <3>1, <3>2, InsideOf
  <2>2. ASSUME long \in DOMAIN all
        PROVE  long \in DOMAIN inside(i) /\ all[long] = inside(i)[long]
    <3>1. PICK j \in D : \/ long = path(j)
                         \/ long \in DOMAIN inside(j) /\ all[long] = inside(j)[long]
      BY <1>1, <2>2
    <3>2. long # path(j)
      <4>1. Len(path(j)) = Len(prefix) + 1 /\ Len(prefix) \in Nat
        BY <1>4
      <4> QED
        BY <2>1, <4>1
    <3>3. long[Len(prefix) + 1] = name(j)
      BY <1>5, <3>1, <3>2
    <3>4. i = j
      BY <1>3, <1>6, <2>1, <3>3
    <3> QED
      BY <3>1, <3>2, <3>4
  <2> QED
    BY <1>1, <1>6, <2>2
<1> QED
  BY <1>7, <1>8, <1>9 DEF AgreeInside, inside, all, format, D

(* A path has a format that makes another type. *)
Mapped(formats, path) == path \in DOMAIN formats /\ formats[path] \in DOMAIN _DEFAULT_FORMAT_MAPPING

(* The formats inside of a path make of a type what is expected of it. *)
FixedAsExpected(Names, type, large) ==
    \A path \in Seq(Names) : \A formats :
       AgreeInside(Names, path, formats, FormatPathsOfType(type, path)) /\ ~Mapped(formats, path) =>
          FixField(ArrowType(type), path, formats, large) = ExpectedType(type, TRUE, large)

(* A format that makes another type does it whatever the type was. *)
LEMMA MappedTypes ==
  ASSUME NEW format \in DOMAIN _DEFAULT_FORMAT_MAPPING
  PROVE  _DEFAULT_FORMAT_MAPPING[format].t = "scalar" /\ format # NoFormat
BY DEF _DEFAULT_FORMAT_MAPPING, ScalarOf, NoFormat

(* A field becomes what is expected of it. *)
FieldAsExpected(field, path, formats, large) ==
    FixField(ArrowType(field.type), path, formats, large) = ExpectedField(field, TRUE, large)

(* At the path of a field, its own format counts first. *)
LEMMA FieldFixed ==
  ASSUME SchemaRecursion, NEW Names, NEW field, NEW path \in Seq(Names), NEW formats, NEW large,
         path \in DOMAIN formats <=> field.format # NoFormat,
         path \in DOMAIN formats => formats[path] = field.format,
         AgreeInside(Names, path, formats, FormatPathsOfType(field.type, path)),
         FixedAsExpected(Names, field.type, large)
  PROVE  FieldAsExpected(field, path, formats, large)
<1>1. CASE Mapped(formats, path)
  <2> DEFINE new == _DEFAULT_FORMAT_MAPPING[formats[path]]
  <2>1. formats[path] = field.format /\ new.t = "scalar"
    BY <1>1, MappedTypes DEF Mapped
  <2>2. ExpectedField(field, TRUE, large) = new
    BY <1>1, <2>1 DEF ExpectedField, Mapped
  <2>3. FixField(ArrowType(field.type), path, formats, large) = new
    <3> HIDE DEF new
    <3>1. new.t # "struct" /\ new.t # "list"
      BY <2>1
    <3> QED
      BY <1>1, <3>1 DEF FixField, Mapped, new
  <2> QED
    BY <2>2, <2>3 DEF FieldAsExpected
<1>2. CASE ~Mapped(formats, path)
  <2>1. field.format \notin DOMAIN _DEFAULT_FORMAT_MAPPING
    BY <1>2, MappedTypes DEF Mapped
  <2>2. ExpectedField(field, TRUE, large) = ExpectedType(field.type, TRUE, large)
    BY <2>1 DEF ExpectedField, SchemaRecursion
  <2> QED
    BY <1>2, <2>2 DEF FixedAsExpected, FieldAsExpected
<1> QED
  BY <1>1, <1>2

(* Of the types of a schema, at any depth, formats make what is expected.   *)
LEMMA AllFixed ==
  ASSUME SchemaRecursion, NEW kinds, NEW Names, AvroTypes(kinds, Names), NEW large \in BOOLEAN
  PROVE  \A n \in Nat : \A type \in kinds[n] : FixedAsExpected(Names, type, large)
<1> DEFINE T == {n \in Nat : \A type \in kinds[n] : FixedAsExpected(Names, type, large)}
<1>1. ASSUME NEW n \in Nat, \A m \in 0 .. n - 1 : m \in T
      PROVE  n \in T
  <2>1. \A type \in Below(kinds, n) : FixedAsExpected(Names, type, large)
    BY <1>1 DEF Below
  <2>2. \A type \in Below(kinds, n) : PathsInside(Names, type)
    BY AllPathsInside DEF Below
  <2>3. \A type \in Below(kinds, n) : SameUnformatted(type, large)
    BY Unformatted DEF Below
  <2>4. ASSUME NEW type \in kinds[n], NEW path \in Seq(Names), NEW formats,
               AgreeInside(Names, path, formats, FormatPathsOfType(type, path)),
               ~Mapped(formats, path)
        PROVE  FixField(ArrowType(type), path, formats, large) = ExpectedType(type, TRUE, large)
    <3>1. CASE /\ type.a = "record"
               /\ \A i \in DOMAIN type.fields : /\ type.fields[i].name \in Names
                                                /\ type.fields[i].type \in Below(kinds, n)
               /\ \A i, j \in DOMAIN type.fields : type.fields[i].name = type.fields[j].name => i = j
      <4> DEFINE K == {type.fields[i].name : i \in DOMAIN type.fields}
                 field(name) == CHOOSE i \in DOMAIN type.fields : type.fields[i].name = name
                 found(name) == CHOOSE f \in Range(type.fields) : f.name = name
                 next(name) == Append(path, name)
                 fixed(name) == FixField(ArrowType(type.fields[field(name)].type), next(name), formats, large)
      <4>1. FixField(ArrowType(type), path, formats, large) =
               [t |-> "struct", fields |-> [name \in K |-> fixed(name)]]
        <5> DEFINE arrow == [name \in K |-> ArrowTypeBelow(type.fields[field(name)].type)]
        <5>1. ArrowType(type) = [t |-> "struct", fields |-> arrow]
          BY <3>1 DEF ArrowType
        <5>2. DOMAIN arrow = K /\ \A name \in K : arrow[name] = ArrowType(type.fields[field(name)].type)
          <6> HIDE DEF K, field
          <6> QED
            BY DEF SchemaRecursion
        <5> HIDE DEF arrow, K
        <5>3. FixField([t |-> "struct", fields |-> arrow], path, formats, large) =
                 [t |-> "struct", fields |-> [name \in K |-> FixFieldBelow(arrow[name], next(name), formats, large)]]
          BY <2>4, <5>2 DEF FixField, Mapped
        <5>4. \A name \in K : FixFieldBelow(arrow[name], next(name), formats, large) = fixed(name)
          BY <5>2 DEF SchemaRecursion
        <5> QED
          BY <5>1, <5>3, <5>4
      <4>2. ExpectedType(type, TRUE, large) =
               [t |-> "struct", fields |-> [name \in K |-> ExpectedField(found(name), TRUE, large)]]
        BY <3>1 DEF ExpectedType
      <4>3. ASSUME NEW name \in K
            PROVE  fixed(name) = ExpectedField(found(name), TRUE, large)
        <5>1. field(name) \in DOMAIN type.fields /\ type.fields[field(name)].name = name
          OBVIOUS
        <5>2. found(name) \in Range(type.fields) /\ found(name).name = name
          <6>1. \E f \in Range(type.fields) : f.name = name
            BY <5>1 DEF Range
          <6> QED
            BY <6>1
        <5> HIDE DEF field, found
        <5>3. found(name) = type.fields[field(name)]
          BY <3>1, <5>1, <5>2 DEF Range
        <5> DEFINE i == field(name)
                   all == FormatPaths(type, path)
                   inner == type.fields[i].type
        <5>4. \A j \in DOMAIN type.fields :
                 type.fields[j].name \in Names /\ PathsInside(Names, type.fields[j].type)
          BY <2>2, <3>1
        <5>5. \A j, k \in DOMAIN type.fields : type.fields[j].name = type.fields[k].name => j = k
          BY <3>1
        <5>6. i \in DOMAIN type.fields
          BY <5>1
        <5>7. /\ next(name) \in DOMAIN all <=> type.fields[i].format # NoFormat
              /\ next(name) \in DOMAIN all => all[next(name)] = type.fields[i].format
              /\ AgreeInside(Names, next(name), all, FormatPathsOfType(inner, next(name)))
          BY <5>1, <5>4, <5>5, <5>6, FormatsOfField
        <5>8. name \in Names
          BY <5>1, <5>4
        <5>9. next(name) \in Seq(Names) /\ GoesOn(next(name), path)
          BY <5>8, NextPath
        <5>10. FormatPathsOfType(type, path) = all
          BY <3>1 DEF FormatPathsOfType
        <5> HIDE DEF all
        <5>11. AgreeInside(Names, path, formats, all)
          BY <2>4, <5>10
        <5>12. /\ next(name) \in DOMAIN formats <=> next(name) \in DOMAIN all
               /\ next(name) \in DOMAIN formats => formats[next(name)] = all[next(name)]
          BY <5>9, <5>11 DEF AgreeInside
        <5>13. AgreeInside(Names, next(name), formats, FormatPathsOfType(inner, next(name)))
          <6>1. ASSUME NEW long \in Seq(Names), GoesOn(long, next(name)) PROVE GoesOn(long, path)
            BY <5>8, <6>1, InsideOf
          <6> HIDE DEF inner, next
          <6> QED
            BY <5>7, <5>11, <6>1 DEF AgreeInside
        <5>14. FixedAsExpected(Names, inner, large)
          BY <2>1, <3>1, <5>1
        <5>15. FixField(ArrowType(type.fields[i].type), next(name), formats, large) =
                  ExpectedField(type.fields[i], TRUE, large)
          <6> DEFINE own == type.fields[i]
                     at == next(name)
          <6>1. /\ at \in DOMAIN formats <=> own.format # NoFormat
                /\ at \in DOMAIN formats => formats[at] = own.format
            BY <5>7, <5>12
          <6>2. /\ AgreeInside(Names, at, formats, FormatPathsOfType(own.type, at))
                /\ FixedAsExpected(Names, own.type, large)
            BY <5>13, <5>14
          <6>3. at \in Seq(Names)
            BY <5>9
          <6> HIDE DEF own, at
          <6>4. FieldAsExpected(own, at, formats, large)
            BY <6>1, <6>2, <6>3, FieldFixed
          <6> QED
            BY <6>4 DEF FieldAsExpected, own, at
        <5> QED
          BY <5>3, <5>15
      <4> HIDE DEF K, fixed, found
      <4> QED
        BY <4>1, <4>2, <4>3
    <3>2. CASE type.a = "array" /\ type.items \in Below(kinds, n)
      <4> DEFINE inner == type.items
                 next == Append(path, "_item")
                 arrow == ArrowType(inner)
      <4>1. ArrowType(type) = [t |-> "list", element |-> arrow]
        <5>1. ArrowType(type) = [t |-> "list", element |-> ArrowTypeBelow(inner)]
          BY <3>2 DEF ArrowType
        <5> QED
          BY <5>1 DEF SchemaRecursion
      <4>2. ExpectedType(type, TRUE, large) =
               [t |-> "list", element |-> ExpectedType(inner, TRUE /\ ~large, large)]
        <5>1. ExpectedType(type, TRUE, large) =
                 [t |-> "list", element |-> ExpectedTypeBelow(inner, TRUE /\ ~large, large)]
          BY <3>2 DEF ExpectedType
        <5> QED
          BY <5>1 DEF SchemaRecursion
      <4>3. CASE large
        <5>1. ExpectedType(inner, FALSE, large) = arrow
          BY <2>3, <3>2 DEF SameUnformatted
        <5>2. (TRUE /\ ~large) = FALSE
          BY <4>3
        <5>3. ExpectedType(type, TRUE, large) = [t |-> "list", element |-> arrow]
          BY <4>2, <5>1, <5>2
        <5> HIDE DEF arrow
        <5>4. FixField([t |-> "list", element |-> arrow], path, formats, large) = [t |-> "list", element |-> arrow]
          BY <2>4, <4>3 DEF FixField, Mapped
        <5> QED
          BY <4>1, <5>3, <5>4
      <4>4. CASE ~large
        <5>1. FormatPathsOfType(type, path) = FormatPathsOfType(inner, next)
          <6>1. FormatPathsOfType(type, path) = FormatPathsOfTypeBelow(inner, next)
            BY <3>2 DEF FormatPathsOfType, ItemPath
          <6> QED
            BY <6>1 DEF SchemaRecursion
        <5>2. PathsInside(Names, inner) /\ FixedAsExpected(Names, inner, large)
          BY <2>1, <2>2, <3>2
        <5>3. FixField([t |-> "list", element |-> arrow], path, formats, large) =
                 [t |-> "list", element |-> FixFieldBelow(arrow, next, formats, large)]
          <6> HIDE DEF arrow
          <6> QED
            BY <2>4, <4>4 DEF FixField, Mapped
        <5>4. FixFieldBelow(arrow, next, formats, large) = FixField(arrow, next, formats, large)
          BY DEF SchemaRecursion
        <5>5. "_item" \in Names
          BY DEF AvroTypes
        <5>6. next \in Seq(Names) /\ GoesOn(next, path)
          BY <5>5, NextPath
        <5> DEFINE all == FormatPathsOfType(inner, next)
        <5>7. AgreeInside(Names, path, formats, all)
          BY <2>4, <5>1
        <5>8. next \notin DOMAIN all
          <6>1. next \in DOMAIN all => GoesOn(next, next)
            BY <5>2, <5>6 DEF PathsInside
          <6>2. Len(next) \in Nat
            BY <5>6
          <6> QED
            BY <6>1, <6>2 DEF GoesOn
        <5> HIDE DEF all
        <5>9. ~Mapped(formats, next)
          BY <5>6, <5>7, <5>8 DEF AgreeInside, Mapped
        <5>10. AgreeInside(Names, next, formats, all)
          <6>1. ASSUME NEW long \in Seq(Names), GoesOn(long, next) PROVE GoesOn(long, path)
            BY <5>5, <6>1, InsideOf
          <6> HIDE DEF next
          <6> QED
            BY <5>7, <6>1 DEF AgreeInside
        <5>11. FixField(arrow, next, formats, large) = ExpectedType(inner, TRUE, large)
          <6> HIDE DEF next, inner
          <6> QED
            BY <5>2, <5>6, <5>9, <5>10 DEF FixedAsExpected, all
        <5>12. (TRUE /\ ~large) = TRUE
          BY <4>4
        <5> HIDE DEF inner, next, arrow
        <5> QED
          BY <4>1, <4>2, <5>3, <5>4, <5>11, <5>12
      <4> QED
        BY <4>3, <4>4
    <3>3. CASE type.a = "union" /\ Len(NonNull(type)) = 1 /\ NonNull(type)[1] \in Below(kinds, n)
      <4> DEFINE inner == NonNull(type)[1]
      <4>1. FormatPathsOfType(type, path) = FormatPathsOfType(inner, path)
        <5>1. FormatPathsOfType(type, path) = FormatPathsOfTypeBelow(inner, path)
          BY <3>3 DEF FormatPathsOfType
        <5> QED
          BY <5>1 DEF SchemaRecursion
      <4>2. ArrowType(type) = ArrowType(inner)
        <5>1. ArrowType(type) = ArrowTypeBelow(inner)
          BY <3>3 DEF ArrowType
        <5> QED
          BY <5>1 DEF SchemaRecursion
      <4>3. ExpectedType(type, TRUE, large) = ExpectedType(inner, TRUE, large)
        <5>1. ExpectedType(type, TRUE, large) = ExpectedTypeBelow(inner, TRUE, large)
          BY <3>3 DEF ExpectedType
        <5> QED
          BY <5>1 DEF SchemaRecursion
      <4>4. FixedAsExpected(Names, inner, large)
        BY <2>1, <3>3
      <4> HIDE DEF inner
      <4> QED
        BY <2>4, <4>1, <4>2, <4>3, <4>4 DEF FixedAsExpected
    <3>4. CASE type.a \notin {"record", "array", "union"}
      <4>1. ArrowType(type) = ScalarOf(type.a) /\ ExpectedType(type, TRUE, large) = ScalarOf(type.a)
        BY <3>4 DEF ArrowType, ExpectedType
      <4>2. FixField(ScalarOf(type.a), path, formats, large) = ScalarOf(type.a)
        BY <2>4 DEF FixField, Mapped, ScalarOf
      <4> QED
        BY <4>1, <4>2
    <3> QED
      BY <3>1, <3>2, <3>3, <3>4 DEF AvroTypes
  <2> QED
    BY <2>4 DEF FixedAsExpected
<1> HIDE DEF T
<1>2. \A n \in Nat : n \in T
  BY <1>1, StrongInduction
<1> QED
  BY <1>2 DEF T

(* The schemas of the files that are loaded have types that can be converted. *)
SchemasOf(kinds) ==
    \A q \in Requests : q.source.kind = "avro-ocf" /\ Loads(q.source, q.limit) =>
       /\ q.source.schema.a = "record"
       /\ \E n \in Nat : q.source.schema \in kinds[n]
       /\ q.source.large \in BOOLEAN

(* Each column of a file that is loaded has the type that formats ask for. *)
LEMMA TypesOfFile ==
  ASSUME SchemaRecursion, NEW kinds, NEW Names, AvroTypes(kinds, Names), SchemasOf(kinds),
         NEW q \in Requests, q.source.kind = "avro-ocf", Loads(q.source, q.limit),
         NEW i \in DOMAIN q.source.schema.fields
  PROVE  LoadDataframe(q.source, q.limit).table[i].type
            = ExpectedField(q.source.schema.fields[i], TRUE, q.source.large)
<1> DEFINE top == q.source.schema
           large == q.source.large
           none == <<>>
           name == top.fields[i].name
           table == LoadDataframe(q.source, q.limit).table
           K == {top.fields[j].name : j \in DOMAIN top.fields}
           found(key) == CHOOSE f \in Range(top.fields) : f.name = key
<1>1. table[i].type = ConvertSchema(top, large)[name]
  <2>1. table = RecordsToTable(ReadRecords(q.source, q.limit), top, ConvertSchema(top, large))
    BY DEF LoadDataframe, AvroTable
  <2> HIDE DEF table
  <2> QED
    BY <2>1 DEF RecordsToTable
<1> HIDE DEF table
<1>2. top.a = "record" /\ large \in BOOLEAN
  BY DEF SchemasOf
<1>3. PICK n \in Nat : top \in kinds[n]
  BY DEF SchemasOf
<1>4. \A j, k \in DOMAIN top.fields : top.fields[j].name = top.fields[k].name => j = k
  BY <1>2, <1>3 DEF AvroTypes
<1>5. i \in DOMAIN top.fields
  OBVIOUS
<1> HIDE DEF top, large
<1>6. none \in Seq(Names)
  OBVIOUS
<1>7. FormatPaths(top, none) = FormatPathsOfType(top, none)
  BY <1>2 DEF FormatPathsOfType
<1> HIDE DEF none
<1>8. AgreeInside(Names, none, FormatPathsOfType(top, none), FormatPathsOfType(top, none))
  BY DEF AgreeInside
<1>9. ~Mapped(FormatPathsOfType(top, none), none)
  <2>1. none \in DOMAIN FormatPathsOfType(top, none) => GoesOn(none, none)
    BY <1>3, <1>6, AllPathsInside DEF PathsInside
  <2>2. Len(none) \in Nat
    BY <1>6
  <2> QED
    BY <2>1, <2>2 DEF Mapped, GoesOn
<1>10. FixedAsExpected(Names, top, large)
  BY <1>2, <1>3, AllFixed
<1>11. FixField(ArrowType(top), none, FormatPathsOfType(top, none), large) = ExpectedType(top, TRUE, large)
  BY <1>6, <1>8, <1>9, <1>10 DEF FixedAsExpected
<1>12. ExpectedType(top, TRUE, large) =
          [t |-> "struct", fields |-> [key \in K |-> ExpectedField(found(key), TRUE, large)]]
  BY <1>2 DEF ExpectedType
<1>13. ConvertSchema(top, large) = [key \in K |-> ExpectedField(found(key), TRUE, large)]
  <2>1. ConvertSchema(top, large) = ExpectedType(top, TRUE, large).fields
    BY <1>7, <1>11 DEF ConvertSchema, none
  <2> DEFINE expected == ExpectedType(top, TRUE, large)
             columns == [key \in K |-> ExpectedField(found(key), TRUE, large)]
  <2>2. expected = [t |-> "struct", fields |-> columns]
    BY <1>12
  <2>3. ConvertSchema(top, large) = expected.fields
    BY <2>1
  <2> HIDE DEF expected, columns
  <2>4. expected.fields = columns
    BY <2>2
  <2> QED
    BY <2>3, <2>4 DEF columns
<1>14. name \in K
  BY <1>5
<1>15. found(name) \in Range(top.fields) /\ found(name).name = name
  <2>1. top.fields[i] \in Range(top.fields)
    BY <1>5 DEF Range
  <2>2. \E f \in Range(top.fields) : f.name = name
    BY <2>1
  <2> QED
    BY <2>2
<1> HIDE DEF found
<1>16. found(name) = top.fields[i]
  BY <1>4, <1>5, <1>15 DEF Range
<1> HIDE DEF K
<1>17. ConvertSchema(top, large)[name] = ExpectedField(top.fields[i], TRUE, large)
  BY <1>13, <1>14, <1>16
<1> QED
  BY <1>1, <1>17 DEF table, top, large

(* For every schema that can be converted, of any depth, a format takes    *)
(* effect at its own field and nowhere else (avro_to_arrow.py l.364-446).  *)
THEOREM PipelineFormats ==
  ASSUME SchemaRecursion, NEW kinds, NEW Names, AvroTypes(kinds, Names), SchemasOf(kinds)
  PROVE  Spec => []FormatsApplied
<1>1. ASSUME History PROVE FormatsApplied
  <2> SUFFICES ASSUME IsAvro, Loaded, NEW i \in DOMAIN Fields
               PROVE  input.table[i].type = ExpectedField(Fields[i], TRUE, request.source.large)
    BY DEF FormatsApplied
  <2>1. Read
    BY <1>1 DEF History, InputKnown, Loaded
  <2>2. /\ request \in Requests /\ Loads(request.source, request.limit)
        /\ input.table = LoadDataframe(request.source, request.limit).table
    BY <2>1 DEF Read
  <2> QED
    BY <2>2, TypesOfFile DEF IsAvro, Fields
<1> QED
  BY <1>1, HistoryKnown, PTL

-----------------------------------------------------------------------------
(* The ids of the fields. *)

(* Each method calls itself. *)
IdsRecursion ==
    /\ \A type, mapping, next : EnrichTypeDefBelow(type, mapping, next) = EnrichTypeDef(type, mapping, next)
    /\ \A type, collections : IdsOfBelow(type, collections) = IdsOf(type, collections)

(* The ids of a type as it comes, and as it is enriched. *)
IdsBefore(type) == IdsOf(type, FALSE)
IdsAfter(type) == IdsOf(type, TRUE)

Counts == Nat \ {0}

(* There is an id at i, and it is new. *)
NewAt(old, ids, i) == old[i] = NoId /\ ids[i] # NoId

(* Those that were there stay, and the new ones are all from first up to   *)
(* next, in order.                                                         *)
Numbered(old, ids, first, next) ==
    /\ old \in Seq(Nat) /\ ids \in Seq(Nat) /\ Len(ids) = Len(old)
    /\ first \in Counts /\ next \in Counts /\ first <= next
    /\ \A i \in 1 .. Len(old) : old[i] # NoId => ids[i] = old[i]
    /\ \A i \in 1 .. Len(old) : NewAt(old, ids, i) => first <= ids[i] /\ ids[i] < next
    /\ \A i, j \in 1 .. Len(old) :
          NewAt(old, ids, i) /\ NewAt(old, ids, j) /\ i < j => ids[i] < ids[j]
    /\ \A k \in first .. next - 1 : \E i \in 1 .. Len(old) : NewAt(old, ids, i) /\ ids[i] = k

(* Behind ids that are numbered, others go on. *)
LEMMA NumberedOn ==
  ASSUME NEW old, NEW ids, NEW first, NEW middle, Numbered(old, ids, first, middle),
         NEW old2, NEW ids2, NEW next, Numbered(old2, ids2, middle, next)
  PROVE  Numbered(old \o old2, ids \o ids2, first, next)
<1> DEFINE both == old \o old2
           all == ids \o ids2
           n == Len(old)
           m == Len(old2)
<1>1. /\ both \in Seq(Nat) /\ Len(both) = n + m
      /\ \A i \in 1 .. n : both[i] = old[i]
      /\ \A i \in 1 .. m : both[n + i] = old2[i]
  <2>1. old \in Seq(Nat) /\ old2 \in Seq(Nat)
    BY DEF Numbered
  <2> QED
    BY <2>1, Appended
<1>2. /\ all \in Seq(Nat) /\ Len(all) = n + m
      /\ \A i \in 1 .. n : all[i] = ids[i]
      /\ \A i \in 1 .. m : all[n + i] = ids2[i]
  <2>1. Len(ids) = n /\ Len(ids2) = m
    BY DEF Numbered
  <2>3. ids \in Seq(Nat) /\ ids2 \in Seq(Nat)
    BY DEF Numbered
  <2>2. /\ all \in Seq(Nat) /\ Len(all) = Len(ids) + Len(ids2)
        /\ \A i \in 1 .. Len(ids) : all[i] = ids[i]
        /\ \A i \in 1 .. Len(ids2) : all[Len(ids) + i] = ids2[i]
    BY <2>3, Appended
  <2> QED
    BY <2>1, <2>2
<1>3. n \in Nat /\ m \in Nat
  BY DEF Numbered
<1> HIDE DEF both, all
<1>4. first \in Nat /\ middle \in Nat /\ next \in Nat /\ first \in Counts /\ next \in Counts
      /\ first <= middle /\ middle <= next
  BY DEF Numbered, Counts
<1>5. \A i \in 1 .. n : ids[i] \in Nat
  <2>1. ids \in Seq(Nat) /\ Len(ids) = n
    BY DEF Numbered
  <2> QED
    BY <2>1
<1>6. \A i \in 1 .. m : ids2[i] \in Nat
  <2>1. ids2 \in Seq(Nat) /\ Len(ids2) = m
    BY DEF Numbered
  <2> QED
    BY <2>1
<1>7. \A i \in 1 .. n : NewAt(both, all, i) <=> NewAt(old, ids, i)
  BY <1>1, <1>2 DEF NewAt
<1>8. \A i \in 1 .. m : NewAt(both, all, n + i) <=> NewAt(old2, ids2, i)
  BY <1>1, <1>2 DEF NewAt
<1>9. /\ \A i \in 1 .. n : old[i] # NoId => ids[i] = old[i]
      /\ \A i \in 1 .. n : NewAt(old, ids, i) => first <= ids[i] /\ ids[i] < middle
      /\ \A i, j \in 1 .. n : NewAt(old, ids, i) /\ NewAt(old, ids, j) /\ i < j => ids[i] < ids[j]
      /\ \A k \in first .. middle - 1 : \E i \in 1 .. n : NewAt(old, ids, i) /\ ids[i] = k
  BY DEF Numbered
<1>10. /\ \A i \in 1 .. m : old2[i] # NoId => ids2[i] = old2[i]
       /\ \A i \in 1 .. m : NewAt(old2, ids2, i) => middle <= ids2[i] /\ ids2[i] < next
       /\ \A i, j \in 1 .. m : NewAt(old2, ids2, i) /\ NewAt(old2, ids2, j) /\ i < j => ids2[i] < ids2[j]
       /\ \A k \in middle .. next - 1 : \E i \in 1 .. m : NewAt(old2, ids2, i) /\ ids2[i] = k
  BY DEF Numbered
<1> HIDE DEF n, m
<1>11. \A i \in 1 .. n + m : i \in 1 .. n \/ \E j \in 1 .. m : i = n + j
  <2>1. ASSUME NEW i \in 1 .. n + m, i \notin 1 .. n PROVE \E j \in 1 .. m : i = n + j
    <3>1. i - n \in 1 .. m /\ i = n + (i - n)
      BY <1>3, <2>1
    <3> QED
      BY <3>1
  <2> QED
    BY <2>1
<1>12. /\ \A i \in 1 .. n : i \in 1 .. n + m
       /\ \A i \in 1 .. m : n + i \in 1 .. n + m
  BY <1>3
<1>13. ASSUME NEW i \in 1 .. n + m
       PROVE  /\ both[i] # NoId => all[i] = both[i]
              /\ NewAt(both, all, i) => first <= all[i] /\ all[i] < next
  <2>1. CASE i \in 1 .. n
    <3>1. both[i] # NoId => all[i] = both[i]
      BY <1>1, <1>2, <1>9, <2>1
    <3>2. ASSUME NewAt(both, all, i) PROVE first <= all[i] /\ all[i] < next
      <4>1. all[i] \in Nat /\ first <= all[i] /\ all[i] < middle
        BY <1>2, <1>5, <1>7, <1>9, <2>1, <3>2
      <4> QED
        BY <1>4, <4>1
    <3> QED
      BY <3>1, <3>2
  <2>2. CASE i \notin 1 .. n
    <3>1. PICK j \in 1 .. m : i = n + j
      BY <1>11, <2>2
    <3>2. both[i] # NoId => all[i] = both[i]
      BY <1>1, <1>2, <1>10, <3>1
    <3>3. ASSUME NewAt(both, all, i) PROVE first <= all[i] /\ all[i] < next
      <4>1. all[i] \in Nat /\ middle <= all[i] /\ all[i] < next
        BY <1>2, <1>6, <1>8, <1>10, <3>1, <3>3
      <4> QED
        BY <1>4, <4>1
    <3> QED
      BY <3>2, <3>3
  <2> QED
    BY <2>1, <2>2
<1>14. ASSUME NEW i \in 1 .. n + m, NEW j \in 1 .. n + m, NewAt(both, all, i), NewAt(both, all, j), i < j
       PROVE  all[i] < all[j]
  <2>1. CASE i \in 1 .. n /\ j \in 1 .. n
    BY <1>2, <1>7, <1>9, <1>14, <2>1
  <2>2. CASE i \in 1 .. n /\ j \notin 1 .. n
    <3>1. PICK d \in 1 .. m : j = n + d
      BY <1>11, <2>2
    <3>2. all[i] < middle /\ all[i] \in Nat
      BY <1>2, <1>5, <1>7, <1>9, <1>14, <2>2
    <3>3. middle <= all[j] /\ all[j] \in Nat
      BY <1>2, <1>6, <1>8, <1>10, <1>14, <3>1
    <3> QED
      BY <1>4, <3>2, <3>3
  <2>3. CASE i \notin 1 .. n
    <3>1. PICK c \in 1 .. m : i = n + c
      BY <1>11, <2>3
    <3>2. j \notin 1 .. n
      BY <1>3, <1>14, <2>3
    <3>3. PICK d \in 1 .. m : j = n + d
      BY <1>11, <3>2
    <3>4. c < d
      BY <1>3, <1>14, <3>1, <3>3
    <3> QED
      BY <1>2, <1>8, <1>10, <1>14, <3>1, <3>3, <3>4
  <2> QED
    BY <2>1, <2>2, <2>3
<1>15. ASSUME NEW k \in first .. next - 1
       PROVE  \E i \in 1 .. n + m : NewAt(both, all, i) /\ all[i] = k
  <2>1. CASE k < middle
    <3>1. k \in first .. middle - 1
      BY <1>4, <2>1
    <3>2. PICK i \in 1 .. n : NewAt(old, ids, i) /\ ids[i] = k
      BY <1>9, <3>1
    <3> QED
      BY <1>2, <1>7, <1>12, <3>2
  <2>2. CASE ~(k < middle)
    <3>1. k \in middle .. next - 1
      BY <1>4, <2>2
    <3>2. PICK i \in 1 .. m : NewAt(old2, ids2, i) /\ ids2[i] = k
      BY <1>10, <3>1
    <3> QED
      BY <1>2, <1>8, <1>12, <3>2
  <2> QED
    BY <2>1, <2>2
<1>16. first <= next
  BY <1>4
<1> QED
  BY <1>1, <1>2, <1>4, <1>13, <1>14, <1>15, <1>16 DEF Numbered, both, all

(* No ids take no numbers. *)
LEMMA NumberedNone ==
  ASSUME NEW first \in Counts
  PROVE  Numbered(<<>>, <<>>, first, first)
<1>1. first \in Nat /\ first .. first - 1 = {} /\ 1 .. 0 = {} /\ first <= first
  BY DEF Counts
<1>2. <<>> \in Seq(Nat) /\ Len(<<>>) = 0
  OBVIOUS
<1> QED
  BY <1>1, <1>2 DEF Numbered

(* An id that is there stays; one that is not is the next. *)
LEMMA NumberedOne ==
  ASSUME NEW old \in Nat, NEW first \in Counts
  PROVE  /\ old # NoId => Numbered(<<old>>, <<old>>, first, first)
         /\ Numbered(<<NoId>>, <<first>>, first, first + 1)
<1>1. first \in Nat /\ first # 0 /\ first + 1 \in Nat /\ first + 1 # 0
  BY DEF Counts
<1>2. ASSUME old # NoId PROVE Numbered(<<old>>, <<old>>, first, first)
  <2>1. first .. first - 1 = {} /\ first <= first
    BY <1>1
  <2>2. <<old>> \in Seq(Nat) /\ Len(<<old>>) = 1 /\ <<old>>[1] = old /\ 1 .. 1 = {1}
    OBVIOUS
  <2>3. \A i \in 1 .. 1 : ~NewAt(<<old>>, <<old>>, i)
    BY <1>2, <2>2 DEF NewAt
  <2> QED
    BY <2>1, <2>2, <2>3 DEF Numbered
<1>3. Numbered(<<NoId>>, <<first>>, first, first + 1)
  <2>1. /\ <<NoId>> \in Seq(Nat) /\ Len(<<NoId>>) = 1 /\ <<NoId>>[1] = NoId
        /\ <<first>> \in Seq(Nat) /\ Len(<<first>>) = 1 /\ <<first>>[1] = first
    BY <1>1 DEF NoId
  <2>2. 1 .. 1 = {1} /\ first .. (first + 1) - 1 = {first} /\ first <= first + 1 /\ first <= first
        /\ first < first + 1 /\ ~(1 < 1)
    BY <1>1
  <2>3. NewAt(<<NoId>>, <<first>>, 1)
    BY <1>1, <2>1 DEF NewAt, NoId
  <2>4. first + 1 \in Counts
    BY <1>1 DEF Counts
  <2> QED
    BY <2>1, <2>2, <2>3, <2>4 DEF Numbered
<1> QED
  BY <1>2, <1>3

(* Sequences one behind the other, and how far they are after each.        *)
Gathered(lists, all, n) ==
    /\ FlattenSeq(lists) = all[n]
    /\ all[1] = lists[1]
    /\ \A r \in 1 .. n - 1 : all[r + 1] = all[r] \o lists[r + 1]

(* Any number of sequences are gathered. *)
LEMMA AllGathered ==
  ASSUME NEW lists \in Seq(Seq(Nat)), Len(lists) > 0
  PROVE  \E all : Gathered(lists, all, Len(lists))
<1>1. PICK all \in [1 .. Len(lists) -> Seq(Nat)] :
         /\ AllItems(lists) = all[Len(lists)]
         /\ all[1] = lists[1]
         /\ \A r \in 1 .. Len(lists) - 1 : all[r + 1] = all[r] \o lists[r + 1]
  BY ItemsAre
<1>2. Gathered(lists, all, Len(lists))
  BY <1>1 DEF Gathered, AllItems
<1> QED
  BY <1>2

(* Ids that are numbered part by part are so all together. *)
LEMMA NumberedParts ==
  ASSUME NEW n \in Nat, NEW old, NEW ids, old = [i \in 1 .. n |-> old[i]], ids = [i \in 1 .. n |-> ids[i]],
         NEW counter \in [1 .. n + 1 -> Counts],
         \A i \in 1 .. n : Numbered(old[i], ids[i], counter[i], counter[i + 1])
  PROVE  Numbered(FlattenSeq(old), FlattenSeq(ids), counter[1], counter[n + 1])
<1>1. \A i \in 1 .. n : old[i] \in Seq(Nat) /\ ids[i] \in Seq(Nat)
  BY DEF Numbered
<1>2. old \in Seq(Seq(Nat)) /\ Len(old) = n /\ ids \in Seq(Seq(Nat)) /\ Len(ids) = n
  <2>1. old \in [1 .. n -> Seq(Nat)] /\ ids \in [1 .. n -> Seq(Nat)]
    BY <1>1
  <2> DEFINE S == Seq(Nat)
  <2>2. old \in [1 .. n -> S] /\ ids \in [1 .. n -> S]
    BY <2>1
  <2> HIDE DEF S
  <2>3. old \in Seq(S) /\ Len(old) = n /\ ids \in Seq(S) /\ Len(ids) = n
    BY <2>2
  <2> QED
    BY <2>3 DEF S
<1>3. CASE n = 0
  <2>1. FlattenSeq(old) = old /\ FlattenSeq(ids) = ids
    BY <1>2, <1>3 DEF FlattenSeq
  <2>2. old = <<>> /\ ids = <<>>
    BY <1>3
  <2>3. counter[1] \in Counts /\ n + 1 = 1
    BY <1>3
  <2> QED
    BY <2>1, <2>2, <2>3, NumberedNone
<1>4. CASE n > 0
  <2>1. PICK olds : Gathered(old, olds, n)
    BY <1>2, <1>4, AllGathered
  <2>2. PICK all : Gathered(ids, all, n)
    BY <1>2, <1>4, AllGathered
  <2> DEFINE T == {r \in 1 .. n : Numbered(olds[r], all[r], counter[1], counter[r + 1])}
  <2>3. 1 \in T
    <3>1. 1 \in 1 .. n
      BY <1>4
    <3>2. Numbered(old[1], ids[1], counter[1], counter[1 + 1])
      BY <3>1
    <3> QED
      BY <2>1, <2>2, <3>1, <3>2 DEF Gathered
  <2>4. ASSUME NEW r \in 1 .. n - 1, r \in T PROVE r + 1 \in T
    <3>1. r + 1 \in 1 .. n
      OBVIOUS
    <3>2. Numbered(olds[r], all[r], counter[1], counter[r + 1])
      BY <2>4
    <3>3. Numbered(old[r + 1], ids[r + 1], counter[r + 1], counter[(r + 1) + 1])
      BY <3>1
    <3>4. Numbered(olds[r] \o old[r + 1], all[r] \o ids[r + 1], counter[1], counter[(r + 1) + 1])
      BY <3>2, <3>3, NumberedOn
    <3> QED
      BY <2>1, <2>2, <3>1, <3>4 DEF Gathered
  <2> HIDE DEF T
  <2>5. \A r \in 1 .. n : r \in T
    BY <1>4, <2>3, <2>4, InductionAlong
  <2>6. n \in T
    BY <1>4, <2>5
  <2> QED
    BY <2>1, <2>2, <2>6 DEF T, Gathered
<1> QED
  BY <1>3, <1>4

(* A counter has a place for each turn and one more. *)
PlacesOf(counter, n) == counter = [i \in 1 .. n + 1 |-> counter[i]]

(* Each turn makes the next count of the one it finds. *)
StepsOf(counter, n, step) ==
    \A i \in 1 .. n : counter[i] \in Counts => counter[i + 1] = step[<<i, counter[i]>>]

(* All that a counter finds are counts. *)
AllCounts(counter, n) == counter \in [1 .. n + 1 -> Counts]

(* What a counter finds is a count, if each turn makes one of another. *)
LEMMA CountsAlong ==
  ASSUME NEW n \in Nat, NEW first \in Counts, NEW step \in [Nat \X Counts -> Counts], NEW counter,
         PlacesOf(counter, n), counter[1] = first, StepsOf(counter, n, step)
  PROVE  AllCounts(counter, n)
<1> DEFINE T == {i \in 1 .. n + 1 : counter[i] \in Counts}
<1>1. 1 \in T
  OBVIOUS
<1>2. ASSUME NEW r \in 1 .. (n + 1) - 1, r \in T PROVE r + 1 \in T
  <2>1. r \in 1 .. n /\ r + 1 \in 1 .. n + 1 /\ <<r, counter[r]>> \in Nat \X Counts
    BY <1>2
  <2>2. step[<<r, counter[r]>>] \in Counts
    BY <2>1
  <2> QED
    BY <1>2, <2>1, <2>2 DEF StepsOf
<1>3. n + 1 \in Nat /\ n + 1 > 0
  OBVIOUS
<1> HIDE DEF T
<1>4. \A i \in 1 .. n + 1 : i \in T
  BY <1>1, <1>2, <1>3, InductionAlong
<1>5. \A i \in 1 .. n + 1 : counter[i] \in Counts
  BY <1>4 DEF T
<1>6. counter \in [1 .. n + 1 -> Counts]
  <2>1. [i \in 1 .. n + 1 |-> counter[i]] \in [1 .. n + 1 -> Counts]
    BY <1>5
  <2> QED
    BY <2>1 DEF PlacesOf
<1> QED
  BY <1>6 DEF AllCounts

(* The ids of a field as it comes, and as it is enriched. *)
FieldBefore(field) == <<field.id>> \o IdsBefore(field.type)
FieldAfter(field) == <<field.id>> \o IdsAfter(field.type)

(* A type and a field are enriched with the next numbers. *)
TypeNumbered(type) ==
    \A first \in Counts :
       LET e == EnrichTypeDef(type, <<>>, first)
       IN Numbered(IdsBefore(type), IdsAfter(e.type), first, e.next)
FieldTypeNumbered(type) ==
    \A first \in Counts :
       LET e == EnrichFieldType(type, <<>>, first)
       IN Numbered(IdsBefore(type), IdsAfter(e.type), first, e.next)
FieldNumbered(field) ==
    \A first \in Counts :
       LET e == EnrichField(field, <<>>, first)
       IN Numbered(FieldBefore(field), FieldAfter(e.field), first, e.next)

(* The ids of a type are those of its parts. *)
LEMMA IdsOfParts ==
  ASSUME IdsRecursion, NEW type
  PROVE  /\ type.a = "record" =>
               /\ IdsBefore(type) = FlattenSeq([i \in DOMAIN type.fields |-> FieldBefore(type.fields[i])])
               /\ IdsAfter(type) = FlattenSeq([i \in DOMAIN type.fields |-> FieldAfter(type.fields[i])])
         /\ type.a = "union" =>
               /\ IdsBefore(type) = FlattenSeq([i \in DOMAIN type.members |-> IdsBefore(type.members[i])])
               /\ IdsAfter(type) = FlattenSeq([i \in DOMAIN type.members |-> IdsAfter(type.members[i])])
         /\ type.a = "array" =>
               /\ IdsBefore(type) = <<NoId>> \o IdsBefore(type.items)
               /\ IdsAfter(type) = <<type.id>> \o IdsAfter(type.items)
         /\ type.a = "map" =>
               /\ IdsBefore(type) = <<NoId, NoId>> \o IdsBefore(type.values)
               /\ IdsAfter(type) = <<type.key, type.value>> \o IdsAfter(type.values)
<1>1. \A c, t : IdsOfBelow(t, c) = IdsOf(t, c)
  BY DEF IdsRecursion
<1>2. CASE type.a = "record"
  <2>1. \A c : IdsOf(type, c) = FlattenSeq([i \in DOMAIN type.fields |->
                  <<type.fields[i].id>> \o IdsOfBelow(type.fields[i].type, c)])
    BY <1>2 DEF IdsOf
  <2>2. \A c : IdsOf(type, c) = FlattenSeq([i \in DOMAIN type.fields |->
                  <<type.fields[i].id>> \o IdsOf(type.fields[i].type, c)])
    BY <1>1, <2>1
  <2> QED
    BY <1>2, <2>2 DEF IdsBefore, IdsAfter, FieldBefore, FieldAfter
<1>3. CASE type.a = "union"
  <2>1. \A c : IdsOf(type, c) = FlattenSeq([i \in DOMAIN type.members |-> IdsOfBelow(type.members[i], c)])
    BY <1>3 DEF IdsOf
  <2>2. \A c : IdsOf(type, c) = FlattenSeq([i \in DOMAIN type.members |-> IdsOf(type.members[i], c)])
    BY <1>1, <2>1
  <2> QED
    BY <1>3, <2>2 DEF IdsBefore, IdsAfter
<1>4. CASE type.a = "array"
  <2>1. /\ IdsOf(type, FALSE) = <<NoId>> \o IdsOfBelow(type.items, FALSE)
        /\ IdsOf(type, TRUE) = <<type.id>> \o IdsOfBelow(type.items, TRUE)
    BY <1>4 DEF IdsOf
  <2> QED
    BY <1>1, <1>4, <2>1 DEF IdsBefore, IdsAfter
<1>5. CASE type.a = "map"
  <2>1. /\ IdsOf(type, FALSE) = <<NoId, NoId>> \o IdsOfBelow(type.values, FALSE)
        /\ IdsOf(type, TRUE) = <<type.key, type.value>> \o IdsOfBelow(type.values, TRUE)
    BY <1>5 DEF IdsOf
  <2> QED
    BY <1>1, <1>5, <2>1 DEF IdsBefore, IdsAfter
<1>6. CASE type.a \notin {"record", "union", "array", "map"}
  BY <1>6
<1> QED
  BY <1>2, <1>3, <1>4, <1>5, <1>6

(* A counter that starts somewhere and does such turns. *)
CounterOf(g, n, first, step) ==
    /\ g \in [1 .. n + 1 -> Counts]
    /\ g[1] = first
    /\ \A i \in 1 .. n : g[i + 1] = step[<<i, g[i]>>]

(* The counter of a loop of n turns, each of which makes one count of       *)
(* another.                                                                *)
LEMMA CounterIs ==
  ASSUME NEW n \in Nat, NEW first \in Counts, NEW step \in [Nat \X Counts -> Counts]
  PROVE  \E g : CounterOf(g, n, first, step)
<1>1. n + 1 \in Nat /\ (n + 1) - 1 = n /\ n + 1 > 0
  OBVIOUS
<1>2. PICK g \in [1 .. n + 1 -> Counts] : FollowsAlong(g, n + 1, first, step)
  BY <1>1, RecursionAlong
<1> QED
  BY <1>1, <1>2 DEF FollowsAlong, CounterOf

(* The fields of a record get the next numbers, one field after the other.  *)
LEMMA FieldsNumbered ==
  ASSUME NEW fields, IsSequence(fields), \A i \in 1 .. Len(fields) : FieldNumbered(fields[i]),
         NEW first \in Counts
  PROVE  LET e == EnrichFields(fields, <<>>, first) IN
         /\ DOMAIN e.done = 1 .. Len(fields)
         /\ Numbered(FlattenSeq([i \in DOMAIN fields |-> FieldBefore(fields[i])]),
                     FlattenSeq([i \in DOMAIN e.done |-> FieldAfter(e.done[i])]), first, e.next)
<1> DEFINE n == Len(fields)
           e == EnrichFields(fields, <<>>, first)
           turn(i, c) == EnrichField(fields[i], <<>>, c)
           Body(f) == [i \in 1 .. n + 1 |-> IF i = 1 THEN first ELSE turn(i - 1, f[i - 1]).next]
           counter == CHOOSE f : f = Body(f)
           step == [p \in Nat \X Counts |-> IF p[1] \in 1 .. n THEN turn(p[1], p[2]).next ELSE p[2]]
           old == [i \in 1 .. n |-> FieldBefore(fields[i])]
           ids == [i \in 1 .. n |-> FieldAfter(turn(i, counter[i]).field)]
<1>1. n \in Nat /\ DOMAIN fields = 1 .. n
  BY DEF IsSequence
<1>2. e = [done |-> [i \in 1 .. n |-> turn(i, counter[i]).field], next |-> counter[n + 1]]
  BY DEF EnrichFields
<1>3. ASSUME NEW i \in 1 .. n, NEW c \in Counts
      PROVE  /\ Numbered(FieldBefore(fields[i]), FieldAfter(turn(i, c).field), c, turn(i, c).next)
             /\ turn(i, c).next \in Counts
  BY DEF FieldNumbered, Numbered
<1> HIDE DEF n, e, turn
<1>4. step \in [Nat \X Counts -> Counts] /\ \A i \in 1 .. n, c \in Counts : step[<<i, c>>] = turn(i, c).next
  BY <1>1, <1>3
<1> HIDE DEF step
<1>5. PICK g : CounterOf(g, n, first, step)
  <2>1. n \in Nat /\ step \in [Nat \X Counts -> Counts]
    BY <1>1, <1>4
  <2> HIDE DEF old, ids, counter, Body
  <2> QED
    BY <2>1, CounterIs
<1>6. g = Body(g)
  <2>1. ASSUME NEW i \in 1 .. n + 1, i # 1 PROVE g[i] = turn(i - 1, g[i - 1]).next
    <3>1. i - 1 \in 1 .. n /\ i - 1 \in 1 .. n + 1 /\ (i - 1) + 1 = i
      BY <1>1, <2>1
    <3>2. g[i - 1] \in Counts /\ g[(i - 1) + 1] = step[<<i - 1, g[i - 1]>>]
      BY <1>5, <3>1 DEF CounterOf
    <3> QED
      BY <1>4, <3>1, <3>2
  <2> QED
    BY <1>5, <2>1 DEF CounterOf
<1>7. counter = Body(counter)
  BY <1>6
<1> HIDE DEF counter
<1>8. PlacesOf(counter, n) /\ counter[1] = first
  BY <1>1, <1>7 DEF PlacesOf
<1>9. \A i \in 1 .. n : counter[i + 1] = turn(i, counter[i]).next
  <2>1. \A i \in 1 .. n : i + 1 \in 1 .. n + 1 /\ i + 1 # 1 /\ (i + 1) - 1 = i
    BY <1>1
  <2>2. \A i \in 1 .. n + 1 : i # 1 => counter[i] = turn(i - 1, counter[i - 1]).next
    BY <1>7
  <2> HIDE DEF Body, old, ids
  <2> SUFFICES ASSUME NEW i \in 1 .. n PROVE counter[i + 1] = turn(i, counter[i]).next
    OBVIOUS
  <2>3. counter[i + 1] = turn((i + 1) - 1, counter[(i + 1) - 1]).next
    BY <2>1, <2>2
  <2> QED
    BY <2>1, <2>3
<1>10. \A i \in 1 .. n : counter[i] \in Counts => counter[i + 1] = step[<<i, counter[i]>>]
  BY <1>4, <1>9
<1>11. counter \in [1 .. n + 1 -> Counts]
  <2>1. n \in Nat
    BY <1>1
  <2> HIDE DEF old, ids, Body
  <2>2. StepsOf(counter, n, step)
    BY <1>10 DEF StepsOf
  <2>3. AllCounts(counter, n)
    BY <2>1, <2>2, <1>4, <1>8, CountsAlong
  <2> QED
    BY <2>3 DEF AllCounts
<1>12. \A i \in 1 .. n : Numbered(old[i], ids[i], counter[i], counter[i + 1])
  <2>1. ASSUME NEW i \in 1 .. n PROVE Numbered(old[i], ids[i], counter[i], counter[i + 1])
    <3>1. counter[i] \in Counts
      <4>1. i \in 1 .. n + 1
        BY <1>1
      <4> QED
        BY <1>11, <4>1
    <3> QED
      BY <1>3, <1>9, <3>1
  <2> QED
    BY <2>1
<1>13. old = [i \in 1 .. n |-> old[i]] /\ ids = [i \in 1 .. n |-> ids[i]]
  OBVIOUS
<1>14. ids = [i \in DOMAIN e.done |-> FieldAfter(e.done[i])] /\ DOMAIN e.done = 1 .. n
  BY <1>2
<1>15. old = [i \in DOMAIN fields |-> FieldBefore(fields[i])]
  BY <1>1
<1> HIDE DEF old, ids
<1>16. Numbered(FlattenSeq(old), FlattenSeq(ids), counter[1], counter[n + 1])
  BY <1>1, <1>11, <1>12, <1>13, NumberedParts
<1> QED
  BY <1>2, <1>8, <1>14, <1>15, <1>16 DEF e, n

(* So do the members of the union that a field has.                        *)
LEMMA MembersNumbered ==
  ASSUME IdsRecursion, NEW type, type.a = "union", {"a", "members"} \subseteq DOMAIN type,
         IsSequence(type.members), \A i \in 1 .. Len(type.members) : TypeNumbered(type.members[i])
  PROVE  FieldTypeNumbered(type)
<1> SUFFICES ASSUME NEW first \in Counts
             PROVE  LET all == EnrichFieldType(type, <<>>, first)
                    IN Numbered(IdsBefore(type), IdsAfter(all.type), first, all.next)
  BY DEF FieldTypeNumbered
<1> DEFINE n == Len(type.members)
           e == EnrichFieldType(type, <<>>, first)
           turn(i, c) == EnrichTypeDefBelow(type.members[i], <<>>, c)
           Body(f) == [i \in 1 .. n + 1 |-> IF i = 1 THEN first ELSE turn(i - 1, f[i - 1]).next]
           counter == CHOOSE f : f = Body(f)
           step == [p \in Nat \X Counts |-> IF p[1] \in 1 .. n THEN turn(p[1], p[2]).next ELSE p[2]]
           old == [i \in 1 .. n |-> IdsBefore(type.members[i])]
           ids == [i \in 1 .. n |-> IdsAfter(turn(i, counter[i]).type)]
           members == [i \in 1 .. n |-> turn(i, counter[i]).type]
<1>1. n \in Nat /\ DOMAIN type.members = 1 .. n
  BY DEF IsSequence
<1>2. e = [type |-> [type EXCEPT !.members = members], next |-> counter[n + 1]]
  BY DEF EnrichFieldType
<1>3. ASSUME NEW i \in 1 .. n, NEW c \in Counts
      PROVE  /\ Numbered(IdsBefore(type.members[i]), IdsAfter(turn(i, c).type), c, turn(i, c).next)
             /\ turn(i, c).next \in Counts
  <2> DEFINE member == type.members[i]
             e2 == EnrichTypeDef(member, <<>>, c)
  <2>1. turn(i, c) = e2
    BY DEF IdsRecursion
  <2>2. TypeNumbered(member)
    OBVIOUS
  <2> HIDE DEF turn, member
  <2>3. Numbered(IdsBefore(member), IdsAfter(e2.type), c, e2.next)
    BY <2>2 DEF TypeNumbered
  <2> HIDE DEF e2
  <2>4. e2.next \in Counts
    BY <2>3 DEF Numbered
  <2> QED
    BY <2>1, <2>3, <2>4 DEF member
<1>4. IdsBefore(type) = FlattenSeq(old)
  <2>1. old = [i \in DOMAIN type.members |-> IdsBefore(type.members[i])]
    BY <1>1
  <2> HIDE DEF old
  <2> QED
    BY <2>1, IdsOfParts
<1> HIDE DEF n, e, turn
<1>5. IdsAfter(e.type) = FlattenSeq(ids)
  <2> DEFINE new == [type EXCEPT !.members = members]
  <2>1. DOMAIN members = 1 .. n
    OBVIOUS
  <2>2. ids = [i \in DOMAIN members |-> IdsAfter(members[i])]
    OBVIOUS
  <2> HIDE DEF members, ids
  <2>3. new.a = "union" /\ new.members = members
    OBVIOUS
  <2>4. e.type = new
    BY <1>2
  <2> HIDE DEF new
  <2>5. IdsAfter(new) = FlattenSeq([i \in DOMAIN new.members |-> IdsAfter(new.members[i])])
    BY <2>3, IdsOfParts
  <2> QED
    BY <2>2, <2>3, <2>4, <2>5
<1>6. e.next = counter[n + 1]
  BY <1>2
<1> HIDE DEF members
<1>7. step \in [Nat \X Counts -> Counts] /\ \A i \in 1 .. n, c \in Counts : step[<<i, c>>] = turn(i, c).next
  BY <1>1, <1>3
<1> HIDE DEF step
<1>8. PICK g : CounterOf(g, n, first, step)
  <2>1. n \in Nat /\ step \in [Nat \X Counts -> Counts]
    BY <1>1, <1>7
  <2> HIDE DEF old, ids, counter, Body
  <2> QED
    BY <2>1, CounterIs
<1>9. g = Body(g)
  <2>1. ASSUME NEW i \in 1 .. n + 1, i # 1 PROVE g[i] = turn(i - 1, g[i - 1]).next
    <3>1. i - 1 \in 1 .. n /\ i - 1 \in 1 .. n + 1 /\ (i - 1) + 1 = i
      BY <1>1, <2>1
    <3>2. g[i - 1] \in Counts /\ g[(i - 1) + 1] = step[<<i - 1, g[i - 1]>>]
      BY <1>8, <3>1 DEF CounterOf
    <3> QED
      BY <1>7, <3>1, <3>2
  <2> QED
    BY <1>8, <2>1 DEF CounterOf
<1>10. counter = Body(counter)
  BY <1>9
<1> HIDE DEF counter
<1>11. PlacesOf(counter, n) /\ counter[1] = first
  BY <1>1, <1>10 DEF PlacesOf
<1>12. \A i \in 1 .. n : counter[i + 1] = turn(i, counter[i]).next
  <2>1. \A i \in 1 .. n : i + 1 \in 1 .. n + 1 /\ i + 1 # 1 /\ (i + 1) - 1 = i
    BY <1>1
  <2>2. \A i \in 1 .. n + 1 : i # 1 => counter[i] = turn(i - 1, counter[i - 1]).next
    BY <1>10
  <2> HIDE DEF Body, old, ids
  <2> SUFFICES ASSUME NEW i \in 1 .. n PROVE counter[i + 1] = turn(i, counter[i]).next
    OBVIOUS
  <2>3. counter[i + 1] = turn((i + 1) - 1, counter[(i + 1) - 1]).next
    BY <2>1, <2>2
  <2> QED
    BY <2>1, <2>3
<1>13. \A i \in 1 .. n : counter[i] \in Counts => counter[i + 1] = step[<<i, counter[i]>>]
  BY <1>7, <1>12
<1>14. counter \in [1 .. n + 1 -> Counts]
  <2>1. n \in Nat
    BY <1>1
  <2> HIDE DEF old, ids, Body
  <2>2. StepsOf(counter, n, step)
    BY <1>13 DEF StepsOf
  <2>3. AllCounts(counter, n)
    BY <2>1, <2>2, <1>7, <1>11, CountsAlong
  <2> QED
    BY <2>3 DEF AllCounts
<1>15. ASSUME NEW i \in 1 .. n PROVE Numbered(old[i], ids[i], counter[i], counter[i + 1])
  <2>1. counter[i] \in Counts
    <3>1. i \in 1 .. n + 1
      BY <1>1
    <3> QED
      BY <1>14, <3>1
  <2> QED
    BY <1>3, <1>12, <2>1
<1>16. old = [i \in 1 .. n |-> old[i]] /\ ids = [i \in 1 .. n |-> ids[i]]
  OBVIOUS
<1> HIDE DEF old, ids
<1>17. Numbered(FlattenSeq(old), FlattenSeq(ids), counter[1], counter[n + 1])
  BY <1>1, <1>14, <1>15, <1>16, NumberedParts
<1>18. Numbered(IdsBefore(type), IdsAfter(e.type), first, e.next)
  BY <1>4, <1>5, <1>6, <1>11, <1>17
<1> QED
  BY <1>18 DEF e

(* A field is numbered before its type. *)
LEMMA FieldOfType ==
  ASSUME NEW field, {"id", "type"} \subseteq DOMAIN field, field.id \in Nat, FieldTypeNumbered(field.type)
  PROVE  FieldNumbered(field)
<1> SUFFICES ASSUME NEW first \in Counts
             PROVE  LET all == EnrichField(field, <<>>, first)
                    IN Numbered(FieldBefore(field), FieldAfter(all.field), first, all.next)
  BY DEF FieldNumbered
<1> DEFINE own == FieldId(field, <<>>, first)
           e == EnrichFieldType(field.type, <<>>, own.next)
           new == [field EXCEPT !.id = own.id, !.type = e.type]
           all == EnrichField(field, <<>>, first)
<1>1. /\ own.next \in Counts
      /\ Numbered(<<field.id>>, <<own.id>>, first, own.next)
  <2>1. CASE field.id # NoId
    <3>1. own = [id |-> field.id, next |-> first]
      BY <2>1 DEF FieldId
    <3>2. Numbered(<<field.id>>, <<field.id>>, first, first)
      BY <2>1, NumberedOne
    <3> HIDE DEF own
    <3> QED
      BY <3>1, <3>2
  <2>2. CASE field.id = NoId
    <3>1. own = [id |-> first, next |-> first + 1]
      BY <2>2 DEF FieldId
    <3>2. Numbered(<<NoId>>, <<first>>, first, first + 1)
      BY NumberedOne
    <3>3. first + 1 \in Counts
      BY DEF Counts
    <3> HIDE DEF own
    <3> QED
      BY <2>2, <3>1, <3>2, <3>3
  <2> QED
    BY <2>1, <2>2
<1> HIDE DEF own
<1>2. Numbered(IdsBefore(field.type), IdsAfter(e.type), own.next, e.next)
  BY <1>1 DEF FieldTypeNumbered
<1>3. all = [field |-> new, next |-> e.next]
  BY DEF EnrichField, own
<1> HIDE DEF e, all
<1>4. new.id = own.id /\ new.type = e.type
  OBVIOUS
<1> HIDE DEF new
<1>5. Numbered(<<field.id>> \o IdsBefore(field.type), <<own.id>> \o IdsAfter(e.type), first, e.next)
  BY <1>1, <1>2, NumberedOn
<1>6. Numbered(FieldBefore(field), FieldAfter(all.field), first, all.next)
  BY <1>3, <1>4, <1>5 DEF FieldBefore, FieldAfter
<1> QED
  BY <1>6 DEF all

(* An array is numbered before its items. *)
LEMMA ArrayNumbered ==
  ASSUME IdsRecursion, NEW type, type.a = "array", {"a", "id", "items"} \subseteq DOMAIN type,
         TypeNumbered(type.items)
  PROVE  TypeNumbered(type)
<1> SUFFICES ASSUME NEW first \in Counts
             PROVE  LET all == EnrichTypeDef(type, <<>>, first)
                    IN Numbered(IdsBefore(type), IdsAfter(all.type), first, all.next)
  BY DEF TypeNumbered
<1> DEFINE e == EnrichTypeDef(type.items, <<>>, first + 1)
           new == [type EXCEPT !.id = first, !.items = e.type]
           all == EnrichTypeDef(type, <<>>, first)
<1>1. first + 1 \in Counts
  BY DEF Counts
<1>2. Numbered(IdsBefore(type.items), IdsAfter(e.type), first + 1, e.next)
  BY <1>1 DEF TypeNumbered
<1>3. all = [type |-> new, next |-> e.next]
  <2>1. EnrichTypeDefBelow(type.items, <<>>, first + 1) = e
    BY DEF IdsRecursion
  <2>2. EnrichTypeDef(type, <<>>, first) = EnrichArrayType(type, <<>>, first)
    BY DEF EnrichTypeDef
  <2> HIDE DEF e
  <2> QED
    BY <2>1, <2>2 DEF EnrichArrayType
<1> HIDE DEF e, all
<1>4. new.a = "array" /\ new.id = first /\ new.items = e.type
  OBVIOUS
<1> HIDE DEF new
<1>5. IdsBefore(type) = <<NoId>> \o IdsBefore(type.items) /\ IdsAfter(new) = <<first>> \o IdsAfter(e.type)
  BY <1>4, IdsOfParts
<1>6. Numbered(<<NoId>>, <<first>>, first, first + 1)
  BY NumberedOne DEF NoId
<1>7. Numbered(<<NoId>> \o IdsBefore(type.items), <<first>> \o IdsAfter(e.type), first, e.next)
  BY <1>2, <1>6, NumberedOn
<1>8. Numbered(IdsBefore(type), IdsAfter(all.type), first, all.next)
  BY <1>3, <1>5, <1>7
<1> QED
  BY <1>8 DEF all

(* Two places, one behind the other. *)
LEMMA PairOf ==
  ASSUME NEW s \in Seq(Nat), NEW t \in Seq(Nat), Len(s) = 1, Len(t) = 1
  PROVE  s \o t = <<s[1], t[1]>>
<1> DEFINE both == s \o t
           pair == <<s[1], t[1]>>
<1>1. /\ both \in Seq(Nat) /\ Len(both) = Len(s) + Len(t)
      /\ \A i \in 1 .. Len(s) : both[i] = s[i]
      /\ \A i \in 1 .. Len(t) : both[Len(s) + i] = t[i]
  BY Appended
<1>2. s[1] \in Nat /\ t[1] \in Nat
  OBVIOUS
<1>3. Len(pair) = 2 /\ pair[1] = s[1] /\ pair[2] = t[1]
  OBVIOUS
<1>4. DOMAIN pair = 1 .. 2 /\ pair = [i \in 1 .. 2 |-> pair[i]]
  OBVIOUS
<1> HIDE DEF both, pair
<1>5. Len(both) = 2 /\ both[1] = s[1] /\ both[2] = t[1] /\ both = [i \in 1 .. 2 |-> both[i]]
  BY <1>1
<1>6. \A i \in 1 .. 2 : both[i] = pair[i]
  BY <1>3, <1>5
<1>7. both = pair
  BY <1>4, <1>5, <1>6
<1> QED
  BY <1>7 DEF both, pair

(* A map is numbered before its values, its key before its value. *)
LEMMA MapNumbered ==
  ASSUME IdsRecursion, NEW type, type.a = "map", {"a", "key", "value", "values"} \subseteq DOMAIN type,
         TypeNumbered(type.values)
  PROVE  TypeNumbered(type)
<1> SUFFICES ASSUME NEW first \in Counts
             PROVE  LET all == EnrichTypeDef(type, <<>>, first)
                    IN Numbered(IdsBefore(type), IdsAfter(all.type), first, all.next)
  BY DEF TypeNumbered
<1> DEFINE e == EnrichTypeDef(type.values, <<>>, first + 2)
           new == [type EXCEPT !.key = first, !.value = first + 1, !.values = e.type]
           all == EnrichTypeDef(type, <<>>, first)
<1>1. first + 1 \in Counts /\ first + 2 \in Counts /\ (first + 1) + 1 = first + 2
  BY DEF Counts
<1>2. Numbered(IdsBefore(type.values), IdsAfter(e.type), first + 2, e.next)
  BY <1>1 DEF TypeNumbered
<1>3. all = [type |-> new, next |-> e.next]
  <2>1. EnrichTypeDefBelow(type.values, <<>>, first + 2) = e
    BY DEF IdsRecursion
  <2>2. EnrichTypeDef(type, <<>>, first) = EnrichMapType(type, <<>>, first)
    BY DEF EnrichTypeDef
  <2> HIDE DEF e
  <2> QED
    BY <2>1, <2>2 DEF EnrichMapType
<1> HIDE DEF e, all
<1>4. new.a = "map" /\ new.key = first /\ new.value = first + 1 /\ new.values = e.type
  OBVIOUS
<1> HIDE DEF new
<1>5. /\ IdsBefore(type) = <<NoId, NoId>> \o IdsBefore(type.values)
      /\ IdsAfter(new) = <<first, first + 1>> \o IdsAfter(e.type)
  BY <1>4, IdsOfParts
<1>6. Numbered(<<NoId, NoId>>, <<first, first + 1>>, first, first + 2)
  <2>1. Numbered(<<NoId>>, <<first>>, first, first + 1)
    BY NumberedOne DEF NoId
  <2>2. Numbered(<<NoId>>, <<first + 1>>, first + 1, first + 2)
    <3>1. Numbered(<<NoId>>, <<first + 1>>, first + 1, (first + 1) + 1)
      BY <1>1, NumberedOne DEF NoId
    <3> QED
      BY <1>1, <3>1
  <2>3. Numbered(<<NoId>> \o <<NoId>>, <<first>> \o <<first + 1>>, first, first + 2)
    BY <2>1, <2>2, NumberedOn
  <2>4. ASSUME NEW a \in Nat, NEW b \in Nat PROVE <<a>> \o <<b>> = <<a, b>>
    <3> DEFINE s == <<a>>
               t == <<b>>
    <3>1. s \in Seq(Nat) /\ t \in Seq(Nat) /\ Len(s) = 1 /\ Len(t) = 1 /\ s[1] = a /\ t[1] = b
      OBVIOUS
    <3> HIDE DEF s, t
    <3>2. s \o t = <<s[1], t[1]>>
      BY <3>1, PairOf
    <3>3. s \o t = <<a, b>>
      BY <3>1, <3>2
    <3> QED
      BY <3>3 DEF s, t
  <2>5. NoId \in Nat /\ first \in Nat /\ first + 1 \in Nat
    BY DEF NoId, Counts
  <2> QED
    BY <2>3, <2>4, <2>5
<1>7. Numbered(<<NoId, NoId>> \o IdsBefore(type.values), <<first, first + 1>> \o IdsAfter(e.type), first, e.next)
  BY <1>2, <1>6, NumberedOn
<1>8. Numbered(IdsBefore(type), IdsAfter(all.type), first, all.next)
  BY <1>3, <1>5, <1>7
<1> QED
  BY <1>8 DEF all

(* A record is numbered field by field. *)
LEMMA RecordNumbered ==
  ASSUME IdsRecursion, NEW type, type.a = "record", {"a", "fields"} \subseteq DOMAIN type,
         IsSequence(type.fields), \A i \in 1 .. Len(type.fields) : FieldNumbered(type.fields[i])
  PROVE  TypeNumbered(type)
<1> SUFFICES ASSUME NEW first \in Counts
             PROVE  LET all == EnrichTypeDef(type, <<>>, first)
                    IN Numbered(IdsBefore(type), IdsAfter(all.type), first, all.next)
  BY DEF TypeNumbered
<1> DEFINE e == EnrichFields(type.fields, <<>>, first)
           new == [type EXCEPT !.fields = e.done]
           all == EnrichTypeDef(type, <<>>, first)
           old == FlattenSeq([i \in DOMAIN type.fields |-> FieldBefore(type.fields[i])])
           ids == FlattenSeq([i \in DOMAIN e.done |-> FieldAfter(e.done[i])])
<1>1. Numbered(old, ids, first, e.next)
  BY FieldsNumbered
<1>2. all = [type |-> new, next |-> e.next]
  BY DEF EnrichTypeDef
<1>3. IdsBefore(type) = old
  BY IdsOfParts
<1> HIDE DEF e, all
<1>4. new.a = "record" /\ new.fields = e.done
  OBVIOUS
<1> HIDE DEF new
<1>5. IdsAfter(new) = ids
  <2>1. IdsAfter(new) = FlattenSeq([i \in DOMAIN new.fields |-> FieldAfter(new.fields[i])])
    BY <1>4, IdsOfParts
  <2> QED
    BY <1>4, <2>1
<1> HIDE DEF old, ids
<1>6. Numbered(IdsBefore(type), IdsAfter(all.type), first, all.next)
  BY <1>1, <1>2, <1>3, <1>5
<1> QED
  BY <1>6 DEF all

(* A type that brings no id of a collection along. *)
NoneOfCollections(type) == IdsBefore(type) \in Seq(Nat) /\ IdsAfter(type) = IdsBefore(type)

(* What is neither a record, an array nor a map stays as it is. *)
LEMMA OthersNumbered ==
  ASSUME NEW type, type.a \notin {"record", "array", "map"}, NoneOfCollections(type)
  PROVE  TypeNumbered(type)
<1> SUFFICES ASSUME NEW first \in Counts
             PROVE  LET all == EnrichTypeDef(type, <<>>, first)
                    IN Numbered(IdsBefore(type), IdsAfter(all.type), first, all.next)
  BY DEF TypeNumbered
<1> DEFINE ids == IdsBefore(type)
           all == EnrichTypeDef(type, <<>>, first)
<1>1. all = [type |-> type, next |-> first]
  BY DEF EnrichTypeDef
<1>2. ids \in Seq(Nat) /\ IdsAfter(type) = ids
  BY DEF NoneOfCollections
<1> HIDE DEF ids
<1>3. Numbered(ids, ids, first, first)
  <2>1. first \in Nat /\ first .. first - 1 = {} /\ first <= first
    BY DEF Counts
  <2>2. \A i \in 1 .. Len(ids) : ~NewAt(ids, ids, i)
    BY DEF NewAt
  <2> QED
    BY <1>2, <2>1, <2>2 DEF Numbered
<1> HIDE DEF all
<1>4. Numbered(ids, IdsAfter(all.type), first, all.next)
  BY <1>1, <1>2, <1>3
<1> QED
  BY <1>4 DEF all, ids

(* The types of an Avro schema whose fields get ids, in levels. What stays *)
(* as it is - a scalar, or a union inside an array or a map - brings no id *)
(* of an array or a map along.                                             *)
FieldIdTypes(kinds) ==
    \A n \in Nat : \A type \in kinds[n] :
       \/ /\ type.a = "record" /\ {"a", "fields"} \subseteq DOMAIN type /\ IsSequence(type.fields)
          /\ \A i \in 1 .. Len(type.fields) :
                LET field == type.fields[i] IN
                /\ {"id", "type"} \subseteq DOMAIN field /\ field.id \in Nat
                /\ \/ field.type.a # "union" /\ field.type \in Below(kinds, n)
                   \/ /\ field.type.a = "union" /\ {"a", "members"} \subseteq DOMAIN field.type
                      /\ IsSequence(field.type.members)
                      /\ \A j \in 1 .. Len(field.type.members) :
                            field.type.members[j] \in Below(kinds, n)
       \/ type.a = "array" /\ {"a", "id", "items"} \subseteq DOMAIN type /\ type.items \in Below(kinds, n)
       \/ /\ type.a = "map" /\ {"a", "key", "value", "values"} \subseteq DOMAIN type
          /\ type.values \in Below(kinds, n)
       \/ type.a \notin {"record", "array", "map"} /\ NoneOfCollections(type)

(* Every type is numbered, at any depth. *)
LEMMA AllNumbered ==
  ASSUME IdsRecursion, NEW kinds, FieldIdTypes(kinds)
  PROVE  \A n \in Nat : \A type \in kinds[n] : TypeNumbered(type)
<1> DEFINE T == {n \in Nat : \A type \in kinds[n] : TypeNumbered(type)}
<1>1. ASSUME NEW n \in Nat, \A m \in 0 .. n - 1 : m \in T PROVE n \in T
  <2>1. \A type \in Below(kinds, n) : TypeNumbered(type)
    BY <1>1 DEF Below
  <2>2. ASSUME NEW type \in kinds[n] PROVE TypeNumbered(type)
    <3>1. CASE type.a = "record"
      <4>1. {"a", "fields"} \subseteq DOMAIN type /\ IsSequence(type.fields)
        BY <3>1 DEF FieldIdTypes
      <4>2. ASSUME NEW i \in 1 .. Len(type.fields) PROVE FieldNumbered(type.fields[i])
        <5> DEFINE field == type.fields[i]
        <5>1. {"id", "type"} \subseteq DOMAIN field /\ field.id \in Nat
          BY <3>1 DEF FieldIdTypes
        <5>2. \/ field.type.a # "union" /\ field.type \in Below(kinds, n)
              \/ /\ field.type.a = "union" /\ {"a", "members"} \subseteq DOMAIN field.type
                 /\ IsSequence(field.type.members)
                 /\ \A j \in 1 .. Len(field.type.members) : field.type.members[j] \in Below(kinds, n)
          BY <3>1 DEF FieldIdTypes
        <5> HIDE DEF field
        <5>3. FieldTypeNumbered(field.type)
          <6>1. CASE field.type.a # "union"
            <7>1. TypeNumbered(field.type)
              BY <2>1, <5>2, <6>1
            <7>2. \A c : EnrichFieldType(field.type, <<>>, c) = EnrichTypeDefBelow(field.type, <<>>, c)
              BY <6>1 DEF EnrichFieldType
            <7>3. \A c : EnrichFieldType(field.type, <<>>, c) = EnrichTypeDef(field.type, <<>>, c)
              BY <7>2 DEF IdsRecursion
            <7> QED
              BY <7>1, <7>3 DEF TypeNumbered, FieldTypeNumbered
          <6>2. CASE field.type.a = "union"
            BY <2>1, <5>2, <6>2, MembersNumbered
          <6> QED
            BY <6>1, <6>2
        <5>4. FieldNumbered(field)
          BY <5>1, <5>3, FieldOfType
        <5> QED
          BY <5>4 DEF field
      <4> QED
        BY <3>1, <4>1, <4>2, RecordNumbered
    <3>2. CASE type.a = "array"
      <4>1. {"a", "id", "items"} \subseteq DOMAIN type /\ type.items \in Below(kinds, n)
        BY <3>2 DEF FieldIdTypes
      <4> QED
        BY <2>1, <3>2, <4>1, ArrayNumbered
    <3>3. CASE type.a = "map"
      <4>1. {"a", "key", "value", "values"} \subseteq DOMAIN type /\ type.values \in Below(kinds, n)
        BY <3>3 DEF FieldIdTypes
      <4> QED
        BY <2>1, <3>3, <4>1, MapNumbered
    <3>4. CASE type.a \notin {"record", "array", "map"}
      <4>1. NoneOfCollections(type)
        BY <3>4 DEF FieldIdTypes
      <4> QED
        BY <3>4, <4>1, OthersNumbered
    <3> QED
      BY <3>1, <3>2, <3>3, <3>4
  <2> QED
    BY <2>2
<1> HIDE DEF T
<1>2. \A n \in Nat : n \in T
  BY <1>1, StrongInduction
<1> QED
  BY <1>2 DEF T

(* Where new ids are in order from 1, each is how many there are up to it. *)
LEMMA IdsCounted ==
  ASSUME NEW old, NEW ids, NEW next, Numbered(old, ids, 1, next),
         NEW i \in 1 .. Len(old), NewAt(old, ids, i)
  PROVE  ids[i] = Cardinality({j \in 1 .. Len(old) : NewAt(old, ids, j) /\ j <= i})
<1> DEFINE n == Len(old)
           J == {j \in 1 .. n : NewAt(old, ids, j) /\ j <= i}
           Is(k, j) == j \in J /\ ids[j] = k
           g == [k \in 1 .. ids[i] |-> CHOOSE j : Is(k, j)]
<1>1. n \in Nat /\ \A j \in 1 .. n : ids[j] \in Nat
  <2>1. ids \in Seq(Nat) /\ Len(ids) = n /\ n \in Nat
    BY DEF Numbered
  <2> QED
    BY <2>1
<1>2. /\ \A j \in 1 .. n : NewAt(old, ids, j) => 1 <= ids[j] /\ ids[j] < next
      /\ \A j, k \in 1 .. n : NewAt(old, ids, j) /\ NewAt(old, ids, k) /\ j < k => ids[j] < ids[k]
      /\ \A k \in 1 .. next - 1 : \E j \in 1 .. n : NewAt(old, ids, j) /\ ids[j] = k
      /\ next \in Nat
  BY DEF Numbered, Counts
<1> HIDE DEF n
<1>3. i \in 1 .. n /\ ids[i] \in Nat /\ 1 <= ids[i] /\ ids[i] < next
  BY <1>1, <1>2 DEF n
<1>4. ASSUME NEW k \in 1 .. ids[i] PROVE \E j : Is(k, j)
  <2>1. k \in 1 .. next - 1
    BY <1>2, <1>3
  <2>2. PICK j \in 1 .. n : NewAt(old, ids, j) /\ ids[j] = k
    BY <1>2, <2>1
  <2>3. ~(i < j)
    BY <1>2, <1>3, <2>2
  <2>4. j <= i
    BY <1>1, <2>3
  <2> QED
    BY <2>2, <2>4
<1>5. ASSUME NEW j \in J PROVE ids[j] \in 1 .. ids[i]
  <2>1. j \in 1 .. n /\ NewAt(old, ids, j) /\ (j < i \/ j = i)
    BY <1>1
  <2>2. ids[j] < ids[i] \/ ids[j] = ids[i]
    BY <1>2, <1>3, <2>1
  <2> QED
    BY <1>1, <1>2, <1>3, <2>1, <2>2
<1>6. ASSUME NEW j \in J, NEW k \in J, ids[j] = ids[k] PROVE j = k
  <2>1. j \in 1 .. n /\ k \in 1 .. n /\ NewAt(old, ids, j) /\ NewAt(old, ids, k) /\ ids[j] \in Nat
    BY <1>1
  <2>2. ~(j < k) /\ ~(k < j)
    BY <1>2, <1>6, <2>1
  <2> QED
    BY <1>1, <2>1, <2>2
<1>7. \A k \in 1 .. ids[i] : Is(k, g[k])
  BY <1>4
<1> HIDE DEF g
<1>8. \A k \in 1 .. ids[i] : g[k] \in J /\ ids[g[k]] = k
  BY <1>7
<1>9. DOMAIN g = 1 .. ids[i] /\ g = [k \in 1 .. ids[i] |-> g[k]]
  BY DEF g
<1> HIDE DEF J
<1>10. g \in [1 .. ids[i] -> J]
  BY <1>8, <1>9
<1>11. IsInjective(g)
  BY <1>8, <1>9 DEF IsInjective
<1>12. \A j \in J : \E k \in 1 .. ids[i] : g[k] = j
  BY <1>5, <1>6, <1>8
<1>13. g \in Bijection(1 .. ids[i], J)
  BY <1>10, <1>11, <1>12 DEF Bijection, Injection, Surjection
<1>14. ExistsBijection(1 .. ids[i], J)
  BY <1>13 DEF ExistsBijection
<1>15. Cardinality(J) = ids[i]
  BY <1>3, <1>14, FS_CountingElements
<1> QED
  BY <1>15 DEF J, n

(* The schemas of the Avro files have such types. *)
SchemasWithIds(kinds) ==
    \A q \in Requests : q.source.kind = "avro-ocf" => \E n \in Nat : q.source.schema \in kinds[n]

(* For every schema, of any depth, the fields keep the ids they have and   *)
(* the others, and all arrays and maps, get 1, 2, ... in the order in      *)
(* which the schema is written, none left out (avro_id.py l.54-196).       *)
THEOREM PipelineIds ==
  ASSUME IdsRecursion, NEW kinds, FieldIdTypes(kinds), SchemasWithIds(kinds)
  PROVE  Spec => []IdsInOrder
<1>1. ASSUME History PROVE IdsInOrder
  <2> DEFINE type == request.source.schema
             before == IdsOf(type, FALSE)
             after == IdsOf(EnrichedSchema(request.source), TRUE)
             new == {i \in DOMAIN after : before[i] = NoId /\ after[i] # NoId}
  <2> SUFFICES ASSUME IsAvro
               PROVE  /\ DOMAIN after = DOMAIN before
                      /\ \A i \in DOMAIN before : before[i] # NoId => after[i] = before[i]
                      /\ \A i \in new : after[i] = Cardinality({j \in new : j <= i})
    BY DEF IdsInOrder
  <2>1. TypeNumbered(type)
    BY <1>1, AllNumbered DEF SchemasWithIds, IsAvro, History
  <2>2. PICK next : Numbered(before, after, 1, next)
    <3> DEFINE e == EnrichTypeDef(type, <<>>, 1)
    <3>1. Numbered(IdsBefore(type), IdsAfter(e.type), 1, e.next)
      BY <2>1 DEF TypeNumbered, Counts
    <3>2. EnrichedSchema(request.source) = e.type
      BY DEF EnrichedSchema, AssignFieldIds
    <3> HIDE DEF e, type
    <3>3. before = IdsBefore(type) /\ after = IdsAfter(e.type)
      BY <3>2 DEF IdsBefore, IdsAfter
    <3> QED
      BY <3>1, <3>3
  <2> HIDE DEF before, after
  <2>3. DOMAIN before = 1 .. Len(before) /\ DOMAIN after = 1 .. Len(before)
    BY <2>2 DEF Numbered
  <2>4. \A i \in 1 .. Len(before) : before[i] # NoId => after[i] = before[i]
    BY <2>2 DEF Numbered
  <2>5. ASSUME NEW i \in new PROVE after[i] = Cardinality({j \in new : j <= i})
    <3>1. i \in 1 .. Len(before) /\ NewAt(before, after, i)
      BY <2>3 DEF NewAt
    <3>2. {j \in new : j <= i} = {j \in 1 .. Len(before) : NewAt(before, after, j) /\ j <= i}
      BY <2>3 DEF NewAt
    <3> HIDE DEF new
    <3> QED
      BY <2>2, <3>1, <3>2, IdsCounted
  <2> QED
    BY <2>3, <2>4, <2>5
<1> QED
  BY <1>1, HistoryKnown, PTL
=============================================================================
