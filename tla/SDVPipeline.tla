----------------------------- MODULE SDVPipeline -----------------------------
(***************************************************************************)
(* One generation, on a worker thread: _generate_synthetic_data            *)
(* (src/core/synthetic_worker.py) loads a table and SDVPipeline.run_pipeline *)
(* (src/core/sdv_pipeline.py) flattens it, fits a synthesizer, samples and *)
(* unflattens.  Every step may raise, which ends the generation.           *)
(*                                                                         *)
(* The synthesizer is a library.  What the pipeline relies on is that a    *)
(* sample has the columns it was fitted on; here each cell of a sample is  *)
(* one the column had, chosen apart from the other columns, which stands   *)
(* for any value within the bounds of that column.                         *)
(***************************************************************************)
EXTENDS Sources

CONSTANT Requests      (* what is asked for: [source, limit, size]; columns as long *)

CONSTANT ExpectedTypeBelow(_, _, _)      (* as in Flatten *)

ASSUME RequestsAssumption ==
    \A r \in Requests : r.limit \in Nat /\ r.size \in Nat \ {0}

(* The keys of JSON records are texts. *)
ASSUME KeysAssumption ==
    \A r \in Requests : r.source.kind = "json" =>
       \A key, other \in Keys(Range(r.source.records)) : Spelled(key) = Spelled(other) => key = other

VARIABLES
    stage,     (* the step that comes next, or how the generation ended *)
    request,   (* the source, load_limit and output_size                *)
    input,     (* the loaded table and its backend                      *)
    schema,    (* the flattener's _schema                               *)
    flat,      (* the flat columns, by name                             *)
    types,     (* the Arrow types of the flat columns, then of the sample *)
    sampled,   (* the synthesizer's rows                                *)
    result     (* the nested columns of the generated table             *)

vars == <<stage, request, input, schema, flat, types, sampled, result>>

NumRows == IF input.table = <<>> THEN 0 ELSE Len(input.table[1].cells)
OutputSize == request.size

TypeOK ==
    /\ stage \in {"load", "flatten", "fit", "sample", "unflatten", "done", "error"}
    /\ request \in Requests
    /\ input.backend \in {"pandas", "arrow"}
    /\ stage \notin {"load", "error"} => NumRows > 0
    /\ Len(schema) \in {0, Len(input.table)}
    /\ \A name \in DOMAIN flat : Len(flat[name]) = NumRows
    /\ DOMAIN types \in {{}, DOMAIN flat}
    /\ \A name \in DOMAIN sampled : Len(sampled[name]) = OutputSize
    /\ stage = "done" => Len(result) = Len(input.table)

Init ==
    /\ stage = "load"
    /\ request \in Requests
    /\ input = [backend |-> "pandas", table |-> <<>>]
    /\ schema = <<>>
    /\ flat = <<>>
    /\ types = <<>>
    /\ sampled = <<>>
    /\ result = <<>>

(* Seeded fault: the number of rows is not looked at. *)
LoadUnchecked ==
    /\ stage = "load"
    /\ Loads(request.source, request.limit)
    /\ input' = LoadDataframe(request.source, request.limit)
    /\ stage' = "flatten"
    /\ UNCHANGED <<request, schema, flat, types, sampled, result>>

(* source.load_dataframe(), which must give at least one row. *)
Load ==
    /\ stage = "load"
    /\ Loads(request.source, request.limit)
    /\ input' = LoadDataframe(request.source, request.limit)
    /\ NumRows' > 0
    /\ stage' = "flatten"
    /\ UNCHANGED <<request, schema, flat, types, sampled, result>>

FlattenData ==
    /\ stage = "flatten"
    /\ schema' = Schema(input.backend, input.table)
    /\ flat' = FlattenTable(input.backend, input.table)
    /\ types' = FlatTypes(input.backend, input.table, flat')
    /\ stage' = "fit"
    /\ UNCHANGED <<request, input, sampled, result>>

(* There is nothing to fit in a table without columns. *)
Fit ==
    /\ stage = "fit"
    /\ DOMAIN flat # {}
    /\ stage' = "sample"
    /\ UNCHANGED <<request, input, schema, flat, types, sampled, result>>

(* Seeded fault: one null in the sample counts for every column. *)
NullsOfFrame(rows, name) ==
    {r \in 1 .. OutputSize : \E n \in DOMAIN rows : rows[n][r] = Null}

Nulls(rows, name) == {r \in 1 .. OutputSize : rows[name][r] = Null}

(* _dataframe_to_pyarrow_table: the type of a column follows from its nulls *)
(* in the sample.                                                          *)
SampledType(rows, name) ==
    CASE types[name] = "null" -> "double"
      [] types[name] = "int64" /\ Nulls(rows, name) \notin {{}, 1 .. OutputSize} -> "double"
      [] OTHER -> types[name]

(* Columns that become text when pandas has their nulls as NaN. *)
Unconverted(rows) ==
    {name \in DOMAIN types :
       \/ types[name] = "int64" /\ Nulls(rows, name) = 1 .. OutputSize
       \/ types[name] = "bool" /\ Nulls(rows, name) # {}}

Sample ==
    /\ stage = "sample"
    /\ \E row \in [DOMAIN flat -> [1 .. OutputSize -> 1 .. NumRows]] :
          sampled' = [name \in DOMAIN flat |->
                        [r \in 1 .. OutputSize |-> flat[name][row[name][r]]]]
    /\ \E texts \in SUBSET Unconverted(sampled') :
          types' = [name \in DOMAIN types |->
                      IF name \in texts THEN "string" ELSE SampledType(sampled', name)]
    /\ stage' = "unflatten"
    /\ UNCHANGED <<request, input, schema, flat, result>>

(* An Arrow list of dictionaries needs a type that its schema can express. *)
Unflatten ==
    /\ stage = "unflatten"
    /\ input.backend = "arrow" => \A i \in DOMAIN schema : Buildable(schema[i].root)
    /\ result' = UnflattenTable(input.backend, schema, sampled, OutputSize)
    /\ stage' = "done"
    /\ UNCHANGED <<request, input, schema, flat, types, sampled>>

(* "No valid records loaded from source", or an exception of the source or *)
(* of a library: _generate_with_cleanup makes a GenerationError of it.     *)
Fails ==
    /\ stage \notin {"done", "error"}
    /\ stage' = "error"
    /\ UNCHANGED <<request, input, schema, flat, types, sampled, result>>

Ended == stage \in {"done", "error"} /\ UNCHANGED vars

Next == Load \/ FlattenData \/ Fit \/ Sample \/ Unflatten \/ Fails \/ Ended

Spec == Init /\ [][Next]_vars
-----------------------------------------------------------------------------
(* Properties. *)

(* Keys and columns of the table do not meet at a flat name. *)
InputApart == Apart(input.backend, input.table)

(* What comes back of the flattened table itself. *)
Restored == UnflattenTable(input.backend, schema, flat, NumRows)

Original == [i \in DOMAIN input.table |-> Values(input.backend, input.table[i].cells)]

(* unflatten() undoes flatten() (sdv_pipeline.py l.70-90, 237-262): every   *)
(* value comes back at its own place, and what is added is null, as long as *)
(* there is a flat column at all and nothing meets at a flat name.  The    *)
(* code does not look for that: of two keys {"b.c": ..., "b": {"c": ...}}  *)
(* of a dictionary, a list x beside x__0 in an Arrow struct, or a column   *)
(* "a.x" beside a dictionary a, one gets the values of the other           *)
(* (flatten.py l.594, 675, 887), although "original structure preserved" is *)
(* promised (sdv_pipeline.py l.267-268).                                   *)
RoundTrip ==
    DOMAIN flat # {} /\ InputApart =>
       \A i \in DOMAIN input.table : \A r \in 1 .. NumRows :
          Returned(Original[i][r], Restored[i][r])

(* A frame without nulls comes back as it was, lists of different lengths  *)
(* included: the places that flattening adds to the shorter ones are taken *)
(* away again (tests/test_flatten_arrays.py l.123-201).                    *)
FramesComeBack ==
    /\ DOMAIN flat # {}
    /\ input.backend = "pandas"
    /\ InputApart
    /\ \A i \in DOMAIN input.table : Whole(Range(input.table[i].cells))
    => Restored = Original

(* Whatever rows the synthesizer mixes together, the generated table has   *)
(* the shape of the source (l.264-322): its keys, lists no longer than its *)
(* longest, nulls only where it had some or an Arrow list is filled up,    *)
(* and at each path only values it had there, as long as nothing meets.    *)
SampledFits ==
    stage = "done" /\ InputApart =>
       \A i \in DOMAIN input.table : \A r \in 1 .. OutputSize :
          Fits(input.backend, result[i][r], Range(Original[i]))

(* The Arrow type that stands for a type of the source. *)
FlatTypeOf(of) ==
    CASE of \in {"long", "uint64"} -> "int64"
      [] of \in {"string", "timestamp"} -> "string"
      [] of = "boolean" -> "bool"
      [] OTHER -> "date32"

(* Two generations of one source give a column the same type, as a table   *)
(* that already has rows of the first demands (iceberg.py l.220-230): as   *)
(* long as the source has no null there, no sample makes a double or a     *)
(* text of it (l.183-207).                                                 *)
TypesKept ==
    /\ stage \in {"unflatten", "done"}
    /\ input.backend = "arrow"
    /\ ColumnsApart(input.backend, input.table)
    => \A i \in DOMAIN input.table :
          LET column == input.table[i] IN
          /\ column.type.t = "scalar"
          /\ Null \notin Range(column.cells)
          => types[column.name] = FlatTypeOf(column.type.of)
-----------------------------------------------------------------------------
(* What an Avro file or JSON records turn into. *)

IsAvro == request.source.kind = "avro-ocf"
Loaded == stage \notin {"load", "error"}

Records == request.source.records
Fields == request.source.schema.fields
RowsAsked == IF request.limit = NoLimit THEN Len(Records) ELSE Min({request.limit, Len(Records)})

(* The loaded table has the rows that were asked for, no more and no fewer  *)
(* up to the limit, and each value of a record at its own row, key and     *)
(* place in a list, though the converter lays out the items of all lists   *)
(* of a column in one array (avro_to_arrow.py l.206-336, source.py         *)
(* l.96-101, json.py l.28-32).                                             *)
RecordsLoaded ==
    /\ IsAvro /\ Loaded =>
          /\ NumRows = RowsAsked
          /\ \A i \in DOMAIN Fields : \A r \in 1 .. NumRows :
                Carries(Get(Records[r], Fields[i].name), input.table[i].type,
                        input.table[i].cells[r])
    /\ request.source.kind = "json" /\ Loaded =>
          /\ NumRows = RowsAsked
          /\ \A key \in Keys(Range(Records)) :
                Cardinality({i \in DOMAIN input.table : input.table[i].name = Spelled(key)}) = 1
          /\ \A i \in DOMAIN input.table : \E key \in Keys(Range(Records)) :
                /\ input.table[i].name = Spelled(key)
                /\ \A r \in 1 .. NumRows : input.table[i].cells[r] = Get(Records[r], key)

(* The type that formats ask for, each field by itself. *)
ExpectedField(field, within, large) ==
    IF field.format \in DOMAIN _DEFAULT_FORMAT_MAPPING /\ within
    THEN _DEFAULT_FORMAT_MAPPING[field.format] ELSE ExpectedTypeBelow(field.type, within, large)

ExpectedType(type, within, large) ==
    CASE type.a = "record" ->
            [t |-> "struct",
             fields |-> [name \in {type.fields[i].name : i \in DOMAIN type.fields} |->
                           ExpectedField(CHOOSE f \in Range(type.fields) : f.name = name, within, large)]]
      [] type.a = "array" ->
            [t |-> "list", element |-> ExpectedTypeBelow(type.items, within /\ ~large, large)]
      [] type.a = "union" -> ExpectedTypeBelow(NonNull(type)[1], within, large)
      [] OTHER -> ScalarOf(type.a)

(* A format takes effect at its own field and nowhere else, at any depth of *)
(* records, unions and lists, though it is looked up by a path that is made *)
(* once from the Avro schema and once from the Arrow schema (l.364-446).   *)
FormatsApplied ==
    IsAvro /\ Loaded =>
       \A i \in DOMAIN Fields : input.table[i].type = ExpectedField(Fields[i], TRUE, request.source.large)

(* Fields keep the ids they have; the others, and all arrays and maps, get *)
(* new ones in the order in which the schema is written (avro_id.py).  An  *)
(* array takes its id before the fields of its items, unlike what the tests *)
(* count with (FieldsCounted); and new ids may meet kept ones (l.128-136). *)
IdsInOrder ==
    IsAvro =>
       LET before == IdsOf(request.source.schema, FALSE)
           after == IdsOf(EnrichedSchema(request.source), TRUE)
           isNew(i) == before[i] = NoId /\ after[i] # NoId
           new == {i \in DOMAIN after : isNew(i)}
       IN /\ DOMAIN after = DOMAIN before
          /\ \A i \in DOMAIN before : before[i] # NoId => after[i] = before[i]
          /\ \A i \in new : after[i] = Cardinality({j \in new : j <= i})

(* tests/test_avro_schema_helpers.py (l.137-141, 200-203, and l.107-110 for *)
(* nested records): the fields of a schema without ids, those within arrays *)
(* and maps included, are numbered 1, 2, 3, ... in their order.  In the    *)
(* code an array takes an id of the same counter for its elements, a map   *)
(* two, before the fields inside (avro_id.py l.218-219, 243-246).          *)
FieldsCounted ==
    IsAvro /\ Range(IdsOf(request.source.schema, FALSE)) \subseteq {NoId} =>
       LET isId(id) == id # NoId
           ids == SelectSeq(IdsOf(EnrichedSchema(request.source), FALSE), isId)
       IN ids = [i \in DOMAIN ids |-> i]

(* "Data is cast accordingly, clamps datetime values if not fitting" (l.19): *)
(* whatever instant a record names, its row has, or the nearest there is.  *)
InstantsKept ==
    IsAvro /\ Loaded =>
       \A i \in DOMAIN Fields : \A r \in 1 .. NumRows :
          LET value == Get(Records[r], Fields[i].name) IN
          /\ input.table[i].type = ScalarOf("timestamp")
          /\ value.k \in {"stamp", "naive"}
          => input.table[i].cells[r] = Time(Clamped(Instant(value)))
==============================================================================
