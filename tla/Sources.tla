------------------------------- MODULE Sources -------------------------------
(***************************************************************************)
(* load_dataframe() of the data sources (src/sources): what each gives for *)
(* a limit on the rows, 0 when the request has none.  JSON records, Trino, *)
(* S3 and the dummy file give data frames ("pandas"), an Avro file gives   *)
(* an Arrow table; a source registered besides them may give either.       *)
(*                                                                         *)
(* A source is [kind |-> ...] with what it reads: the records of a JSON    *)
(* request; the schema and records of an Avro file, whether the rest of    *)
(* the file can be read and what pyiceberg makes of its arrays; otherwise  *)
(* the table that the file, query or plugin yields.                        *)
(***************************************************************************)
EXTENDS AvroToArrow

NoLimit == 0

IGNORE_COLUMNS == {<<"_dq">>, <<"_dq_failed_checks">>, <<"_stage_dt">>, <<"_cleansed_dt">>}

(* The first rows of a sequence: head(limit), or LIMIT. *)
Limited(rows, limit) ==
    IF limit # NoLimit /\ Len(rows) > limit THEN SubSeq(rows, 1, limit) ELSE rows

LimitedTable(table, limit) ==
    [i \in DOMAIN table |-> [table[i] EXCEPT !.cells = Limited(@, limit)]]

(* validate_records: checked when the request is read. *)
ValidRecords(records) == \E i \in DOMAIN records : DOMAIN records[i].f # {}

(* The keys of records, in the order of their first use. *)
ColumnKeys(records) ==
    LET seen[r \in 0 .. Len(records)] ==
          IF r = 0 THEN <<>>
          ELSE seen[r - 1] \o SetToSeq(DOMAIN records[r].f \ Range(seen[r - 1]))
    IN seen[Len(records)]

(* A data frame of records has a null where a record has no such key. *)
FrameOf(records) ==
    [i \in DOMAIN ColumnKeys(records) |->
       LET key == ColumnKeys(records)[i] IN
       [name |-> Spelled(key), type |-> ScalarOf("object"),
        cells |-> [r \in DOMAIN records |-> Get(records[r], key)]]]

(* Seeded fault: one record more than the limit is read. *)
ReadPastLimit(source, limit) ==
    IF limit # NoLimit /\ Len(source.records) > limit
    THEN SubSeq(source.records, 1, limit + 1) ELSE source.records

(* The records that are read of an Avro file. *)
ReadRecords(source, limit) ==
    IF limit # NoLimit /\ Len(source.records) > limit
    THEN SubSeq(source.records, 1, limit) ELSE source.records

(* A file breaks off after its records; what is behind the limit is not    *)
(* read.                                                                   *)
Readable(source, limit) ==
    ~source.broken \/ (limit # NoLimit /\ Len(source.records) >= limit)

EnrichedSchema(source) == AssignFieldIds(source.schema, <<>>, 1)

AvroTable(source, limit) ==
    RecordsToTable(ReadRecords(source, limit), source.schema,
                   ConvertSchema(source.schema, source.large))

(* Each reason for which AvroOCFSource raises: a file that cannot be read, *)
(* a schema without a name, no records, or a conversion that fails.        *)
AvroLoads(source, limit) ==
    /\ Readable(source, limit)
    /\ source.named
    /\ source.records # <<>>
    /\ Convertible(EnrichedSchema(source))
    /\ \A i \in DOMAIN source.schema.fields :
          \A r \in DOMAIN ReadRecords(source, limit) :
             ~Raises(AvroTable(source, limit)[i].cells[r])

Loads(source, limit) ==
    CASE source.kind = "avro-ocf" -> AvroLoads(source, limit)
      [] source.kind = "json" -> ValidRecords(source.records)
      [] OTHER -> TRUE

LoadDataframe(source, limit) ==
    CASE source.kind = "json" ->
            [backend |-> "pandas", table |-> LimitedTable(FrameOf(source.records), limit)]
      [] source.kind = "avro-ocf" ->
            [backend |-> "arrow", table |-> AvroTable(source, limit)]
      [] source.kind = "trino" ->
            [backend |-> "pandas",
             table |-> At(LimitedTable(source.table, limit),
                          {i \in DOMAIN source.table : source.table[i].name \notin IGNORE_COLUMNS})]
      [] source.kind \in {"s3", "dummy"} ->
            [backend |-> "pandas", table |-> LimitedTable(source.table, limit)]
      [] OTHER -> [backend |-> source.backend, table |-> LimitedTable(source.table, limit)]
==============================================================================
