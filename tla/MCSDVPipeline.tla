---------------------------- MODULE MCSDVPipeline ----------------------------
(***************************************************************************)
(* SDVPipeline on tables of every shape the flattener tells apart, on      *)
(* requests to each source, and on Avro files of every shape the converter *)
(* tells apart.  Mostly two rows, and a sample of one.                     *)
(***************************************************************************)
EXTENDS SDVPipeline

(* What each method calls is the method itself. *)
RECURSIVE InferPandasRec(_), InferArrowRec(_, _), RenderedRec(_),
          FlattenCellsRec(_, _, _, _), ConformedRec(_, _), NamedRec(_),
          BuildableRec(_), CellOfRec(_, _, _, _, _), RaisesRec(_),
          ConvertibleRec(_), ArrowTypeRec(_), FormatPathsOfTypeRec(_, _),
          FixFieldRec(_, _, _, _), BuildArrayRec(_, _),
          EnrichTypeDefRec(_, _, _), IdsOfRec(_, _), ReturnedRec(_, _),
          WholeRec(_), FitsRec(_, _, _), NamesApartRec(_, _, _, _),
          CarriesRec(_, _, _), ExpectedTypeRec(_, _, _)

InferPandasRec(S) == LET it == InferPandas(S) IN it
InferArrowRec(S, type) == LET it == InferArrow(S, type) IN it
RenderedRec(c) == LET it == Rendered(c) IN it
FlattenCellsRec(b, cells, node, name) == LET it == FlattenCells(b, cells, node, name) IN it
ConformedRec(c, node) == LET it == Conformed(c, node) IN it
NamedRec(node) == LET it == Named(node) IN it
BuildableRec(node) == LET it == Buildable(node) IN it
CellOfRec(b, columns, node, name, r) == LET it == CellOf(b, columns, node, name, r) IN it
RaisesRec(c) == LET it == Raises(c) IN it
ConvertibleRec(type) == LET it == Convertible(type) IN it
ArrowTypeRec(type) == LET it == ArrowType(type) IN it
FormatPathsOfTypeRec(type, path) == LET it == FormatPathsOfType(type, path) IN it
FixFieldRec(type, path, formats, large) == LET it == FixField(type, path, formats, large) IN it
BuildArrayRec(values, type) == LET it == BuildArray(values, type) IN it
EnrichTypeDefRec(type, mapping, next) == LET it == EnrichTypeDef(type, mapping, next) IN it
IdsOfRec(type, collections) == LET it == IdsOf(type, collections) IN it
ReturnedRec(c, d) == LET it == Returned(c, d) IN it
WholeRec(S) == LET it == Whole(S) IN it
FitsRec(b, d, S) == LET it == Fits(b, d, S) IN it
NamesApartRec(b, cells, node, name) == LET it == NamesApart(b, cells, node, name) IN it
CarriesRec(value, type, cell) == LET it == Carries(value, type, cell) IN it
ExpectedTypeRec(type, within, large) == LET it == ExpectedType(type, within, large) IN it

(* Most keys are one token; these look like names that flattening makes. *)
SpelledKey(key) ==
    CASE key = "b.c" -> <<"b", ".", "c">>
      [] key = "x[0]" -> <<"x", "[", 0, "]">>
      [] key = "x__0" -> <<"x", "__", 0>>
      [] OTHER -> <<key>>

(* Ten ticks to a second, Moscow three seconds ahead, two hundred ticks in all. *)
FirstInstant == -100

LongType == ScalarOf("long")
ListType(element) == [t |-> "list", element |-> element]
StructType(fields) == [t |-> "struct", fields |-> fields]

ScalarCells == {Null, Num(1), Num(2)}
TimeCells == {Null, Time(1), Time(2)}
FlagCells == {Null, Flag(TRUE), Flag(FALSE)}

ListCells == {Null, List(<<>>), List(<<Num(1)>>), List(<<Null, Num(2)>>),
              List(<<Num(1), Num(2)>>)}

Pairs == [x : {Num(1), Null}, y : {List(<<>>), List(<<Time(1), Time(2)>>), Null}]

StructCells == {Null} \cup {Dict(p) : p \in Pairs}
PartialCells == {Dict([x |-> Num(1)]), Dict([y |-> List(<<Time(3)>>)])}
PairType == StructType([x |-> LongType, y |-> ListType(ScalarOf("timestamp"))])

DeepCells == {Dict([z |-> c]) : c \in StructCells}

Items == {Null, Dict([x |-> Num(1), y |-> List(<<Time(2)>>)]), Dict([x |-> Null, y |-> Null])}
ItemLists == {Null, List(<<>>)} \cup {List(<<c>>) : c \in Items} \cup {List(<<c, d>>) : c, d \in Items}
RaggedItems == {List(<<Dict([x |-> Num(1)]), Dict([y |-> List(<<Time(2)>>)])>>)}

Matrices == {List(<<List(<<Num(1)>>), List(<<Num(2), Null>>)>>), List(<<Null>>), List(<<>>)}

(* A dictionary of two keys, which may meet: b.c beside c in b, in a frame,  *)
(* and x__0 beside the list x, in an Arrow struct.                         *)
Both(key, c, other, d) == [k \in {key, other} |-> IF k = key THEN c ELSE d]
Dotted == {Dict(Both("b.c", Num(1), "b", Dict([n \in {m} |-> Num(2)]))) : m \in {"c", "d"}}
Indexed == {Dict(Both("x", c, "x__0", Num(3))) : c \in {List(<<>>), List(<<Num(1), Num(2)>>)}}
IndexedType == StructType(Both("x", ListType(LongType), "x__0", LongType))

Column(name, type, cells) == [name |-> name, type |-> type, cells |-> cells]

One(type, cells) ==
    {<<Column(<<"a">>, type, <<c, d>>)>> : c, d \in cells}

(* A second column next to a: plain, or with a name that flattening makes. *)
Beside(name, type, cells) ==
    {Append(table, Column(name, LongType, <<Num(8), Num(9)>>)) : table \in One(type, cells)}

Typed ==
    One(LongType, ScalarCells)
    \cup One(ScalarOf("timestamp"), TimeCells)
    \cup One(ScalarOf("boolean"), FlagCells)
    \cup One(ListType(LongType), ListCells)
    \cup One(PairType, StructCells)
    \cup One(StructType([z |-> PairType]), DeepCells)
    \cup One(ListType(PairType), ItemLists)
    \cup One(ListType(ListType(LongType)), Matrices)
    \cup One(IndexedType, Indexed)
    \cup Beside(<<"b">>, ListType(LongType), ListCells)
    \cup Beside(<<"a", ".", "x">>, PairType, {Dict(p) : p \in Pairs})

(* Dictionaries of a frame need not have all keys. *)
Untyped ==
    One(PairType, StructCells \cup PartialCells)
    \cup One(ListType(PairType), RaggedItems \cup ItemLists)
    \cup One(PairType, Dotted \cup {Dict([z |-> c]) : c \in Dotted})
    \cup Beside(<<"a", "[", 0, "]">>, ListType(LongType), ListCells)

Empty == <<Column(<<"a">>, LongType, <<>>)>>

(* Files of data frames, and the Arrow tables of further sources. *)
Tables ==
    [kind : {"s3"}, table : {Empty} \cup Typed \cup Untyped]
    \cup [kind : {"other"}, backend : {"arrow"},
          table : {Empty} \cup Typed \cup Beside(<<"a", "__", 0>>, ListType(LongType), ListCells)]

Trino ==
    [kind : {"trino"},
     table : {<<Column(<<"_dq">>, LongType, <<Num(1), Null>>)>> \o table :
                table \in One(LongType, ScalarCells)}]

JsonRecords(c) == {Dict(<<>>), Dict([a |-> Null]), Dict([a |-> c]), Dict([b |-> Num(2)]),
                   Dict([a |-> c, b |-> Null])}

Json ==
    UNION {[kind : {"json"}, records : {<<q, r, q>> : q, r \in JsonRecords(c)}] :
             c \in {Num(1), List(<<Num(1)>>)}}
    \cup [kind : {"json"}, records : {<<Dict(Both("x", List(<<Num(1)>>), key, Num(2)))>> :
                                       key \in {"x[0]", "x__0"}}]
-----------------------------------------------------------------------------
(* Avro files. *)

Prim(a) == [a |-> a]
RecordOf(fields) == [a |-> "record", fields |-> fields]
ArrayOf(items) == [a |-> "array", items |-> items, id |-> NoId]
MapOf(values) == [a |-> "map", values |-> values, key |-> NoId, value |-> NoId]
Nullable(type) == [a |-> "union", members |-> <<Prim("null"), type>>]
Field(name, type, format) == [name |-> name, type |-> type, format |-> format, id |-> NoId]
WithId(field, id) == [field EXCEPT !.id = id]

Instants == {Null, Stamp(20, 0), Stamp(20, -20), Naive(40), Naive(-200), Stamp(200, 10),
             Day(3), Text(1), DateTime(5), Uuid(1)}
Fractions == {Stamp(25, 0), Naive(-5)}

AtField == Field("at", Nullable(Prim("string")), "RFC3339Nano")
DayField == Field("day", Prim("string"), "ISO8601Date")
CountField == Field("n", Nullable(Prim("string")), "uint64")
LogicalField == Field("made", Nullable(Prim("timestamp")), NoFormat)
DateField == Field("due", Nullable(Prim("date")), NoFormat)

EntryType == RecordOf(<<Field("at", Prim("string"), "ISO8601"), Field("k", Prim("long"), "other")>>)
Entry(at, k) == Dict([at |-> at, k |-> Num(k)])
EntryLists == {Null, List(<<>>), List(<<Entry(Naive(40), 1)>>),
               List(<<Entry(Stamp(20, 0), 2), Entry(Text(1), 3)>>)}
LongLists == {Null, List(<<>>), List(<<Null, Num(1)>>), List(<<Num(2)>>)}
Inner == RecordOf(<<AtField, Field("xs", Nullable(ArrayOf(Nullable(Prim("long")))), NoFormat)>>)
Inners == {Null} \cup {Dict([at |-> Naive(40), xs |-> c]) : c \in LongLists}
FlagType == RecordOf(<<Field("on", Prim("boolean"), NoFormat)>>)

(* Files with the same field throughout, and each pair of its values. *)
Files(fields, values) ==
    {[schema |-> RecordOf(fields), records |-> <<q, r>>] : q, r \in values}

Each(name, cells) == {Dict([n \in {name} |-> c]) : c \in cells}

ReadableFiles ==
    Files(<<AtField>>, Each("at", Instants \cup Fractions))
    \cup Files(<<DayField, CountField>>,
               {Dict([day |-> d, n |-> n]) : d \in {Day(1), Naive(25), Text(1)},
                                             n \in {Null, Digits(7), Text(2)}})
    \cup Files(<<Field("s", Nullable(Prim("string")), NoFormat)>>,
               Each("s", {Null, Text(1), Uuid(1), Digits(7), Naive(40)}))
    \cup Files(<<LogicalField>>, Each("made", {Null, DateTime(5)}))
    \cup Files(<<DateField>>, Each("due", {Null, Date(5)}))
    \cup Files(<<Field("xs", Nullable(ArrayOf(Nullable(Prim("long")))), NoFormat)>>,
               Each("xs", LongLists))
    \cup Files(<<Field("in", Nullable(Inner), NoFormat), AtField>>,
               {Dict([in |-> c, at |-> Stamp(20, 0)]) : c \in Inners})
    \cup Files(<<Field("log", Nullable(ArrayOf(EntryType)), NoFormat)>>, Each("log", EntryLists))
    \cup Files(<<Field("log", ArrayOf(Nullable(EntryType)), NoFormat)>>,
               Each("log", {List(<<Entry(Naive(40), 1)>>)}))
    \cup Files(<<Field("flags", ArrayOf(FlagType), NoFormat)>>,
               Each("flags", {List(<<Dict([on |-> Flag(TRUE)])>>)}))
    \cup Files(<<WithId(Field("k", Prim("long"), NoFormat), 1), AtField, WithId(Field("m", Prim("long"), NoFormat), 3)>>,
               {Dict([k |-> Num(1), at |-> Null, m |-> Num(2)])})

(* A list beside a field with the name of its first element, in the file or *)
(* in a record of it.                                                      *)
IndexedFields == <<Field("x", ArrayOf(Prim("long")), NoFormat), Field("x__0", Prim("long"), NoFormat)>>
IndexedFiles ==
    Files(IndexedFields, Indexed)
    \cup Files(<<Field("in", RecordOf(IndexedFields), NoFormat)>>, Each("in", Indexed))

(* Without records only the schema is looked at. *)
EmptyFiles ==
    {[schema |-> RecordOf(<<AtField, Field("m", MapOf(type), NoFormat), DayField>>), records |-> <<>>] :
       type \in {Prim("long"), EntryType, ArrayOf(EntryType), Nullable(EntryType), MapOf(Inner)}}
    \cup {[schema |-> RecordOf(<<Field("xs", ArrayOf(ArrayOf(type)), NoFormat), AtField>>), records |-> <<>>] :
       type \in {Prim("long"), Inner, Nullable(Inner), MapOf(Prim("long"))}}

Avro ==
    {[kind |-> "avro-ocf", schema |-> file.schema, records |-> file.records,
      named |-> TRUE, broken |-> FALSE, large |-> large] :
        file \in ReadableFiles \cup IndexedFiles \cup EmptyFiles, large \in BOOLEAN}

(* Files of three records, whole or broken off, with or without a name. *)
LongFiles ==
    {[kind |-> "avro-ocf", schema |-> RecordOf(<<AtField>>),
      records |-> <<Dict([at |-> Null]), Dict([at |-> Naive(40)]), Dict([at |-> Stamp(20, 0)])>>,
      named |-> named, broken |-> broken, large |-> FALSE] : named, broken \in BOOLEAN}

AllRequests ==
    [source : Tables \cup Avro, limit : {NoLimit}, size : {1}]
    \cup [source : Trino \cup Json \cup LongFiles, limit : 0 .. 4, size : {1}]
    \cup [source : {t \in Tables : /\ t.kind = "other"
                                   /\ t.table \in Beside(<<"b">>, LongType, ScalarCells)
                                                  \cup One(ScalarOf("boolean"), FlagCells)
                                                  \cup {Empty}}
                   \cup [kind : {"other"}, backend : {"arrow"}, table : Beside(<<"b">>, LongType, ScalarCells)],
          limit : 0 .. 1, size : {2}]

(* Files with points in time alone, fractions of a second included. *)
TimeRequests ==
    [source : {s \in Avro : s.schema = RecordOf(<<AtField>>)}, limit : {NoLimit}, size : {1}]

(* The schemas of tests/test_avro_schema_helpers.py l.112-131 and 175-194. *)
ItemFields == RecordOf(<<Field("item_id", Prim("int"), NoFormat), Field("item_name", Prim("string"), NoFormat)>>)
PropFields == RecordOf(<<Field("key", Prim("string"), NoFormat), Field("val", Prim("string"), NoFormat)>>)
TestedFields ==
    {<<Field("id", Prim("int"), NoFormat), Field("items", ArrayOf(ItemFields), NoFormat)>>,
     <<Field("id", Prim("int"), NoFormat), Field("properties", MapOf(PropFields), NoFormat)>>}

IdRequests ==
    [source : {[kind |-> "avro-ocf", schema |-> RecordOf(fields), records |-> <<>>,
                named |-> TRUE, broken |-> FALSE, large |-> FALSE] : fields \in TestedFields},
     limit : {NoLimit}, size : {1}]
==============================================================================
