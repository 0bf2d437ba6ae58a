----------------------------- MODULE AvroToArrow -----------------------------
(***************************************************************************)
(* AvroToArrowConverter (src/sources/avro_ocf/helpers/avro_to_arrow.py):   *)
(* the schema and the records of an Avro file become an Arrow table.  The  *)
(* conversion of the schema goes through pyiceberg, then column types are  *)
(* replaced by what a field's "format" asks for.                           *)
(*                                                                         *)
(* A record of the file is a dictionary; AvroCells has what becomes of its *)
(* values, ListArrays how its lists lie in their column.                   *)
(***************************************************************************)
EXTENDS Flatten, AvroCells, ListArrays, AvroFieldIds

CONSTANTS RaisesBelow(_), ConvertibleBelow(_), ArrowTypeBelow(_),
          FormatPathsOfTypeBelow(_, _), FixFieldBelow(_, _, _, _),
          BuildArrayBelow(_, _), CarriesBelow(_, _, _)      (* as in Flatten *)

Raises(c) ==
    CASE c.k = "dict" -> \E key \in DOMAIN c.f : RaisesBelow(c.f[key])
      [] c.k = "list" -> \E i \in DOMAIN c.s : RaisesBelow(c.s[i])
      [] OTHER -> c = Raised

ScalarOf(of) == [t |-> "scalar", of |-> of]

-----------------------------------------------------------------------------
(* The schema. *)

NonNull(type) == SelectSeq(type.members, LAMBDA member : member.a # "null")

(* pyiceberg: a field needs an id, and a union is null and one other type. *)
Optional(type) == Len(NonNull(type)) = 1 /\ Len(type.members) = 2

Convertible(type) ==
    CASE type.a = "record" -> \A i \in DOMAIN type.fields :
            type.fields[i].id # NoId /\ ConvertibleBelow(type.fields[i].type)
      [] type.a = "array" -> type.id # NoId /\ ConvertibleBelow(type.items)
      [] type.a = "union" -> Optional(type) /\ ConvertibleBelow(NonNull(type)[1])
      [] OTHER -> TRUE

(* as_arrow() of the Iceberg type. *)
ArrowType(type) ==
    CASE type.a = "record" ->
            LET field(name) == CHOOSE i \in DOMAIN type.fields : type.fields[i].name = name
            IN [t |-> "struct",
                fields |-> [name \in {type.fields[i].name : i \in DOMAIN type.fields} |->
                              ArrowTypeBelow(type.fields[field(name)].type)]]
      [] type.a = "array" -> [t |-> "list", element |-> ArrowTypeBelow(type.items)]
      [] type.a = "union" -> ArrowTypeBelow(NonNull(type)[1])
      [] OTHER -> ScalarOf(type.a)

NoFormat == ""

_DEFAULT_FORMAT_MAPPING ==
    [format \in {"RFC3339Nano", "ISO8601", "ISO8601Date", "uint64"} |->
       CASE format \in {"RFC3339Nano", "ISO8601"} -> ScalarOf("timestamp")
         [] format = "ISO8601Date" -> ScalarOf("date")
         [] format = "uint64" -> ScalarOf("uint64")]

(* Seeded fault: the items of an array go by the path of the array. *)
ItemPathUnmarked(path) == path

(* The placeholder for the items of an array in a path. *)
ItemPath(path) == Append(path, "_item")

(* _extract_format_paths: the format at each path that has one. *)
FormatPaths(record, prefix) ==
    Joined([i \in DOMAIN record.fields |->
              LET field == record.fields[i]
                  path == Append(prefix, field.name)
                  inside == FormatPathsOfTypeBelow(field.type, path)
                  own == {at \in {path} : field.format # NoFormat}
              IN [at \in own \cup DOMAIN inside |->
                    IF at \in own THEN field.format ELSE inside[at]]])

(* _extract_from_type.  Maps are not followed. *)
FormatPathsOfType(type, path) ==
    CASE type.a = "union" /\ Len(NonNull(type)) = 1 ->
            FormatPathsOfTypeBelow(NonNull(type)[1], path)
      [] type.a = "record" -> FormatPaths(type, path)
      [] type.a = "array" -> FormatPathsOfTypeBelow(type.items, ItemPath(path))
      [] OTHER -> <<>>

(* _fix_field_recursively.  It looks into lists, not into large lists, and *)
(* which of them pyiceberg makes of an array depends on its version.       *)
FixField(type, path, formats, large) ==
    LET patched == IF path \in DOMAIN formats /\ formats[path] \in DOMAIN _DEFAULT_FORMAT_MAPPING
                   THEN _DEFAULT_FORMAT_MAPPING[formats[path]] ELSE type
    IN CASE patched.t = "struct" ->
              [patched EXCEPT !.fields =
                 [name \in DOMAIN @ |-> FixFieldBelow(@[name], Append(path, name), formats, large)]]
         [] patched.t = "list" /\ ~large ->
              [patched EXCEPT !.element = FixFieldBelow(@, Append(path, "_item"), formats, large)]
         [] OTHER -> patched

(* convert_schema: the type of each column.  Formats are read off the       *)
(* schema as it was, and no table of the catalog is looked up.             *)
ConvertSchema(schema, large) ==
    FixField(ArrowType(schema), <<>>, FormatPaths(schema, <<>>), large).fields

-----------------------------------------------------------------------------
(* The records. *)

(* _build_array: the cells of a column, all items of all lists at once, and *)
(* each field of all structs.  A null list becomes an empty one, and a null *)
(* struct one of nulls.                                                    *)
BuildArray(values, type) ==
    CASE type.t = "list" ->
            LET lists == [r \in DOMAIN values |->
                            IF values[r].k = "list" THEN values[r].s ELSE <<>>]
                rows == FromArrays(Offsets(lists), BuildArrayBelow(AllItems(lists), type.element))
            IN [r \in DOMAIN values |-> List(rows[r])]
      [] type.t = "struct" ->
            LET column == [name \in DOMAIN type.fields |->
                             BuildArrayBelow([r \in DOMAIN values |-> Get(values[r], name)],
                                        type.fields[name])]
            IN [r \in DOMAIN values |-> Dict([name \in DOMAIN column |-> column[name][r]])]
      [] OTHER -> [r \in DOMAIN values |->
                     PrimitiveCell(Sanitized(values[r], type.of), type.of)]

(* records_to_table: the columns in the order of the schema. *)
RecordsToTable(records, schema, types) ==
    [i \in DOMAIN schema.fields |->
       LET name == schema.fields[i].name IN
       [name |-> Spelled(name), type |-> types[name],
        cells |-> BuildArray([r \in DOMAIN records |-> Get(records[r], name)], types[name])]]

(* A cell is what its value should become, or its parts are. *)
Carries(value, type, cell) ==
    CASE type.t = "list" ->
            LET old == IF value.k = "list" THEN value.s ELSE <<>> IN
            /\ Len(cell.s) = Len(old)
            /\ \A i \in DOMAIN old : CarriesBelow(old[i], type.element, cell.s[i])
      [] type.t = "struct" ->
            /\ DOMAIN cell.f = DOMAIN type.fields
            /\ \A key \in DOMAIN cell.f : CarriesBelow(Get(value, key), type.fields[key], cell.f[key])
      [] OTHER -> CarriesScalar(value, type.of, cell)
==============================================================================
