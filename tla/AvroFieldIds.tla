---------------------------- MODULE AvroFieldIds ----------------------------
(***************************************************************************)
(* AvroSchemaFieldIdAssigner (src/sources/avro_ocf/helpers/avro_id.py):    *)
(* every field of an Avro schema gets an id before the schema is converted *)
(* to Iceberg's, which refuses a field without one.                        *)
(*                                                                         *)
(* A type is [a |-> name] with fields, items, values or members, and the   *)
(* ids that arrays (id) and maps (key, value) carry; a field is a record   *)
(* with name, type, format and id, where 0 stands for no id.               *)
(***************************************************************************)
EXTENDS Naturals, Sequences, SequencesExt

CONSTANTS EnrichTypeDefBelow(_, _, _), IdsOfBelow(_, _)      (* as in Flatten *)

NoId == 0

(* Priority: the field's own id, the catalog's, the next new one. *)
FieldId(field, mapping, next) ==
    CASE field.id # NoId -> [id |-> field.id, next |-> next]
      [] field.id = NoId /\ field.name \in DOMAIN mapping ->
            [id |-> mapping[field.name], next |-> next]
      [] OTHER -> [id |-> next, next |-> next + 1]

(* A union is enriched member by member; the counter is what each finds.   *)
EnrichFieldType(type, mapping, next) ==
    IF type.a # "union" THEN EnrichTypeDefBelow(type, mapping, next)
    ELSE LET n == Len(type.members)
             enriched(i, at) == EnrichTypeDefBelow(type.members[i], mapping, at)
             counter[i \in 1 .. n + 1] ==
                IF i = 1 THEN next ELSE enriched(i - 1, counter[i - 1]).next
         IN [type |-> [type EXCEPT !.members = [i \in 1 .. n |-> enriched(i, counter[i]).type]],
             next |-> counter[n + 1]]

(* The id of a field comes before those of its type. *)
EnrichField(field, mapping, next) ==
    LET own == FieldId(field, mapping, next)
        e == EnrichFieldType(field.type, mapping, own.next)
    IN [field |-> [field EXCEPT !.id = own.id, !.type = e.type], next |-> e.next]

EnrichFields(fields, mapping, next) ==
    LET n == Len(fields)
        counter[i \in 1 .. n + 1] ==
           IF i = 1 THEN next ELSE EnrichField(fields[i - 1], mapping, counter[i - 1]).next
    IN [done |-> [i \in 1 .. n |-> EnrichField(fields[i], mapping, counter[i]).field],
        next |-> counter[n + 1]]

(* Seeded fault: the items are numbered before their array. *)
EnrichArrayItemsFirst(type, mapping, next) ==
    LET e == EnrichTypeDefBelow(type.items, mapping, next)
    IN [type |-> [type EXCEPT !.id = e.next, !.items = e.type], next |-> e.next + 1]

(* The ids that an array or a map brings along are overwritten. *)
EnrichArrayType(type, mapping, next) ==
    LET e == EnrichTypeDefBelow(type.items, mapping, next + 1)
    IN [type |-> [type EXCEPT !.id = next, !.items = e.type], next |-> e.next]

EnrichMapType(type, mapping, next) ==
    LET e == EnrichTypeDefBelow(type.values, mapping, next + 2)
    IN [type |-> [type EXCEPT !.key = next, !.value = next + 1, !.values = e.type],
        next |-> e.next]

(* A union inside an array or a map is none of these and stays as it is. *)
EnrichTypeDef(type, mapping, next) ==
    CASE type.a = "record" ->
            LET e == EnrichFields(type.fields, mapping, next)
            IN [type |-> [type EXCEPT !.fields = e.done], next |-> e.next]
      [] type.a = "array" -> EnrichArrayType(type, mapping, next)
      [] type.a = "map" -> EnrichMapType(type, mapping, next)
      [] OTHER -> [type |-> type, next |-> next]

AssignFieldIds(schema, mapping, start) ==
    EnrichTypeDef(schema, mapping, start).type

-----------------------------------------------------------------------------
(* The ids of a schema, in the order in which they are written down; those *)
(* of arrays and maps only with collections.                               *)

IdsOf(type, collections) ==
    LET own(id) == IF collections THEN id ELSE NoId IN
    CASE type.a = "record" ->
            FlattenSeq([i \in DOMAIN type.fields |->
                          <<type.fields[i].id>> \o IdsOfBelow(type.fields[i].type, collections)])
      [] type.a = "array" -> <<own(type.id)>> \o IdsOfBelow(type.items, collections)
      [] type.a = "map" ->
            <<own(type.key), own(type.value)>> \o IdsOfBelow(type.values, collections)
      [] type.a = "union" ->
            FlattenSeq([i \in DOMAIN type.members |-> IdsOfBelow(type.members[i], collections)])
      [] OTHER -> <<>>
=============================================================================
