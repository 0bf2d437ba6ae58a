------------------------ MODULE WebhookSchemaChange ------------------------
(***************************************************************************)
(* Whether an OpenMetadata event tells of a new table definition: the      *)
(* bodies of the webhook route, and is_schema_change() of an update        *)
(* (src/openmetadata/models).                                              *)
(*                                                                         *)
(* A change is a set of fields, each [op, name, old, new]: the name is     *)
(* "columns", one of a column's attributes, its tags or another; the old   *)
(* and the new value are a list of columns, an empty list or another text. *)
(***************************************************************************)
Added(name, new) == [op |-> "added", name |-> name, old |-> "text", new |-> new]
Deleted(name, old) == [op |-> "deleted", name |-> name, old |-> old, new |-> "text"]
Updated(name, old, new) == [op |-> "updated", name |-> name, old |-> old, new |-> new]

(* parse_column_value: a text that is no list of columns stays a text. *)
Parsed(value) == value # "text"

(* The class that pydantic gives to a field: the first that fits. *)
FieldModel(field) ==
    CASE /\ field.name = "columns"
         /\ field.op # "deleted" => Parsed(field.new)
         /\ field.op # "added" => Parsed(field.old) -> "Column"
      [] field.name \in {"attribute", "tags"} -> "ColumnAttr"
      [] OTHER -> "Base"

(* get_target_column_name: deletions inherit the one that returns None, and *)
(* the first column of an empty list raises.                               *)
TargetColumn(field) ==
    CASE FieldModel(field) = "Column" /\ field.op # "deleted" ->
            IF field.new = "empty" THEN "raises" ELSE "column"
      [] FieldModel(field) = "ColumnAttr" /\ field.op # "deleted" /\ field.name # "tags" ->
            "column"
      [] OTHER -> "none"

(* A field that cannot be read counts as a schema change. *)
IsSchemaChange(change) == \E field \in change : TargetColumn(field) # "none"
============================================================================
