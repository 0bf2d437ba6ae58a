------------------------------- MODULE Flatten -------------------------------
(***************************************************************************)
(* DataFrameFlattener (src/core/flatten.py): nested columns become flat    *)
(* ones with names made of the path, and back.  Data frames ("pandas") and *)
(* Arrow tables ("arrow") have code of their own, which differs where a    *)
(* definition asks for b, the backend.                                     *)
(*                                                                         *)
(* A text is the sequence of its tokens, names and the keys that names are *)
(* made of alike, so that names made on different paths are equal when     *)
(* their texts are: the key "b.c" is the tokens "b", "." and "c".  The     *)
(* index of an element is a token.                                         *)
(* The cells of a column are of one kind or null (NaN is null).  Widths of *)
(* numbers are left out.                                                   *)
(*                                                                         *)
(* A method that calls itself has its call one level further down as a     *)
(* parameter: the configurations give XBelow the value X, which makes it a *)
(* recursion, and the proofs assume of it that it is X.                    *)
(***************************************************************************)
EXTENDS Cells

CONSTANT Spelled(_)      (* the text of a key *)

CONSTANTS InferPandasBelow(_), InferArrowBelow(_, _), RenderedBelow(_),
          FlattenCellsBelow(_, _, _, _), ConformedBelow(_, _),
          NamedBelow(_), BuildableBelow(_), CellOfBelow(_, _, _, _, _),
          ReturnedBelow(_, _), WholeBelow(_), FitsBelow(_, _, _),
          NamesApartBelow(_, _, _, _)

-----------------------------------------------------------------------------
(* SchemaNode, and what is inferred from the cells of a column. *)

(* The dtype of a scalar matters to what Arrow types are made of it. *)
ScalarNode(dtype) == [k |-> "scalar", dtype |-> dtype]
Scalar == ScalarNode("object")

(* _pa_type_to_dtype *)
Dtype(of) ==
    CASE of \in {"long", "uint64"} -> "int64"
      [] of = "boolean" -> "bool"
      [] OTHER -> "object"

InferPandas(S) ==
    CASE Dicts(S) # {} ->
            [k |-> "dict",
             children |-> [key \in Keys(S) |-> InferPandasBelow(FieldCells(S, key))]]
      [] Lists(S) # {} ->
            [k |-> "array", max |-> MaxLen(S),
             element |-> InferPandasBelow(Elements(S) \ {Null}),
             nullable_elements |-> Null \in Elements(S),
             nullable_array |-> Null \in S]
      [] OTHER -> Scalar

(* With an Arrow type the shape is known, but for the elements of a list   *)
(* that has none.                                                          *)
InferArrow(S, type) ==
    CASE type.t = "struct" ->
            [k |-> "dict", children |->
               [key \in DOMAIN type.fields |->
                  InferArrowBelow({Get(c, key) : c \in S}, type.fields[key])]]
      [] type.t = "list" ->
            LET present == Elements(S) \ {Null} IN
            [k |-> "array", max |-> MaxLen(S),
             element |-> IF present = {} THEN Scalar ELSE InferArrowBelow(present, type.element),
             nullable_elements |-> Null \in S \cup Elements(S),
             nullable_array |-> FALSE]
      [] OTHER -> ScalarNode(Dtype(type.of))

(* A table is a sequence of columns, each with name, type and cells. *)
Node(b, column) ==
    IF b = "pandas" THEN InferPandas(Range(column.cells))
    ELSE InferArrow(Range(column.cells), column.type)

Schema(b, table) ==
    [i \in DOMAIN table |-> [name |-> table[i].name, root |-> Node(b, table[i])]]

-----------------------------------------------------------------------------
(* Names of flat columns. *)

Child(name, key) == name \o <<".">> \o Spelled(key)
FlagName(name) == name \o <<".", "_is_null">>

(* Seeded fault: every element of a nested list gets the name of the first. *)
ElementUncounted(b, name, i) ==
    IF b = "pandas" THEN name \o <<"[", 0, "]">> ELSE name \o <<"__", 0>>

Element(b, name, i) ==
    IF b = "pandas" THEN name \o <<"[", i, "]">> ELSE name \o <<"__", i>>

-----------------------------------------------------------------------------
(* flatten() *)

(* Timestamps of an Arrow table become text, wherever they are. *)
Rendered(c) ==
    CASE c.k = "time" -> Text(c.v)
      [] c.k = "dict" -> Dict([key \in DOMAIN c.f |-> RenderedBelow(c.f[key])])
      [] c.k = "list" -> List([i \in DOMAIN c.s |-> RenderedBelow(c.s[i])])
      [] OTHER -> c

Values(b, cells) ==
    IF b = "arrow" THEN [r \in DOMAIN cells |-> Rendered(cells[r])] ELSE cells

ElementCells(cells, i) ==
    [r \in DOMAIN cells |->
       IF cells[r].k = "list" /\ i < Len(cells[r].s) THEN cells[r].s[i + 1] ELSE Null]

NullFlags(cells) == [r \in DOMAIN cells |-> Flag(cells[r] = Null)]

(* dict.update(): what several keys have, as one mapping.  Where keys meet  *)
(* at a name, one of them is lost: which one depends on the order of the   *)
(* keys, in a frame that of a set of texts, and is left open here.         *)
Joined(of) ==
    [flatName \in UNION {DOMAIN of[key] : key \in DOMAIN of} |->
       of[CHOOSE key \in DOMAIN of : flatName \in DOMAIN of[key]][flatName]]

(* The flat columns of a column, by name.  The elements of a list stay as   *)
(* they are, whatever they hold.                                           *)
FlattenCells(b, cells, node, name) ==
    CASE node.k = "dict" ->
            Joined([key \in DOMAIN node.children |->
                      FlattenCellsBelow(b, [r \in DOMAIN cells |-> Get(cells[r], key)],
                                        node.children[key], Child(name, key))])
      [] node.k = "array" ->
            LET places == 0 .. node.max - 1
                elements == {Element(b, name, i) : i \in places}
                flags == IF node.nullable_array THEN {FlagName(name)} ELSE {}
            IN [flatName \in elements \cup flags |->
                  IF flatName \in flags THEN NullFlags(cells)
                  ELSE ElementCells(cells, CHOOSE i \in places : Element(b, name, i) = flatName)]
      [] OTHER -> [flatName \in {name} |-> cells]

FlattenColumn(b, column) ==
    FlattenCells(b, Values(b, column.cells), Node(b, column), column.name)

(* dict.update(): a flat name that comes twice stands for the later column. *)
FlattenTable(b, table) ==
    LET of == [i \in DOMAIN table |-> FlattenColumn(b, table[i])]
        columns(flatName) == {i \in DOMAIN of : flatName \in DOMAIN of[i]}
    IN [flatName \in UNION {DOMAIN of[i] : i \in DOMAIN of} |->
          of[Max(columns(flatName))][flatName]]

(* The Arrow type that is inferred from the cells of a flat column. *)
InferredType(cells) ==
    LET kinds == {cells[r].k : r \in DOMAIN cells} \ {"null"} IN
    CASE kinds = {} -> "null"
      [] kinds = {"num"} -> "int64"
      [] kinds # {} /\ kinds \subseteq TextKinds -> "string"
      [] kinds = {"flag"} -> "bool"
      [] kinds = {"date"} -> "date32"
      [] OTHER -> "other"

Timestamps(table) == {table[i].name : i \in {j \in DOMAIN table : table[j].type = [t |-> "scalar", of |-> "timestamp"]}}

(* The types of the flat columns, of which data frames keep none. *)
FlatTypes(b, table, flat) ==
    IF b = "pandas" THEN <<>>
    ELSE [name \in DOMAIN flat |->
            IF name \in Timestamps(table) THEN "string" ELSE InferredType(flat[name])]

-----------------------------------------------------------------------------
(* unflatten() *)

(* What is inside a list gets the keys of its schema, at every depth. *)
Conformed(c, node) ==
    CASE node.k = "dict" /\ c.k = "dict" ->
            Dict([key \in DOMAIN node.children |-> ConformedBelow(Get(c, key), node.children[key])])
      [] node.k = "array" /\ c.k = "list" ->
            List([i \in DOMAIN c.s |-> ConformedBelow(c.s[i], node.element)])
      [] OTHER -> c

(* _schema_node_to_pyarrow_type: there is no pa.bool. *)
Named(node) ==
    CASE node.k = "dict" -> \A key \in DOMAIN node.children : NamedBelow(node.children[key])
      [] node.k = "array" -> NamedBelow(node.element)
      [] OTHER -> node.dtype # "bool"

(* Only the dictionaries in an Arrow list get their type from the schema. *)
Buildable(node) ==
    CASE node.k = "dict" -> \A key \in DOMAIN node.children : BuildableBelow(node.children[key])
      [] node.k = "array" -> node.element.k = "dict" => Named(node.element)
      [] OTHER -> TRUE

(* Seeded fault: nulls are dropped from every list. *)
KeptPresent(b, node, elements) == At(elements, {i \in DOMAIN elements : elements[i] # Null})

(* Seeded fault: no null is dropped. *)
KeptAll(b, node, elements) == elements

(* An Arrow list keeps a place for each element the longest list had; a    *)
(* list of a frame only if some element was null to begin with.            *)
Kept(b, node, elements) ==
    IF b = "arrow" \/ node.nullable_elements THEN elements
    ELSE At(elements, {i \in DOMAIN elements : elements[i] # Null})

ListOf(b, flat, node, name, r) ==
    IF node.nullable_array /\ flat[FlagName(name)][r].on THEN Null
    ELSE List(Kept(b, node, [i \in 1 .. node.max |->
                               Conformed(flat[Element(b, name, i - 1)][r], node.element)]))

(* Row r of a column, from the flat columns. *)
CellOf(b, flat, node, name, r) ==
    CASE node.k = "dict" ->
            Dict([key \in DOMAIN node.children |->
                    CellOfBelow(b, flat, node.children[key], Child(name, key), r)])
      [] node.k = "array" -> ListOf(b, flat, node, name, r)
      [] OTHER -> flat[name][r]

(* The columns of the result, each a sequence of cells.  Without a flat     *)
(* column there are no rows either.                                        *)
UnflattenTable(b, schema, flat, numRows) ==
    LET rows == IF DOMAIN flat = {} THEN 0 ELSE numRows IN
    [i \in DOMAIN schema |->
       [r \in 1 .. rows |-> CellOf(b, flat, schema[i].root, schema[i].name, r)]]

-----------------------------------------------------------------------------
(* What flattening is to keep. *)

(* No two keys of a dictionary meet at a flat name, at any depth.           *)
NamesApart(b, cells, node, name) ==
    node.k = "dict" =>
       LET under(key) == [r \in DOMAIN cells |-> Get(cells[r], key)]
           names(key) == DOMAIN FlattenCellsBelow(b, under(key), node.children[key], Child(name, key))
       IN /\ \A key, other \in DOMAIN node.children : key # other => names(key) \cap names(other) = {}
          /\ \A key \in DOMAIN node.children :
                NamesApartBelow(b, under(key), node.children[key], Child(name, key))

(* No flat name of one column is one of another. *)
ColumnsApart(b, table) ==
    \A i, j \in DOMAIN table : i # j =>
       DOMAIN FlattenColumn(b, table[i]) \cap DOMAIN FlattenColumn(b, table[j]) = {}

(* Nothing of a table meets at a flat name, inside a column or across them. *)
Apart(b, table) ==
    /\ ColumnsApart(b, table)
    /\ \A i \in DOMAIN table :
          NamesApart(b, Values(b, table[i].cells), Node(b, table[i]), table[i].name)

(* d is c, with nulls added at most: missing keys, places at the end of a  *)
(* list, or the inside of a dictionary or list that was null itself.       *)
Returned(c, d) ==
    CASE d.k = "dict" ->
            /\ c.k \in {"dict", "null"}
            /\ c.k = "dict" => DOMAIN c.f \subseteq DOMAIN d.f
            /\ \A key \in DOMAIN d.f : ReturnedBelow(Get(c, key), d.f[key])
      [] d.k = "list" ->
            LET old == IF c.k = "list" THEN c.s ELSE <<>> IN
            /\ c.k \in {"list", "null"}
            /\ Len(old) <= Len(d.s)
            /\ \A i \in DOMAIN d.s :
                  ReturnedBelow(IF i <= Len(old) THEN old[i] ELSE Null, d.s[i])
      [] OTHER -> d = c

(* No nulls in the cells, and no key that only some dictionaries have. *)
Whole(S) ==
    /\ Null \notin S
    /\ \A c \in Dicts(S) : DOMAIN c.f = Keys(S)
    /\ \A key \in Keys(S) : WholeBelow({Get(c, key) : c \in Dicts(S)})
    /\ Lists(S) # {} => WholeBelow(Elements(S))

(* d has the shape of the cells of S, and values that they have. *)
Fits(b, d, S) ==
    CASE d.k = "dict" ->
            /\ Keys(S) \in {{}, DOMAIN d.f}
            /\ \A key \in DOMAIN d.f : FitsBelow(b, d.f[key], {Get(c, key) : c \in S})
      [] d.k = "list" ->
            /\ Len(d.s) <= MaxLen(S)
            /\ \A i \in DOMAIN d.s :
                  FitsBelow(b, d.s[i], Elements(S) \cup IF b = "arrow" THEN {Null} ELSE {})
      [] OTHER -> d \in S
==============================================================================
