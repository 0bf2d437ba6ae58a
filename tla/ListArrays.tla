------------------------------ MODULE ListArrays ------------------------------
(***************************************************************************)
(* The layout of a column of lists, in AvroToArrowConverter._build_array   *)
(* (src/sources/avro_ocf/helpers/avro_to_arrow.py l.229-258) and in the    *)
(* array that Arrow makes of it: the items of all lists one after the      *)
(* other, and for each list where its items begin.                         *)
(***************************************************************************)
EXTENDS Cells, Integers

(* Seeded fault: a null inside a list does not count for its offsets. *)
OffsetsOfPresent(lists) ==
    LET offset[r \in 1 .. Len(lists) + 1] ==
          IF r = 1 THEN 0
          ELSE offset[r - 1] + Len(SelectSeq(lists[r - 1], LAMBDA c : c # Null))
    IN offset

(* The loop: [0], then for each list the offset before and its length. *)
Offsets(lists) ==
    LET offset[r \in 1 .. Len(lists) + 1] ==
          IF r = 1 THEN 0 ELSE offset[r - 1] + Len(lists[r - 1])
    IN offset

(* values.extend(item), list by list. *)
AllItems(lists) == FlattenSeq(lists)

(* ListArray.from_arrays() *)
FromArrays(offsets, items) ==
    [r \in 1 .. Len(offsets) - 1 |-> SubSeq(items, offsets[r] + 1, offsets[r + 1])]
==============================================================================
