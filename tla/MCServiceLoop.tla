---------------------------- MODULE MCServiceLoop ----------------------------
(***************************************************************************)
(* ServiceLoop with an event of each sort that is told apart: a field of a *)
(* definition by itself, beside others, in a form that cannot be read; and *)
(* fields that are not definitions.                                        *)
(***************************************************************************)
EXTENDS ServiceLoop

UpdateOf(fields) == [event |-> "updated", change |-> fields]

WebhookBodies ==
    {[event |-> "created", change |-> {}], [event |-> "test", change |-> {}],
     UpdateOf({Added("tags", "text"), Updated("other", "text", "text"),
               Deleted("columns", "columns"), Deleted("attribute", "text"),
               Updated("columns", "text", "columns")}),
     UpdateOf({Updated("attribute", "text", "text"), Deleted("columns", "columns")}),
     UpdateOf({Added("columns", "columns"), Updated("tags", "text", "text")}),
     UpdateOf({Updated("columns", "columns", "empty")})}
==============================================================================
