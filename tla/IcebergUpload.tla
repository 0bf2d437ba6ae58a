---------------------------- MODULE IcebergUpload ----------------------------
(***************************************************************************)
(* IcebergDestination._submit_sync (src/destinations/iceberg.py): uploads  *)
(* that name the same table, each on a thread of its own.  The table lives *)
(* in a catalog they share; every catalog call is one step, and between    *)
(* two of them anything may happen to the table.                           *)
(*                                                                         *)
(* The catalog is PyIceberg over a Hive metastore, modelled from how this  *)
(* class uses it: a commit is refused when the table, or its current       *)
(* snapshot, is not the one the transaction was opened on, and drop_table  *)
(* goes by name.                                                           *)
(***************************************************************************)
EXTENDS Naturals, Sequences, FiniteSets

CONSTANTS Uploads,   (* the calls of submit()                              *)
          Columns,   (* columns that data may have                         *)
          Earlier,   (* stands for whatever filled the table before        *)
          None,      (* no table, no snapshot                              *)
          Flaky      (* catalog and storage calls may fail of themselves   *)

ASSUME UploadsAssumption == Earlier \notin Uploads
ASSUME FlakyAssumption == Flaky \in BOOLEAN

VARIABLES
    pc,         (* how far each upload is                                    *)
    schema,     (* the columns of each upload's data                         *)
    table,      (* the table in the catalog, or None                         *)
    base,       (* the table as the upload loaded or created it              *)
    created,    (* created_new_table                                         *)
    reported,   (* the snapshot the response names                           *)
    log         (* the uploads that committed, in order                      *)

vars == <<pc, schema, table, base, created, reported, log>>

Writers == Uploads \cup {Earlier}
Schemas == (SUBSET Columns) \ {{}}

(* A table is told from a later one of the same name by who created it; a   *)
(* snapshot by who committed it.                                            *)
Tables == [owner : Writers, cols : Schemas, rows : SUBSET Writers, head : Writers \cup {None}]

ASSUME NoneAssumption == None \notin Writers \cup Tables

NoBase == [owner |-> Earlier, cols |-> {}, rows |-> {}, head |-> None]

Progress == {"idle", "loading", "creating", "writing", "committing", "failing",
             "committed", "success", "failed", "undropped", "unanswered"}

TypeOK ==
    /\ pc \in [Uploads -> Progress]
    /\ schema \in [Uploads -> Schemas]
    /\ table \in Tables \cup {None}
    /\ base \in [Uploads -> Tables \cup {NoBase}]
    /\ created \in [Uploads -> BOOLEAN]
    /\ reported \in [Uploads -> Writers \cup {None}]
    /\ log \in Seq(Uploads)

Init ==
    /\ pc = [u \in Uploads |-> "idle"]
    /\ schema \in [Uploads -> Schemas]
    /\ table \in {None} \cup {[owner |-> Earlier, cols |-> c,
                                 rows |-> {Earlier}, head |-> Earlier] : c \in Schemas}
    /\ base = [u \in Uploads |-> NoBase]
    /\ created = [u \in Uploads |-> FALSE]
    /\ reported = [u \in Uploads |-> None]
    /\ log = <<>>

Goto(u, step) == pc' = [pc EXCEPT ![u] = step]

-----------------------------------------------------------------------------

(* create_namespace(), which may find it there already. *)
EnsureNamespace(u) ==
    /\ pc[u] = "idle"
    /\ Goto(u, "loading")
    /\ UNCHANGED <<schema, table, base, created, reported, log>>

LoadTable(u) ==
    /\ pc[u] = "loading"
    /\ table # None
    /\ base' = [base EXCEPT ![u] = table]
    /\ Goto(u, "writing")
    /\ UNCHANGED <<schema, table, created, reported, log>>

(* NoSuchTableError. *)
TableMissing(u) ==
    /\ pc[u] = "loading"
    /\ table = None
    /\ Goto(u, "creating")
    /\ UNCHANGED <<schema, table, base, created, reported, log>>

(* Seeded fault: the flag is raised before the table is created. *)
CreateFailsFlagged(u) ==
    /\ pc[u] = "creating"
    /\ table # None \/ Flaky
    /\ created' = [created EXCEPT ![u] = TRUE]
    /\ Goto(u, "failing")
    /\ UNCHANGED <<schema, table, base, reported, log>>

NewTable(u) == [owner |-> u, cols |-> schema[u], rows |-> {}, head |-> None]

(* Seeded fault: the new table is kept as a name only. *)
CreateTableByName(u) ==
    /\ pc[u] = "creating"
    /\ table = None
    /\ table' = NewTable(u)
    /\ base' = [base EXCEPT ![u] = None]
    /\ created' = [created EXCEPT ![u] = TRUE]
    /\ Goto(u, "writing")
    /\ UNCHANGED <<schema, reported, log>>

CreateTable(u) ==
    /\ pc[u] = "creating"
    /\ table = None
    /\ table' = NewTable(u)
    /\ base' = [base EXCEPT ![u] = NewTable(u)]
    /\ created' = [created EXCEPT ![u] = TRUE]
    /\ Goto(u, "writing")
    /\ UNCHANGED <<schema, reported, log>>

(* Another upload created it in the meantime, or the call failed. *)
CreateFails(u) ==
    /\ pc[u] = "creating"
    /\ table # None \/ Flaky
    /\ Goto(u, "failed")
    /\ UNCHANGED <<schema, table, base, created, reported, log>>

(* The table was created, but create_table() raises: its answer is lost, or *)
(* what it reads afterwards fails.  created_new_table is not set yet, so    *)
(* nothing drops the table.                                                *)
CreateAnswerLost(u) ==
    /\ Flaky
    /\ pc[u] = "creating"
    /\ table = None
    /\ table' = NewTable(u)
    /\ Goto(u, "unanswered")
    /\ UNCHANGED <<schema, base, created, reported, log>>

(* Seeded fault: the data is written without comparing the schemas. *)
StageUnchecked(u) ==
    /\ pc[u] = "writing"
    /\ Goto(u, "committing")
    /\ UNCHANGED <<schema, table, base, created, reported, log>>

(* append() and overwrite() take the data if the table, as the transaction *)
(* sees it, has all its columns.  union_by_name() is called on an update   *)
(* that is never committed to the transaction, so it adds none.            *)
Stage(u) ==
    /\ pc[u] = "writing"
    /\ schema[u] \subseteq base[u].cols
    /\ Goto(u, "committing")
    /\ UNCHANGED <<schema, table, base, created, reported, log>>

StageFails(u) ==
    /\ pc[u] = "writing"
    /\ ~(schema[u] \subseteq base[u].cols) \/ Flaky
    /\ Goto(u, "failing")
    /\ UNCHANGED <<schema, table, base, created, reported, log>>

(* The catalog's check: same table, and still the snapshot we started from. *)
Unchanged(u) ==
    /\ table # None
    /\ table.owner = base[u].owner
    /\ table.head = base[u].head

(* Seeded fault: data is always appended. *)
WrittenAppending(u) == [table EXCEPT !.rows = @ \cup {u}, !.head = u]

(* append() to a table of our own making, overwrite() of any other. *)
Written(u) ==
    [owner |-> table.owner, cols |-> table.cols, head |-> u,
     rows |-> IF created[u] THEN table.rows \cup {u} ELSE {u}]

Commit(u) ==
    /\ pc[u] = "committing"
    /\ Unchanged(u)
    /\ table' = Written(u)
    /\ log' = Append(log, u)
    /\ Goto(u, "committed")
    /\ UNCHANGED <<schema, base, created, reported>>

(* Seeded fault: the refusal is logged and the upload goes on. *)
CommitFailsIgnored(u) ==
    /\ pc[u] = "committing"
    /\ ~Unchanged(u) \/ Flaky
    /\ Goto(u, "committed")
    /\ UNCHANGED <<schema, table, base, created, reported, log>>

(* CommitFailedException, or any other failure. *)
CommitFails(u) ==
    /\ pc[u] = "committing"
    /\ ~Unchanged(u) \/ Flaky
    /\ Goto(u, "failing")
    /\ UNCHANGED <<schema, table, base, created, reported, log>>

(* The commit took effect but its answer was lost: to this code, a failure. *)
CommitAnswerLost(u) ==
    /\ Flaky
    /\ pc[u] = "committing"
    /\ Unchanged(u)
    /\ table' = Written(u)
    /\ log' = Append(log, u)
    /\ Goto(u, "failing")
    /\ UNCHANGED <<schema, base, created, reported>>

(* Seeded fault: the created table is left behind. *)
CleanUpNothing(u) ==
    /\ pc[u] = "failing"
    /\ Goto(u, "failed")
    /\ UNCHANGED <<schema, table, base, created, reported, log>>

(* Seeded fault: the table is dropped whoever created it. *)
CleanUpAlways(u) ==
    /\ pc[u] = "failing"
    /\ table' = None
    /\ Goto(u, "failed")
    /\ UNCHANGED <<schema, base, created, reported, log>>

(* Both handlers drop the table by its name when this upload created it. *)
CleanUp(u) ==
    /\ pc[u] = "failing"
    /\ table' = IF created[u] THEN None ELSE table
    /\ Goto(u, "failed")
    /\ UNCHANGED <<schema, base, created, reported, log>>

(* drop_table() fails: the table stays, and the exception leaves the handler. *)
CleanUpFails(u) ==
    /\ Flaky
    /\ pc[u] = "failing"
    /\ created[u]
    /\ Goto(u, "undropped")
    /\ UNCHANGED <<schema, table, base, created, reported, log>>

(* refresh() reads whatever table has the name now, in its current state. *)
Refresh(u) ==
    /\ pc[u] = "committed"
    /\ table # None
    /\ reported' = [reported EXCEPT ![u] = table.head]
    /\ Goto(u, "success")
    /\ UNCHANGED <<schema, table, base, created, log>>

(* Seeded fault: refresh() is tried again while the table is not there. *)
RefreshFailsRetrying(u) ==
    /\ pc[u] = "committed"
    /\ table = None
    /\ UNCHANGED vars

(* No such table any more, a different one, or a failed call. *)
RefreshFails(u) ==
    /\ pc[u] = "committed"
    /\ \/ table = None
       \/ table # None /\ table.owner # base[u].owner
       \/ Flaky
    /\ Goto(u, "failed")
    /\ UNCHANGED <<schema, table, base, created, reported, log>>

(* create_namespace() or load_table() fails. *)
CallFails(u) ==
    /\ Flaky
    /\ pc[u] \in {"idle", "loading"}
    /\ Goto(u, "failed")
    /\ UNCHANGED <<schema, table, base, created, reported, log>>

Upload(u) ==
    \/ EnsureNamespace(u)
    \/ LoadTable(u)
    \/ TableMissing(u)
    \/ CreateTable(u)
    \/ CreateFails(u)
    \/ CreateAnswerLost(u)
    \/ Stage(u)
    \/ StageFails(u)
    \/ Commit(u)
    \/ CommitFails(u)
    \/ CommitAnswerLost(u)
    \/ CleanUp(u)
    \/ CleanUpFails(u)
    \/ Refresh(u)
    \/ RefreshFails(u)
    \/ CallFails(u)

Failed(u) == pc[u] \in {"failed", "undropped", "unanswered"}
Ended(u) == pc[u] = "success" \/ Failed(u)
AllEnded == (\A u \in Uploads : Ended(u)) /\ UNCHANGED vars

Next == AllEnded \/ \E u \in Uploads : Upload(u)

Spec == Init /\ [][Next]_vars

-----------------------------------------------------------------------------
(* Properties. *)

(* The table never mixes two uploads: what readers see is the data of one  *)
(* of them (append only to a table just created, overwrite otherwise,      *)
(* l.226-236), however creations, loads and commits interleave.            *)
NoMixedRows == table # None => Cardinality(table.rows) <= 1

(* The rows in the table fit its columns (l.222-233): a commit based on a  *)
(* table loaded earlier cannot put columns into one that lacks them.       *)
RowsFitTable ==
    table # None => \A u \in table.rows \cap Uploads : schema[u] \subseteq table.cols

(* drop_table() goes by name (l.239, l.249), yet what it drops is the      *)
(* table this upload created, never one that another upload made.          *)
DropsOwnTable ==
    [][\A u \in Uploads : CleanUp(u) /\ created[u] => table # None /\ table.owner = u]_vars

(* Success (l.258-269) is reported only after this upload's own commit,    *)
(* and the snapshot named is that commit or a later one; none is named     *)
(* when the table was dropped and made again before refresh().             *)
SuccessIsCommitted ==
    \A u \in Uploads : pc[u] = "success" =>
       \E i \in DOMAIN log :
          /\ log[i] = u
          /\ reported[u] # None => \E j \in i..Len(log) : log[j] = reported[u]

(* An upload that fails takes its empty table away (l.238-250), with two   *)
(* exceptions: once every upload has ended, a table without data is one    *)
(* whose drop_table() failed, or whose create_table() took effect and      *)
(* raised, before the upload knew of a table to drop (l.213, l.299).       *)
NoEmptyTableLeft ==
    (\A u \in Uploads : Ended(u)) /\ table # None /\ table.head = None
    => pc[table.owner] \in {"undropped", "unanswered"}

(* The data of an upload that created its table and succeeded stays        *)
(* readable or is overwritten, but its table is never dropped.             *)
CreatedTableStays ==
    \A u \in Uploads : pc[u] = "success" /\ created[u] => table # None /\ table.owner = u

(* What the caller of each upload, and whoever reads the table, gets to     *)
(* know of it, in the terms of PublishedTable.                             *)
OutcomeOf(u) ==
    IF pc[u] = "success" THEN "success"
    ELSE IF Failed(u) THEN "failed"
    ELSE IF \E i \in DOMAIN log : log[i] = u THEN "published"
    ELSE "open"

Published == INSTANCE PublishedTable
               WITH owner <- IF table = None THEN None ELSE table.owner,
                    data <- IF table = None THEN {} ELSE table.rows,
                    outcome <- [u \in Uploads |-> OutcomeOf(u)]

(* The calls to the catalog, each of which may fail or be overtaken,        *)
(* implement a table to which every upload publishes in one step, at most  *)
(* once and before its outcome, and which only its failing creator takes   *)
(* back (l.197-269).                                                       *)
ImplementsPublishedTable == Published!Spec

-----------------------------------------------------------------------------
(* What the source says of an upload and the code does not do. *)

(* iceberg.py:109, a response is "Info about resulting table": there is a   *)
(* table, with this upload's data or that of a later one.                   *)
SuccessSurvives ==
    \A u \in Uploads : pc[u] = "success" => table # None

(* iceberg.py:72, the class "Handles schema reconciliation": an upload that *)
(* meets no other upload and no failing call succeeds, whatever columns the *)
(* table had before.                                                        *)
SchemaReconciled ==
    \A u \in Uploads : pc[u] = "failed" => \E v \in Uploads \ {u} : pc[v] # "idle"
==============================================================================
