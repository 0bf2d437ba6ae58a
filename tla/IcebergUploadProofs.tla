------------------------- MODULE IcebergUploadProofs -------------------------
(***************************************************************************)
(* What the transactions of IcebergUpload guarantee for every set of       *)
(* uploads and of columns, whatever calls fail.                            *)
(*                                                                         *)
(* None of the properties is inductive.  What they rest on is that a table *)
(* belongs to one upload as long as that upload may still drop it (Owned), *)
(* that an upload creates at most one table (CreatedLate, OwnersCreated),  *)
(* so that a table with the owner an upload remembers is the table it      *)
(* loaded (BaseFits), and that a table shows the data of its snapshot and  *)
(* nothing else (Rows).                                                    *)
(*                                                                         *)
(* What a caller is told rests on the log of commits (History), and both   *)
(* together on the way to PublishedTable: a commit publishes, whatever is  *)
(* heard of it, and what is withdrawn is the upload's own.                 *)
(***************************************************************************)
EXTENDS IcebergUpload, FiniteSetTheorems, TLAPS

(* An upload that created a table and has not failed still has it. *)
Owned ==
    \A u \in Uploads : created[u] /\ pc[u] # "failed" => table # None /\ table.owner = u

CreatedLate ==
    \A u \in Uploads : created[u] => pc[u] \notin {"idle", "loading", "creating"}

InTransaction(u) == pc[u] \in {"writing", "committing"}

(* An upload that created a table, whether it was told so or not. *)
Creator(u) == created[u] \/ pc[u] = "unanswered"

OwnersCreated ==
    /\ table # None /\ table.owner \in Uploads => Creator(table.owner)
    /\ \A u \in Uploads :
          InTransaction(u) /\ base[u].owner \in Uploads => Creator(base[u].owner)

BaseFits ==
    \A u \in Uploads : InTransaction(u) =>
       /\ base[u] \in Tables
       /\ table # None /\ table.owner = base[u].owner => table.cols = base[u].cols
       /\ pc[u] = "committing" => schema[u] \subseteq base[u].cols
       /\ created[u] => base[u].head = None

Rows == table # None =>
    /\ table.rows = {table.head} \ {None}
    /\ \A v \in table.rows \cap Uploads : schema[v] \subseteq table.cols

(* A table without snapshot is one whose creator is still at work on it,   *)
(* could not drop it or never heard of it.                                 *)
EmptyIsYoung ==
    table # None /\ table.head = None =>
       /\ table.owner \in Uploads
       /\ Creator(table.owner)
       /\ pc[table.owner] \in {"writing", "committing", "failing", "undropped", "unanswered"}

IInv ==
    /\ TypeOK
    /\ Owned
    /\ CreatedLate
    /\ OwnersCreated
    /\ BaseFits
    /\ Rows
    /\ EmptyIsYoung

-----------------------------------------------------------------------------

(* No table yet, or one that something else filled, and no upload begun. *)
LEMMA InitIInv == Init => IInv
<1> SUFFICES ASSUME Init PROVE IInv
  OBVIOUS
<1> USE UploadsAssumption, NoneAssumption DEF Init
<1>1. table = None \/ (table \in Tables /\ table.owner = Earlier
                       /\ table.head = Earlier /\ table.rows = {Earlier})
  BY DEF Tables, Writers
<1>2. TypeOK
  BY <1>1 DEF TypeOK, Progress, NoBase
<1>3. Owned /\ CreatedLate /\ OwnersCreated /\ BaseFits
  BY <1>1 DEF Owned, CreatedLate, OwnersCreated, Creator, BaseFits, InTransaction
<1>4. Rows /\ EmptyIsYoung
  BY <1>1 DEF Creator, Rows, EmptyIsYoung, Writers
<1> QED
  BY <1>2, <1>3, <1>4 DEF IInv

(* The steps that only move one upload, outside a transaction or out of    *)
(* it, keep the invariant: they change neither the table nor a base.       *)
LEMMA MoveIInv ==
  ASSUME IInv, NEW u \in Uploads, NEW step \in Progress,
         Goto(u, step),
         step \in {"writing", "committing"} => InTransaction(u),
         step = "committing" => schema[u] \subseteq base[u].cols,
         pc[u] \notin {"failed", "unanswered"},
         created[u] => step \notin {"idle", "loading", "creating"},
         table # None /\ table.head = None /\ table.owner = u
           => step \in {"writing", "committing", "failing", "undropped", "unanswered"},
         UNCHANGED <<schema, table, base, created, log>>,
         reported' \in [Uploads -> Writers \cup {None}]
  PROVE  IInv'
<1> USE DEF IInv, Goto
<1>1. TypeOK'
  BY DEF TypeOK
<1>2. pc' = [pc EXCEPT ![u] = step] /\ pc \in [Uploads -> Progress]
  BY DEF TypeOK
<1>3. Owned' /\ CreatedLate'
  BY <1>2 DEF Owned, CreatedLate
<1>4. OwnersCreated'
  BY <1>2 DEF Creator, OwnersCreated, InTransaction
<1>5. BaseFits'
  BY <1>2 DEF BaseFits, InTransaction
<1>6. Rows' /\ EmptyIsYoung'
  BY <1>2 DEF Creator, Rows, EmptyIsYoung
<1> QED
  BY <1>1, <1>3, <1>4, <1>5, <1>6

(* Every action that writes neither the table, a base nor a flag.           *)
LEMMA UnwrittenIInv ==
  ASSUME IInv, NEW u \in Uploads,
         \/ EnsureNamespace(u) \/ TableMissing(u) \/ CreateFails(u)
         \/ Stage(u) \/ StageFails(u) \/ CommitFails(u)
         \/ CleanUpFails(u) \/ CallFails(u)
         \/ Refresh(u) \/ RefreshFails(u)
  PROVE  IInv'
<1> USE DEF IInv
<1>1. /\ pc \in [Uploads -> Progress]
      /\ reported \in [Uploads -> Writers \cup {None}]
      /\ table # None => table.head \in Writers \cup {None}
      /\ created[u] => pc[u] \notin {"idle", "loading", "creating"}
      /\ table # None /\ table.head = None /\ table.owner = u
           => pc[u] \in {"writing", "committing", "failing", "undropped", "unanswered"}
  BY DEF TypeOK, CreatedLate, EmptyIsYoung, Tables
<1>2. CASE EnsureNamespace(u)
  BY <1>1, <1>2, MoveIInv DEF EnsureNamespace, Goto, Progress
<1>3. CASE TableMissing(u)
  BY <1>1, <1>3, MoveIInv DEF TableMissing, Goto, Progress
<1>4. CASE CreateFails(u)
  BY <1>1, <1>4, MoveIInv DEF CreateFails, Goto, Progress
<1>5. CASE Stage(u)
  BY <1>1, <1>5, MoveIInv DEF Stage, Goto, Progress, InTransaction
<1>6. CASE StageFails(u)
  BY <1>1, <1>6, MoveIInv DEF StageFails, Goto, Progress
<1>7. CASE CommitFails(u)
  BY <1>1, <1>7, MoveIInv DEF CommitFails, Goto, Progress
<1>8. CASE CleanUpFails(u)
  BY <1>1, <1>8, MoveIInv DEF CleanUpFails, Goto, Progress
<1>9. CASE CallFails(u)
  BY <1>1, <1>9, MoveIInv DEF CallFails, Goto, Progress
<1>10. CASE Refresh(u)
  <2>1. reported' \in [Uploads -> Writers \cup {None}]
    BY <1>1, <1>10 DEF Refresh
  <2> QED
    BY <1>1, <1>10, <2>1, MoveIInv DEF Refresh, Goto, Progress
<1>11. CASE RefreshFails(u)
  BY <1>1, <1>11, MoveIInv DEF RefreshFails, Goto, Progress
<1> QED
  BY <1>2, <1>3, <1>4, <1>5, <1>6, <1>7, <1>8, <1>9, <1>10, <1>11

(* The loaded table becomes the base: it is the table as it is now. *)
LEMMA LoadIInv == ASSUME IInv, NEW u \in Uploads, LoadTable(u) PROVE IInv'
<1> USE DEF IInv, LoadTable, Goto
<1>1. /\ pc \in [Uploads -> Progress] /\ base \in [Uploads -> Tables \cup {NoBase}]
      /\ table \in Tables
      /\ ~created[u]
  BY DEF TypeOK, CreatedLate
<1>2. TypeOK'
  BY <1>1 DEF TypeOK, Progress
<1>3. Owned' /\ CreatedLate'
  BY <1>1 DEF Owned, CreatedLate
<1>4. OwnersCreated'
  BY <1>1 DEF Creator, OwnersCreated, InTransaction
<1>5. BaseFits'
  BY <1>1 DEF BaseFits, InTransaction
<1>6. Rows' /\ EmptyIsYoung'
  BY <1>1 DEF Creator, Rows, EmptyIsYoung
<1> QED
  BY <1>2, <1>3, <1>4, <1>5, <1>6

(* No upload can be remembering a table of u before u has created one, and *)
(* nobody else owns a table where there is none.                           *)
LEMMA CreateIInv ==
  ASSUME IInv, NEW u \in Uploads, CreateTable(u) \/ CreateAnswerLost(u)
  PROVE  IInv'
<1> USE NoneAssumption DEF IInv, Goto
<1>1. /\ pc \in [Uploads -> Progress] /\ base \in [Uploads -> Tables \cup {NoBase}]
      /\ created \in [Uploads -> BOOLEAN]
      /\ ~created[u] /\ ~Creator(u)
      /\ table = None /\ table' = NewTable(u)
  BY DEF TypeOK, CreatedLate, Creator, CreateTable, CreateAnswerLost
<1>2. NewTable(u) \in Tables /\ NewTable(u) # None
  BY DEF TypeOK, NewTable, Tables, Writers
<1>3. TypeOK'
  <2>1. TypeOK /\ UNCHANGED <<schema, reported, log>> /\ table' \in Tables
    BY <1>1, <1>2 DEF CreateTable, CreateAnswerLost
  <2>2. pc' \in [Uploads -> Progress]
    BY <1>1 DEF Progress, CreateTable, CreateAnswerLost
  <2>3. base' \in [Uploads -> Tables \cup {NoBase}] /\ created' \in [Uploads -> BOOLEAN]
    BY <1>1, <1>2 DEF CreateTable, CreateAnswerLost
  <2> QED
    BY <2>1, <2>2, <2>3 DEF TypeOK
<1>4. Owned' /\ CreatedLate'
  BY <1>1, <1>2 DEF Owned, CreatedLate, NewTable, CreateTable, CreateAnswerLost
<1>5. Creator(u)' /\ \A v \in Uploads \ {u} : Creator(v)' = Creator(v)
  BY <1>1 DEF Creator, CreateTable, CreateAnswerLost
<1>6. \A v \in Uploads \ {u} :
         /\ InTransaction(v)' = InTransaction(v)
         /\ base'[v] = base[v] /\ created'[v] = created[v] /\ pc'[v] = pc[v]
         /\ InTransaction(v) => base[v].owner # u
  BY <1>1 DEF OwnersCreated, InTransaction, CreateTable, CreateAnswerLost
<1>7. InTransaction(u)' => base'[u] = NewTable(u) /\ pc'[u] # "committing"
  BY <1>1 DEF InTransaction, CreateTable, CreateAnswerLost
<1>8. OwnersCreated'
  BY <1>1, <1>2, <1>5, <1>6, <1>7 DEF OwnersCreated, NewTable
<1>9. BaseFits'
  <2> SUFFICES ASSUME NEW v \in Uploads, InTransaction(v)'
               PROVE  /\ base'[v] \in Tables
                      /\ table'.owner = base'[v].owner => table'.cols = base'[v].cols
                      /\ pc'[v] = "committing" => schema'[v] \subseteq base'[v].cols
                      /\ created'[v] => base'[v].head = None
    BY DEF BaseFits
  <2>1. CASE v = u
    BY <1>1, <1>2, <1>7, <2>1 DEF NewTable
  <2>2. CASE v # u
    BY <1>1, <1>2, <1>6, <2>2 DEF BaseFits, NewTable, CreateTable, CreateAnswerLost
  <2> QED
    BY <2>1, <2>2
<1>10. Rows' /\ EmptyIsYoung'
  BY <1>1, <1>2, <1>5 DEF Rows, EmptyIsYoung, NewTable, CreateTable, CreateAnswerLost
<1> QED
  BY <1>3, <1>4, <1>8, <1>9, <1>10

(* A commit meets the table it was staged on: it has the columns that were *)
(* compared, and is empty if this upload appends to it.  So what it leaves *)
(* is this upload's data and nothing else.                                 *)
LEMMA WrittenRows ==
  ASSUME IInv, NEW u \in Uploads, pc[u] = "committing", Unchanged(u)
  PROVE  /\ table \in Tables /\ table # None /\ schema[u] \subseteq table.cols
         /\ Written(u) \in Tables /\ Written(u) # None
         /\ Written(u).rows = {u} /\ Written(u).head = u
         /\ Written(u).owner = table.owner /\ Written(u).cols = table.cols
<1> USE NoneAssumption DEF IInv
<1>1. /\ table \in Tables /\ table # None
      /\ schema[u] \subseteq table.cols
      /\ created[u] => table.head = None /\ table.rows = {}
  BY DEF TypeOK, BaseFits, InTransaction, Unchanged, Rows
<1> QED
  BY <1>1 DEF Written, Tables, Writers

LEMMA WriteIInv ==
  ASSUME IInv, NEW u \in Uploads, NEW step \in {"committed", "failing"},
         pc[u] = "committing", Unchanged(u), table' = Written(u),
         log' = Append(log, u), Goto(u, step),
         UNCHANGED <<schema, base, created, reported>>
  PROVE  IInv'
<1> USE NoneAssumption DEF IInv, Goto
<1>1. /\ pc \in [Uploads -> Progress] /\ table \in Tables /\ table # None
      /\ table.owner = base[u].owner /\ schema[u] \subseteq table.cols
  BY WrittenRows DEF TypeOK, Unchanged
<1>2. /\ table' \in Tables /\ table' # None
      /\ table'.rows = {u} /\ table'.head = u
      /\ table'.owner = table.owner /\ table'.cols = table.cols
  BY WrittenRows
<1>3. u # None
  BY DEF Writers
<1>4. TypeOK'
  BY <1>1, <1>2 DEF TypeOK, Progress
<1>5. Owned' /\ CreatedLate'
  BY <1>1, <1>2 DEF Owned, CreatedLate
<1>6. OwnersCreated' /\ BaseFits'
  BY <1>1, <1>2 DEF Creator, OwnersCreated, BaseFits, InTransaction
<1>7. Rows' /\ EmptyIsYoung'
  BY <1>1, <1>2, <1>3 DEF Creator, Rows, EmptyIsYoung
<1> QED
  BY <1>4, <1>5, <1>6, <1>7

(* A drop takes a table that nobody else can still drop. *)
LEMMA CleanUpIInv == ASSUME IInv, NEW u \in Uploads, CleanUp(u) PROVE IInv'
<1> USE DEF IInv, CleanUp, Goto
<1>1. /\ pc \in [Uploads -> Progress] /\ created \in [Uploads -> BOOLEAN]
      /\ created[u] => table # None /\ table.owner = u
  BY DEF TypeOK, Owned
<1>2. TypeOK'
  BY <1>1 DEF TypeOK, Progress
<1>3. Owned' /\ CreatedLate'
  BY <1>1 DEF Owned, CreatedLate
<1>4. OwnersCreated' /\ BaseFits'
  BY <1>1 DEF Creator, OwnersCreated, BaseFits, InTransaction
<1>5. Rows' /\ EmptyIsYoung'
  BY <1>1 DEF Creator, Rows, EmptyIsYoung
<1> QED
  BY <1>2, <1>3, <1>4, <1>5

(* Every step keeps the invariant. *)
LEMMA NextIInv == IInv /\ [Next]_vars => IInv'
<1> SUFFICES ASSUME IInv, [Next]_vars PROVE IInv'
  OBVIOUS
<1>1. CASE UNCHANGED vars \/ AllEnded
  BY <1>1 DEF vars, AllEnded, IInv, TypeOK, Owned, CreatedLate, OwnersCreated,
              Creator, BaseFits, InTransaction, Rows, EmptyIsYoung
<1>2. ASSUME NEW u \in Uploads, Upload(u) PROVE IInv'
  <2>1. CASE Commit(u)
    BY <2>1, WriteIInv DEF Commit
  <2>2. CASE CommitAnswerLost(u)
    BY <2>2, WriteIInv DEF CommitAnswerLost
  <2> QED
    BY <1>2, <2>1, <2>2, UnwrittenIInv, LoadIInv, CreateIInv, CleanUpIInv DEF Upload
<1> QED
  BY <1>1, <1>2 DEF Next

-----------------------------------------------------------------------------

(* The inductive invariant holds in every behaviour. *)
THEOREM Invariance == Spec => []IInv
<1> QED
  BY InitIInv, NextIInv, PTL DEF Spec

(* The catalog and every upload stay well typed. *)
THEOREM TypeCorrect == Spec => []TypeOK
<1>1. IInv => TypeOK
  BY DEF IInv
<1> QED
  BY <1>1, Invariance, PTL

(* Readers of the table see the data of one upload: appends go to tables   *)
(* that are still empty, everything else is an overwrite (l.226-236).      *)
THEOREM OneUploadsRows == Spec => []NoMixedRows
<1>1. IInv => NoMixedRows
  <2> SUFFICES ASSUME IInv, table # None PROVE Cardinality(table.rows) <= 1
    BY DEF NoMixedRows
  <2>1. table.rows = {} \/ table.rows = {table.head}
    BY DEF IInv, Rows
  <2>2. CASE table.rows = {}
    BY <2>2, FS_EmptySet
  <2>3. CASE table.rows = {table.head}
    <3>1. Cardinality({table.head}) = 1
      BY FS_Singleton
    <3> QED
      BY <2>3, <3>1
  <2> QED
    BY <2>1, <2>2, <2>3
<1> QED
  BY <1>1, Invariance, PTL

(* No commit puts columns into a table that lacks them, however long ago   *)
(* the table was loaded (l.203-233).                                       *)
THEOREM CommittedRowsFit == Spec => []RowsFitTable
<1>1. IInv => RowsFitTable
  BY DEF IInv, Rows, RowsFitTable
<1> QED
  BY <1>1, Invariance, PTL

(* drop_table(), which goes by name, drops the caller's own table (l.239,  *)
(* l.249).                                                                 *)
THEOREM DropsOwn == Spec => DropsOwnTable
<1>1. IInv => \A u \in Uploads :
                 CleanUp(u) /\ created[u] => table # None /\ table.owner = u
  BY DEF IInv, Owned, CleanUp
<1> QED
  BY <1>1, Invariance, PTL DEF DropsOwnTable

(* The table of an upload that created it and succeeded is never dropped. *)
THEOREM CreatedStays == Spec => []CreatedTableStays
<1>1. IInv => CreatedTableStays
  BY DEF IInv, Owned, CreatedTableStays
<1> QED
  BY <1>1, Invariance, PTL

(* When every upload has ended, a table without data is one whose          *)
(* drop_table() failed, or whose create_table() raised after it had taken  *)
(* effect (l.209-213, l.238-250).                                          *)
THEOREM NothingEmptyLeft == Spec => []NoEmptyTableLeft
<1>1. IInv => NoEmptyTableLeft
  BY DEF IInv, EmptyIsYoung, NoEmptyTableLeft, Ended, Failed
<1> QED
  BY <1>1, Invariance, PTL

-----------------------------------------------------------------------------
(* The log of commits. *)

BeforeCommit == {"idle", "loading", "creating", "writing", "committing"}

(* An upload commits at most once, because it has not before it does. *)
CommitsOnce ==
    \A u \in Uploads : pc[u] \in BeforeCommit => \A i \in DOMAIN log : log[i] # u

(* What an upload that has committed will find when it reads the table     *)
(* again: no snapshot, or its own, or that of a later commit.              *)
HeadIsLater ==
    \A u \in Uploads : pc[u] = "committed" =>
       \E i \in DOMAIN log :
          /\ log[i] = u
          /\ table # None /\ table.head # None => \E j \in i..Len(log) : log[j] = table.head

History == CommitsOnce /\ HeadIsLater /\ SuccessIsCommitted

(* What append() adds is the last entry of the log; the others stay. *)
LEMMA Appended ==
  ASSUME log \in Seq(Uploads), NEW u \in Uploads, log' = Append(log, u)
  PROVE  /\ Len(log') = Len(log) + 1 /\ Len(log) \in Nat
         /\ DOMAIN log = 1 .. Len(log) /\ DOMAIN log' = 1 .. Len(log')
         /\ \A i \in DOMAIN log : i \in DOMAIN log' /\ log'[i] = log[i]
         /\ log'[Len(log')] = u
         /\ \A i \in DOMAIN log' : i = Len(log') \/ i \in DOMAIN log
  OBVIOUS

(* A commit, with its answer or without, is the latest entry of the log,   *)
(* and the snapshot it makes is the head of the table.                     *)
LEMMA WriteHistory ==
  ASSUME IInv, History, NEW u \in Uploads, NEW step \in {"committed", "failing"},
         pc[u] = "committing", table' = Written(u), log' = Append(log, u),
         Goto(u, step), UNCHANGED <<schema, base, created, reported>>
  PROVE  History'
<1> USE DEF History, Goto
<1>1. pc \in [Uploads -> Progress] /\ log \in Seq(Uploads)
  BY DEF IInv, TypeOK
<1>2. table'.head = u
  BY DEF Written
<1>3. CommitsOnce'
  BY <1>1, Appended DEF CommitsOnce, BeforeCommit
<1>4. HeadIsLater'
  <2> SUFFICES ASSUME NEW v \in Uploads, pc'[v] = "committed"
               PROVE  \E i \in DOMAIN log' :
                         log'[i] = v /\ \E j \in i..Len(log') : log'[j] = u
    BY <1>2 DEF HeadIsLater
  <2>1. \E i \in DOMAIN log' : log'[i] = v
    BY <1>1, Appended DEF HeadIsLater
  <2> QED
    BY <1>1, <2>1, Appended
<1>5. SuccessIsCommitted'
  <2> SUFFICES ASSUME NEW v \in Uploads, pc'[v] = "success"
               PROVE  \E i \in DOMAIN log' :
                         /\ log'[i] = v
                         /\ reported[v] # None => \E j \in i..Len(log') : log'[j] = reported[v]
    BY DEF SuccessIsCommitted
  <2>1. PICK i \in DOMAIN log :
           /\ log[i] = v
           /\ reported[v] # None => \E j \in i..Len(log) : log[j] = reported[v]
    BY <1>1 DEF SuccessIsCommitted
  <2> QED
    BY <1>1, <2>1, Appended
<1> QED
  BY <1>3, <1>4, <1>5

(* The steps of an upload that leave the log alone: what they leave in the *)
(* catalog is the table as it was, one without snapshot, or none.          *)
LEMMA UnloggedHistory ==
  ASSUME IInv, History, NEW u \in Uploads, Upload(u), ~Commit(u), ~CommitAnswerLost(u)
  PROVE  History'
<1> USE DEF History, Goto
<1>1. /\ pc \in [Uploads -> Progress] /\ log' = log
      /\ reported \in [Uploads -> Writers \cup {None}]
  BY DEF IInv, TypeOK, Upload, EnsureNamespace, LoadTable, TableMissing, CreateTable, CreateFails, CreateAnswerLost,
         Stage, StageFails, CommitFails, CleanUp, CleanUpFails, Refresh, RefreshFails, CallFails
<1>2. table' = table \/ table' = None \/ table'.head = None
  BY DEF Upload, EnsureNamespace, LoadTable, TableMissing, CreateTable, CreateFails, CreateAnswerLost, NewTable,
         Stage, StageFails, CommitFails, CleanUp, CleanUpFails, Refresh, RefreshFails, CallFails
<1>3. \A v \in Uploads :
         /\ pc'[v] \in BeforeCommit => pc[v] \in BeforeCommit
         /\ pc'[v] = "committed" => pc[v] = "committed"
         /\ pc'[v] = "success" /\ pc[v] # "success" =>
               /\ pc[v] = "committed" /\ table # None
               /\ reported'[v] = table.head
         /\ pc'[v] = "success" /\ pc[v] = "success" => reported'[v] = reported[v]
  BY <1>1
  DEF BeforeCommit, Upload, EnsureNamespace, LoadTable, TableMissing, CreateTable, CreateFails, CreateAnswerLost,
      Stage, StageFails, CommitFails, CleanUp, CleanUpFails, Refresh, RefreshFails, CallFails
<1>4. CommitsOnce'
  BY <1>1, <1>3 DEF CommitsOnce
<1>5. HeadIsLater'
  BY <1>1, <1>2, <1>3 DEF HeadIsLater
<1>6. SuccessIsCommitted'
  BY <1>1, <1>3 DEF SuccessIsCommitted, HeadIsLater
<1> QED
  BY <1>4, <1>5, <1>6

(* Every step keeps what the log says of the uploads. *)
LEMMA NextHistory == IInv /\ History /\ [Next]_vars => History'
<1> SUFFICES ASSUME IInv, History, [Next]_vars PROVE History'
  OBVIOUS
<1>1. CASE UNCHANGED vars \/ AllEnded
  BY <1>1 DEF vars, AllEnded, History, CommitsOnce, HeadIsLater, SuccessIsCommitted
<1>2. ASSUME NEW u \in Uploads, Upload(u) PROVE History'
  BY <1>2, WriteHistory, UnloggedHistory DEF Commit, CommitAnswerLost
<1> QED
  BY <1>1, <1>2 DEF Next

(* No commit goes unnoticed: the log invariant holds in every behaviour. *)
LEMMA HistoryHolds == Spec => []History
<1>1. Init => History
  BY DEF Init, History, CommitsOnce, HeadIsLater, SuccessIsCommitted
<1> QED
  BY <1>1, NextHistory, Invariance, PTL DEF Spec

(* Success is reported after the upload's own commit, with the snapshot of *)
(* that commit or of a later one (l.258-269).                              *)
THEOREM SuccessesAreCommitted == Spec => []SuccessIsCommitted
<1>1. History => SuccessIsCommitted
  BY DEF History
<1> QED
  BY <1>1, HistoryHolds, PTL

-----------------------------------------------------------------------------
(* IcebergUpload implements PublishedTable. *)

(* No upload has begun, and the table is none or of earlier. *)
LEMMA InitRefines == Init => Published!Init
<1> SUFFICES ASSUME Init PROVE Published!Init
  OBVIOUS
<1>1. \A u \in Uploads : OutcomeOf(u) = "open"
  BY DEF Init, OutcomeOf, Failed
<1>2. Earlier # None
  BY NoneAssumption DEF Writers
<1> QED
  BY <1>1, <1>2, NoneAssumption DEF Init, Published!Init, Tables, Writers

(* A step of one upload leaves the outcomes of the others alone, commits   *)
(* of its own included.                                                    *)
LEMMA OthersOutcomes ==
  ASSUME TypeOK, NEW u \in Uploads, NEW step, Goto(u, step),
         log' = log \/ log' = Append(log, u)
  PROVE  \A v \in Uploads \ {u} : OutcomeOf(v)' = OutcomeOf(v)
<1> SUFFICES ASSUME NEW v \in Uploads \ {u} PROVE OutcomeOf(v)' = OutcomeOf(v)
  OBVIOUS
<1>1. pc'[v] = pc[v]
  BY DEF TypeOK, Goto
<1>2. (\E i \in DOMAIN log' : log'[i] = v) <=> (\E i \in DOMAIN log : log[i] = v)
  BY Appended DEF TypeOK
<1> QED
  BY <1>1, <1>2 DEF OutcomeOf, Failed

(* What a step does to the outcome of its upload, as the whole mapping.    *)
LEMMA OutcomesAfter ==
  ASSUME NEW u \in Uploads, \A v \in Uploads \ {u} : OutcomeOf(v)' = OutcomeOf(v)
  PROVE  [v \in Uploads |-> OutcomeOf(v)]'
           = [[v \in Uploads |-> OutcomeOf(v)] EXCEPT ![u] = OutcomeOf(u)']
OBVIOUS

(* Nobody sees the steps up to a commit, but for a table that is created.  *)
LEMMA QuietRefines ==
  ASSUME IInv, History, NEW u \in Uploads,
         \/ EnsureNamespace(u) \/ LoadTable(u) \/ TableMissing(u) \/ Stage(u)
         \/ StageFails(u) \/ CommitFails(u)
  PROVE  UNCHANGED Published!tableVars
<1>1. TypeOK
  BY DEF IInv
<1>2. table' = table /\ log' = log
  BY DEF EnsureNamespace, LoadTable, TableMissing, Stage, StageFails, CommitFails
<1>3. OutcomeOf(u)' = OutcomeOf(u)
  BY <1>1
  DEF TypeOK, OutcomeOf, Failed, Goto, EnsureNamespace, LoadTable, TableMissing, Stage, StageFails,
      CommitFails
<1>4. \A v \in Uploads \ {u} : OutcomeOf(v)' = OutcomeOf(v)
  BY <1>1, OthersOutcomes
  DEF EnsureNamespace, LoadTable, TableMissing, Stage, StageFails, CommitFails
<1> QED
  BY <1>2, <1>3, <1>4 DEF Published!tableVars

(* A table appears where there was none. *)
LEMMA CreateRefines ==
  ASSUME IInv, History, NEW u \in Uploads, CreateTable(u)
  PROVE  Published!Create(u)
<1>1. TypeOK /\ pc[u] = "creating" /\ log' = log
  BY DEF IInv, CreateTable
<1>2. OutcomeOf(u) = "open" /\ OutcomeOf(u)' = "open"
  BY <1>1 DEF History, CommitsOnce, BeforeCommit, OutcomeOf, Failed, TypeOK, CreateTable, Goto
<1>3. \A v \in Uploads : OutcomeOf(v)' = OutcomeOf(v)
  BY <1>1, <1>2, OthersOutcomes DEF CreateTable
<1>4. table = None /\ table' # None /\ table'.owner = u /\ table'.rows = {}
  <2>1. NewTable(u) \in Tables
    BY <1>1 DEF TypeOK, NewTable, Tables, Writers
  <2> QED
    BY <2>1, NoneAssumption DEF CreateTable, NewTable
<1> QED
  BY <1>2, <1>3, <1>4 DEF Published!Create

(* A table appears of which its creator will never know. *)
LEMMA UnansweredRefines ==
  ASSUME IInv, History, NEW u \in Uploads, CreateAnswerLost(u)
  PROVE  Published!FailCreating(u)
<1> DEFINE Outcome == [v \in Uploads |-> OutcomeOf(v)]
<1>1. TypeOK /\ pc[u] = "creating" /\ log' = log
  BY DEF IInv, CreateAnswerLost
<1>2. OutcomeOf(u) = "open" /\ OutcomeOf(u)' = "failed"
  BY <1>1
  DEF History, CommitsOnce, BeforeCommit, OutcomeOf, Failed, TypeOK, CreateAnswerLost, Goto
<1>3. Outcome' = [Outcome EXCEPT ![u] = "failed"]
  BY <1>1, <1>2, OthersOutcomes, OutcomesAfter DEF CreateAnswerLost
<1>4. table = None /\ table' # None /\ table'.owner = u /\ table'.rows = {}
  <2>1. NewTable(u) \in Tables
    BY <1>1 DEF TypeOK, NewTable, Tables, Writers
  <2> QED
    BY <2>1, NoneAssumption DEF CreateAnswerLost, NewTable
<1> QED
  BY <1>2, <1>3, <1>4 DEF Published!FailCreating, Published!Becomes

(* A commit shows all of the data at once, even if its answer is lost.     *)
LEMMA WriteRefines ==
  ASSUME IInv, History, NEW u \in Uploads, Commit(u) \/ CommitAnswerLost(u)
  PROVE  Published!Publish(u)
<1> DEFINE Outcome == [v \in Uploads |-> OutcomeOf(v)]
<1>1. TypeOK /\ pc[u] = "committing" /\ log' = Append(log, u) /\ Unchanged(u)
  BY DEF IInv, Commit, CommitAnswerLost
<1>2. OutcomeOf(u) = "open" /\ OutcomeOf(u)' = "published"
  <2>1. OutcomeOf(u) = "open"
    BY <1>1 DEF History, CommitsOnce, BeforeCommit, OutcomeOf, Failed
  <2>2. \E i \in DOMAIN log' : log'[i] = u
    BY <1>1, Appended DEF TypeOK
  <2>3. pc'[u] \in {"committed", "failing"}
    BY <1>1 DEF TypeOK, Commit, CommitAnswerLost, Goto
  <2> QED
    BY <2>1, <2>2, <2>3 DEF OutcomeOf, Failed
<1>3. Outcome' = [Outcome EXCEPT ![u] = "published"]
  BY <1>1, <1>2, OthersOutcomes, OutcomesAfter DEF Commit, CommitAnswerLost
<1>4. table # None /\ table' # None /\ table'.owner = table.owner /\ table'.rows = {u}
  BY <1>1, WrittenRows DEF Commit, CommitAnswerLost
<1>5. table.owner # None
  BY <1>1, <1>4, NoneAssumption DEF TypeOK, Tables
<1> QED
  BY <1>2, <1>3, <1>4, <1>5 DEF Published!Publish, Published!Becomes

(* The outcome is told: success only to an upload that has committed.      *)
LEMMA OutcomeRefines ==
  ASSUME IInv, History, NEW u \in Uploads,
         \/ Refresh(u) \/ RefreshFails(u) \/ CreateFails(u) \/ CleanUpFails(u) \/ CallFails(u)
         \/ CleanUp(u) /\ ~created[u]
  PROVE  Published!Succeed(u) \/ Published!Fail(u)
<1> DEFINE Outcome == [v \in Uploads |-> OutcomeOf(v)]
<1>1. TypeOK /\ table' = table /\ log' = log
  BY DEF IInv, Refresh, RefreshFails, CreateFails, CleanUpFails, CallFails, CleanUp
<1>2. \A v \in Uploads \ {u} : OutcomeOf(v)' = OutcomeOf(v)
  BY <1>1, OthersOutcomes
  DEF Refresh, RefreshFails, CreateFails, CleanUpFails, CallFails, CleanUp
<1>3. Outcome' = [Outcome EXCEPT ![u] = OutcomeOf(u)']
  BY <1>2, OutcomesAfter
<1>4. CASE Refresh(u)
  <2>1. OutcomeOf(u) = "published" /\ OutcomeOf(u)' = "success"
    BY <1>1, <1>4 DEF History, HeadIsLater, OutcomeOf, Failed, TypeOK, Refresh, Goto
  <2> QED
    BY <1>1, <1>3, <2>1 DEF Published!Succeed, Published!Becomes
<1>5. CASE ~Refresh(u)
  <2>1. OutcomeOf(u) \in {"open", "published"} /\ OutcomeOf(u)' = "failed"
    BY <1>1, <1>5
    DEF OutcomeOf, Failed, TypeOK, RefreshFails, CreateFails, CleanUpFails, CallFails, CleanUp, Goto
  <2> QED
    BY <1>1, <1>3, <2>1 DEF Published!Fail, Published!Pending, Published!Becomes
<1> QED
  BY <1>4, <1>5

(* What a failed upload drops is the table it made. *)
LEMMA CleanUpRefines ==
  ASSUME IInv, History, NEW u \in Uploads, CleanUp(u), created[u]
  PROVE  Published!Withdraw(u)
<1> DEFINE Outcome == [v \in Uploads |-> OutcomeOf(v)]
<1>1. TypeOK /\ pc[u] = "failing" /\ table # None /\ table.owner = u /\ table' = None
  BY DEF IInv, Owned, CleanUp
<1>2. OutcomeOf(u) \in {"open", "published"} /\ OutcomeOf(u)' = "failed"
  BY <1>1 DEF OutcomeOf, Failed, TypeOK, CleanUp, Goto
<1>3. Outcome' = [Outcome EXCEPT ![u] = "failed"]
  BY <1>1, <1>2, OthersOutcomes, OutcomesAfter DEF CleanUp
<1> QED
  BY <1>1, <1>2, <1>3 DEF Published!Withdraw, Published!Pending, Published!Becomes

(* Every step of the uploads is a step or a stutter of the table. *)
LEMMA NextRefines == IInv /\ History /\ [Next]_vars => [Published!Next]_(Published!tableVars)
<1> SUFFICES ASSUME IInv, History, [Next]_vars PROVE [Published!Next]_(Published!tableVars)
  OBVIOUS
<1>1. CASE UNCHANGED vars \/ AllEnded
  BY <1>1 DEF vars, AllEnded, Published!tableVars, OutcomeOf, Failed
<1>2. ASSUME NEW u \in Uploads, Upload(u) PROVE [Published!Next]_(Published!tableVars)
  <2>1. \/ UNCHANGED Published!tableVars
        \/ Published!Create(u) \/ Published!FailCreating(u) \/ Published!Publish(u)
        \/ Published!Succeed(u) \/ Published!Fail(u) \/ Published!Withdraw(u)
    BY <1>2, QuietRefines, CreateRefines, UnansweredRefines, WriteRefines, OutcomeRefines, CleanUpRefines DEF Upload
  <2> QED
    BY <2>1 DEF Published!Next
<1> QED
  BY <1>1, <1>2 DEF Next

(* For any uploads and columns, and whatever fails, the calls to the       *)
(* catalog implement a table that each upload publishes to in one step, at *)
(* most once, and that only its failing creator takes back.                *)
THEOREM Refinement == Spec => ImplementsPublishedTable
BY InitRefines, NextRefines, Invariance, HistoryHolds, PTL
DEF Spec, ImplementsPublishedTable, Published!Spec
==============================================================================
