-------------------------- MODULE DtoEndpointProofs --------------------------
(***************************************************************************)
(* What the client of POST /dto/avro-ocf may believe, for any requests and *)
(* columns, under every configuration and whatever calls fail.             *)
(*                                                                         *)
(* The uploads of the requests are uploads of IcebergUpload, so that all   *)
(* that IcebergUploadProofs proves holds of them here.  On top of it, what *)
(* is needed is that an upload runs only while its handler waits for it    *)
(* (Handling), how the statuses and the answer follow from one another     *)
(* (Told), and, for requests that come one after the other (OneByOne), how *)
(* far behind the object the table may be at each stage (Synced).          *)
(***************************************************************************)
EXTENDS DtoEndpoint, TLAPS

Proved == INSTANCE IcebergUploadProofs WITH Uploads <- Requests

-----------------------------------------------------------------------------
(* The uploads are those of IcebergUpload. *)

(* Both instances of IcebergUpload are the same specification. *)
LEMMA SameUploads ==
  /\ Iceberg!Init <=> Proved!Init
  /\ \A r \in Requests : Iceberg!Upload(r) <=> Proved!Upload(r)
  /\ Iceberg!TypeOK <=> Proved!TypeOK
<1>1. Iceberg!Init <=> Proved!Init
  BY DEF Iceberg!Init, Iceberg!Schemas, Iceberg!NoBase, Proved!Init, Proved!Schemas, Proved!NoBase
<1>2. \A r \in Requests : Iceberg!Upload(r) <=> Proved!Upload(r)
  BY DEF Iceberg!Upload, Iceberg!EnsureNamespace, Iceberg!LoadTable, Iceberg!TableMissing,
         Iceberg!CreateTable, Iceberg!CreateFails, Iceberg!CreateAnswerLost, Iceberg!Stage, Iceberg!StageFails,
         Iceberg!Commit, Iceberg!CommitFails, Iceberg!CommitAnswerLost, Iceberg!CleanUp,
         Iceberg!CleanUpFails, Iceberg!Refresh, Iceberg!RefreshFails, Iceberg!CallFails,
         Iceberg!Goto, Iceberg!NewTable, Iceberg!Unchanged, Iceberg!Written,
         Proved!Upload, Proved!EnsureNamespace, Proved!LoadTable, Proved!TableMissing,
         Proved!CreateTable, Proved!CreateFails, Proved!CreateAnswerLost, Proved!Stage, Proved!StageFails,
         Proved!Commit, Proved!CommitFails, Proved!CommitAnswerLost, Proved!CleanUp,
         Proved!CleanUpFails, Proved!Refresh, Proved!RefreshFails, Proved!CallFails,
         Proved!Goto, Proved!NewTable, Proved!Unchanged, Proved!Written
<1>3. Iceberg!TypeOK <=> Proved!TypeOK
  BY DEF Iceberg!TypeOK, Iceberg!Progress, Iceberg!Tables, Iceberg!Writers, Iceberg!Schemas,
         Iceberg!NoBase, Proved!TypeOK, Proved!Progress, Proved!Tables, Proved!Writers,
         Proved!Schemas, Proved!NoBase
<1> QED
  BY <1>1, <1>2, <1>3

(* The handlers move the uploads only by the uploads' own steps. *)
LEMMA StepsAreUploads ==
  [Next]_vars => [Iceberg!Next]_(Iceberg!vars) /\ [Proved!Next]_(Proved!vars)
<1> SUFFICES ASSUME [Next]_vars
             PROVE  UNCHANGED catalogVars \/ \E r \in Requests : Iceberg!Upload(r)
  BY SameUploads DEF catalogVars, Iceberg!Next, Iceberg!vars, Proved!Next, Proved!vars
<1>1. ASSUME NEW r \in Requests, PipelineEnds(r) \/ Generated(r) \/ Handle(r)
      PROVE  Iceberg!Upload(r) \/ UNCHANGED catalogVars
  BY <1>1
  DEF PipelineEnds, Generated, Handle, HeadBucket, PutObject, S3Fails, UploadStep,
      UploadEnds, NoUpload, Respond
<1>2. CASE UNCHANGED vars \/ AllAnswered
  BY <1>2 DEF vars, AllAnswered
<1> QED
  BY <1>1, <1>2 DEF Next

(* A run of the endpoint is, for the catalog, a run of IcebergUpload: the  *)
(* handlers use the destination in the way its specification says (l.110). *)
THEOREM UploadsAsSpecified == SafeSpec => Iceberg!Spec
<1>1. Init => Iceberg!Init
  BY DEF Init
<1> QED
  BY <1>1, StepsAreUploads, PTL DEF SafeSpec, Iceberg!Spec

(* So what is proved of the uploads holds of them here. *)
LEMMA UploadsHold == SafeSpec => [](Proved!IInv /\ Proved!History)
<1>1. Init => Proved!Init
  BY SameUploads DEF Init
<1>2. SafeSpec => Proved!Spec
  BY <1>1, StepsAreUploads, PTL DEF SafeSpec, Proved!Spec
<1>3. Proved!Spec => []Proved!IInv /\ []Proved!History
  BY EarlierAssumption, FlakyAssumption, NoneAssumption, Proved!Invariance, Proved!HistoryHolds
  DEF Iceberg!Tables, Iceberg!Writers, Iceberg!Schemas,
      Proved!Tables, Proved!Writers, Proved!Schemas
<1> QED
  BY <1>2, <1>3, PTL

(* Whatever the requests of the endpoint do, readers of the table see the  *)
(* whole data of one of them or of whatever was there before, and an       *)
(* upload shows its data once, before its outcome is known (l.103-123).    *)
THEOREM TableIsPublished == SafeSpec => Iceberg!ImplementsPublishedTable
<1>1. SafeSpec => Proved!Spec
  <2>1. Init => Proved!Init
    BY SameUploads DEF Init
  <2> QED
    BY <2>1, StepsAreUploads, PTL DEF SafeSpec, Proved!Spec
<1>2. Proved!Spec => Proved!ImplementsPublishedTable
  BY EarlierAssumption, FlakyAssumption, NoneAssumption, Proved!Refinement
  DEF Iceberg!Tables, Iceberg!Writers, Iceberg!Schemas,
      Proved!Tables, Proved!Writers, Proved!Schemas
<1>3. Proved!Published!Init <=> Iceberg!Published!Init
  BY DEF Proved!Published!Init, Iceberg!Published!Init, Proved!OutcomeOf, Proved!Failed, Iceberg!OutcomeOf,
         Iceberg!Failed
<1>4. [Proved!Published!Next]_(Proved!Published!tableVars)
        <=> [Iceberg!Published!Next]_(Iceberg!Published!tableVars)
  BY DEF Proved!Published!Next, Iceberg!Published!Next,
         Proved!Published!tableVars, Iceberg!Published!tableVars,
         Proved!Published!Create, Iceberg!Published!Create,
         Proved!Published!FailCreating, Iceberg!Published!FailCreating,
         Proved!Published!Publish, Iceberg!Published!Publish,
         Proved!Published!Succeed, Iceberg!Published!Succeed,
         Proved!Published!Fail, Iceberg!Published!Fail,
         Proved!Published!Withdraw, Iceberg!Published!Withdraw,
         Proved!Published!Pending, Iceberg!Published!Pending,
         Proved!Published!Becomes, Iceberg!Published!Becomes,
         Proved!OutcomeOf, Proved!Failed, Iceberg!OutcomeOf, Iceberg!Failed
<1> QED
  BY <1>1, <1>2, <1>3, <1>4, PTL
  DEF Proved!ImplementsPublishedTable, Iceberg!ImplementsPublishedTable,
      Proved!Published!Spec, Iceberg!Published!Spec

(* A step of an upload: nothing is left to do for one that has ended, a    *)
(* commit leaves the table with this request's data, and success follows   *)
(* a commit with the table as it is.                                       *)
LEMMA UploadMoves ==
  ASSUME Proved!IInv, NEW r \in Requests, Iceberg!Upload(r)
  PROVE  /\ pc[r] \notin {"success", "failed", "undropped", "unanswered"}
         /\ pc'[r] # "idle"
         /\ \A q \in Requests \ {r} : pc'[q] = pc[q]
         /\ pc'[r] = "committed" => table' # None /\ table'.rows = {r}
         /\ pc'[r] = "success" => pc[r] = "committed" /\ table' = table
<1>1. pc \in [Requests -> Proved!Progress] /\ Proved!Upload(r)
  BY SameUploads DEF Proved!IInv, Proved!TypeOK
<1>2. CASE Proved!Commit(r)
  <2>1. Proved!Written(r) # None /\ Proved!Written(r).rows = {r}
    BY <1>2, EarlierAssumption, FlakyAssumption, NoneAssumption, Proved!WrittenRows
    DEF Proved!Commit, Iceberg!Tables, Iceberg!Writers, Iceberg!Schemas,
        Proved!Tables, Proved!Writers, Proved!Schemas
  <2> QED
    BY <1>1, <1>2, <2>1 DEF Proved!Commit, Proved!Goto
<1>3. CASE ~Proved!Commit(r)
  BY <1>1, <1>3
  DEF Proved!Upload, Proved!EnsureNamespace, Proved!LoadTable, Proved!TableMissing,
      Proved!CreateTable, Proved!CreateFails, Proved!CreateAnswerLost, Proved!Stage, Proved!StageFails,
      Proved!CommitFails, Proved!CommitAnswerLost, Proved!CleanUp, Proved!CleanUpFails,
      Proved!Refresh, Proved!RefreshFails, Proved!CallFails, Proved!Goto
<1> QED
  BY <1>2, <1>3

-----------------------------------------------------------------------------
(* The handlers. *)

Over(r) == pc[r] \in {"success", "failed", "undropped", "unanswered"}

(* An upload runs only while its handler waits for it, and what is decided *)
(* at a later stage has not been decided yet.                              *)
Handling ==
    \A r \in Requests :
       /\ pc[r] # "idle" => /\ "iceberg" \in configured
                            /\ stage[r] = "table" \/ stage[r] = "answered"
                            /\ stage[r] = "answered" => Over(r)
       /\ stage[r] # "answered" => answer[r] = "none" /\ iceberg[r] = "skipped"
       /\ stage[r] = "table" /\ "s3" \in configured => s3[r] # "skipped"

(* What the statuses and the answer stand for. *)
Told ==
    \A r \in Requests :
       /\ s3[r] = "success" => r \in Range(puts)
       /\ iceberg[r] = "success" => pc[r] = "success"
       /\ answer[r] = "ok" => /\ "s3" \in configured => s3[r] = "success"
                              /\ "iceberg" \in configured => iceberg[r] = "success"

OneByOne == ~overlapped => \A r, q \in Delivering : r = q

(* Requests have come one after the other, and each stored its data twice. *)
Smooth ==
    /\ configured = Destinations
    /\ ~overlapped
    /\ \A r \in Requests : answer[r] \notin {"partial_success", "both_failed"}

(* The stores agree but between a request's put and the commit of its      *)
(* upload; the object is then already that of the request at the table.    *)
Synced ==
    Smooth =>
       /\ (\A r \in Requests : stage[r] # "table") /\ puts # <<>>
             => table # None /\ table.rows = {Last(puts)}
       /\ \A r \in Requests : stage[r] = "table" =>
             /\ s3[r] = "success" => puts # <<>> /\ Last(puts) = r
             /\ pc[r] \in {"committed", "success"} => table # None /\ table.rows = {r}

(* Together with Proved!IInv, what is inductive. *)
IInv ==
    /\ HandlersTyped
    /\ Handling
    /\ Told
    /\ OneByOne
    /\ Synced

(* No request has reached a store yet. *)
LEMMA InitIInv == Init => IInv
<1> SUFFICES ASSUME Init PROVE IInv
  OBVIOUS
<1> USE DEF Init
<1>1. HandlersTyped
  <2>1. puts \in Seq(Requests)
    OBVIOUS
  <2> QED
    BY <2>1 DEF HandlersTyped, Statuses, Answers
<1>2. pc = [r \in Requests |-> "idle"]
  BY DEF Iceberg!Init
<1>3. Handling /\ Told
  BY <1>2 DEF Handling, Told
<1>4. OneByOne /\ Synced
  BY <1>2 DEF OneByOne, Synced, Delivering
<1> QED
  BY <1>1, <1>3, <1>4 DEF IInv

(* The object that a put stores is the latest, and earlier ones count too. *)
LEMMA Stored ==
  ASSUME HandlersTyped, NEW r \in Requests
  PROVE  /\ Append(puts, r) \in Seq(Requests) /\ Append(puts, r) # <<>>
         /\ Last(Append(puts, r)) = r
         /\ \A q \in Requests : q \in Range(Append(puts, r)) <=> q = r \/ q \in Range(puts)
<1>1. puts \in Seq(Requests)
  BY DEF HandlersTyped
<1>2. \A q \in Range(puts) : q \in Range(Append(puts, r))
  BY <1>1 DEF Range
<1>3. r \in Range(Append(puts, r))
  <2>1. Len(puts) + 1 \in DOMAIN Append(puts, r) /\ Append(puts, r)[Len(puts) + 1] = r
    BY <1>1
  <2> QED
    BY <2>1 DEF Range
<1>4. \A q \in Range(Append(puts, r)) : q = r \/ q \in Range(puts)
  BY <1>1 DEF Range
<1> QED
  BY <1>1, <1>2, <1>3, <1>4 DEF Last

(* A request that ends in the pipeline. *)
LEMMA PipelineIInv ==
  ASSUME IInv, NEW r \in Requests, PipelineEnds(r)
  PROVE  IInv'
<1> USE DEF IInv, PipelineEnds, Goto, catalogVars
<1>1. HandlersTyped'
  BY DEF HandlersTyped, Answers
<1>2. Handling' /\ Told'
  BY DEF Handling, Told, Over, HandlersTyped
<1>3. OneByOne'
  BY DEF OneByOne, Delivering, HandlersTyped
<1>4. Synced'
  BY DEF Synced, Smooth, Handling, HandlersTyped
<1> QED
  BY <1>1, <1>2, <1>3, <1>4

(* A request that begins to deliver while another does overlaps it. *)
LEMMA GeneratedIInv ==
  ASSUME IInv, NEW r \in Requests, Generated(r)
  PROVE  IInv'
<1> USE DEF IInv, Generated, Goto, catalogVars
<1>1. HandlersTyped'
  BY DEF HandlersTyped
<1>2. Handling' /\ Told'
  BY DEF Handling, Told, Over, HandlersTyped
<1>3. OneByOne'
  BY DEF OneByOne, Delivering, HandlersTyped
<1>4. Synced'
  BY DEF Synced, Smooth, Handling, HandlersTyped, Destinations
<1> QED
  BY <1>1, <1>2, <1>3, <1>4

(* S3, from one stage to the next. *)
LEMMA S3IInv ==
  ASSUME IInv, NEW r \in Requests, HeadBucket(r) \/ PutObject(r) \/ S3Fails(r)
  PROVE  IInv'
<1> USE DEF IInv, Goto, catalogVars
<1>1. HandlersTyped'
  <2>1. CASE HeadBucket(r)
    BY <2>1 DEF HandlersTyped, HeadBucket
  <2>2. CASE PutObject(r)
    BY <2>2, Stored DEF HandlersTyped, PutObject, Statuses
  <2>3. CASE S3Fails(r)
    BY <2>3, Stored DEF HandlersTyped, S3Fails, Statuses
  <2> QED
    BY <2>1, <2>2, <2>3
<1>2. Handling' /\ Told'
  <2>1. \A q \in Requests : q \in Range(puts) => q \in Range(puts')
    BY Stored DEF HeadBucket, PutObject, S3Fails
  <2>2. PutObject(r) => r \in Range(puts')
    BY Stored DEF PutObject
  <2>3. Handling'
    BY DEF Handling, Over, HandlersTyped, HeadBucket, PutObject, S3Fails
  <2>4. Told'
    BY <2>1, <2>2 DEF Handling, Told, HandlersTyped, HeadBucket, PutObject, S3Fails
  <2> QED
    BY <2>3, <2>4
<1>3. OneByOne'
  BY DEF OneByOne, Delivering, HandlersTyped, HeadBucket, PutObject, S3Fails
<1>4. Synced'
  <2> SUFFICES ASSUME Smooth' PROVE Synced'
    BY DEF Synced
  <2>1. Smooth /\ r \in Delivering /\ \A q \in Requests : stage[q] = "table" => q = r
    BY DEF Smooth, HeadBucket, PutObject, S3Fails, OneByOne, Delivering
  <2>2. CASE HeadBucket(r)
    BY <2>1, <2>2 DEF Synced, HandlersTyped, HeadBucket
  <2>3. CASE PutObject(r)
    BY <2>1, <2>3, Stored DEF Synced, Handling, HandlersTyped, PutObject
  <2>4. CASE S3Fails(r)
    BY <2>1, <2>4 DEF Synced, Handling, HandlersTyped, S3Fails
  <2> QED
    BY <2>2, <2>3, <2>4
<1> QED
  BY <1>1, <1>2, <1>3, <1>4

(* An upload moves while its handler waits, alone if requests do not       *)
(* overlap.                                                                *)
LEMMA UploadIInv ==
  ASSUME IInv, Proved!IInv, NEW r \in Requests, UploadStep(r)
  PROVE  IInv'
<1> USE DEF IInv, UploadStep, handlerVars
<1>1. stage[r] = "table"
  BY UploadMoves DEF Handling, Over
<1>2. HandlersTyped' /\ OneByOne'
  BY DEF HandlersTyped, OneByOne, Delivering
<1>3. Handling' /\ Told'
  BY <1>1, UploadMoves DEF Handling, Told, Over
<1>4. Synced'
  BY <1>1, UploadMoves DEF Synced, Smooth, OneByOne, Delivering
<1> QED
  BY <1>2, <1>3, <1>4

(* The answer follows from what the two uploads have come to. *)
LEMMA RespondIInv ==
  ASSUME IInv, NEW r \in Requests, UploadEnds(r) \/ NoUpload(r)
  PROVE  IInv'
<1> USE DEF IInv, Goto, catalogVars
<1>1. PICK outcome \in Statuses :
         /\ Respond(r, outcome)
         /\ outcome = "success" => pc[r] = "success"
         /\ "iceberg" \in configured => outcome # "skipped" /\ Over(r)
  BY DEF UploadEnds, NoUpload, Statuses, Over, Iceberg!Ended, Iceberg!Failed
<1>2. stage[r] = "table"
  BY DEF UploadEnds, NoUpload
<1>3. Message(s3[r], outcome) \in Answers
  BY DEF Message, Answers
<1>4. HandlersTyped'
  BY <1>1, <1>3 DEF HandlersTyped, Respond
<1>5. Handling'
  BY <1>1, <1>2 DEF Handling, Over, HandlersTyped, Respond
<1>6. Told'
  BY <1>1, <1>2 DEF Told, Handling, HandlersTyped, Respond, Message, Statuses
<1>7. OneByOne'
  BY <1>1, <1>2 DEF OneByOne, Delivering, HandlersTyped, Respond
<1>8. Synced'
  BY <1>1, <1>2
  DEF Synced, Smooth, Handling, HandlersTyped, OneByOne, Delivering, Respond, Message,
      Statuses, Destinations
<1> QED
  BY <1>4, <1>5, <1>6, <1>7, <1>8

(* Every step keeps the invariant. *)
LEMMA NextIInv == IInv /\ Proved!IInv /\ [Next]_vars => IInv'
<1> SUFFICES ASSUME IInv, Proved!IInv, [Next]_vars PROVE IInv'
  OBVIOUS
<1>1. CASE UNCHANGED vars \/ AllAnswered
  BY <1>1
  DEF vars, handlerVars, catalogVars, AllAnswered, IInv, HandlersTyped, Handling, Over, Told,
      OneByOne, Delivering, Synced, Smooth
<1>2. ASSUME NEW r \in Requests, PipelineEnds(r) \/ Generated(r) \/ Handle(r) PROVE IInv'
  BY <1>2, PipelineIInv, GeneratedIInv, S3IInv, UploadIInv, RespondIInv DEF Handle
<1> QED
  BY <1>1, <1>2 DEF Next

-----------------------------------------------------------------------------

(* The inductive invariant holds in every behaviour. *)
THEOREM Invariance == SafeSpec => []IInv
BY InitIInv, NextIInv, UploadsHold, PTL DEF SafeSpec

(* Handlers, stores and uploads stay well typed. *)
THEOREM TypeCorrect == SafeSpec => []TypeOK
<1>1. IInv /\ Proved!IInv => TypeOK
  BY SameUploads DEF IInv, Proved!IInv, TypeOK
<1> QED
  BY <1>1, Invariance, UploadsHold, PTL

(* The statuses and the answer are never better than the stores (l.73-132). *)
THEOREM AnswersAreTrue == SafeSpec => []OkMeansStored
<1>1. IInv /\ Proved!History => OkMeansStored
  <2> SUFFICES ASSUME IInv, Proved!History PROVE OkMeansStored
    OBVIOUS
  <2>1. \A r \in Requests : pc[r] = "success" => r \in Range(log)
    BY DEF Proved!History, Proved!SuccessIsCommitted, Range
  <2> QED
    BY <2>1 DEF IInv, Told, OkMeansStored
<1> QED
  BY <1>1, Invariance, UploadsHold, PTL

(* Nothing is written for a request that failed in the pipeline or that    *)
(* has its answer: no thread outlives its handler's wait (l.110).          *)
THEOREM WritesAreOver == SafeSpec => NoLateWrites
<1>1. IInv /\ Proved!IInv /\ [Next]_vars =>
         \A r \in Requests :
            stage[r] \in {"new", "answered"} =>
               (r \in Range(puts') => r \in Range(puts)) /\ pc'[r] = pc[r]
  <2> SUFFICES ASSUME IInv, Proved!IInv, [Next]_vars, NEW r \in Requests,
                      stage[r] \in {"new", "answered"}
               PROVE  (r \in Range(puts') => r \in Range(puts)) /\ pc'[r] = pc[r]
    OBVIOUS
  <2>1. CASE UNCHANGED vars \/ AllAnswered
    BY <2>1 DEF vars, handlerVars, catalogVars, AllAnswered
  <2>2. ASSUME NEW q \in Requests, PipelineEnds(q) \/ Generated(q) \/ HeadBucket(q)
                                   \/ UploadEnds(q) \/ NoUpload(q)
        PROVE  UNCHANGED <<puts, pc>>
    BY <2>2
    DEF PipelineEnds, Generated, HeadBucket, UploadEnds, NoUpload, Respond, catalogVars
  <2>3. ASSUME NEW q \in Requests, PutObject(q) \/ S3Fails(q)
        PROVE  (r \in Range(puts') => r \in Range(puts)) /\ pc'[r] = pc[r]
    BY <2>3, Stored DEF IInv, PutObject, S3Fails, catalogVars
  <2>4. ASSUME NEW q \in Requests, UploadStep(q)
        PROVE  (r \in Range(puts') => r \in Range(puts)) /\ pc'[r] = pc[r]
    BY <2>4, UploadMoves DEF IInv, Handling, Over, UploadStep, handlerVars
  <2> QED
    BY <2>1, <2>2, <2>3, <2>4 DEF Next, Handle
<1> QED
  BY <1>1, Invariance, UploadsHold, PTL DEF SafeSpec, NoLateWrites

(* Requests that come one after the other and store their data twice leave *)
(* the object and the table with the data of the same request.             *)
THEOREM StoresStayTogether == SafeSpec => []StoresAgree
<1>1. IInv => StoresAgree
  BY DEF IInv, Synced, Smooth, StoresAgree, Delivering
<1> QED
  BY <1>1, Invariance, PTL
==============================================================================
