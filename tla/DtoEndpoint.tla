----------------------------- MODULE DtoEndpoint -----------------------------
(***************************************************************************)
(* POST /dto/avro-ocf (src/app/api/v1/dto.py): generated data goes to an   *)
(* S3 object, then to an Iceberg table, each if it is configured; one may  *)
(* fail without the other.  All requests here carry the same namespace and *)
(* title, so they meet at the same object and the same table.              *)
(*                                                                         *)
(* The Iceberg half of each request is an upload of IcebergUpload; the     *)
(* slots and the event loop are in ServiceLoop.                            *)
(***************************************************************************)
EXTENDS Naturals, Sequences, FiniteSets, SequencesExt

CONSTANTS Requests, Columns, Earlier, None,
          Flaky        (* catalog, storage and network calls may fail *)

VARIABLES
    configured,  (* the destinations the settings name                  *)
    stage,       (* how far each request's handler is                   *)
    s3,          (* the status in s3_file_upload                        *)
    iceberg,     (* the status in iceberg_upload                        *)
    answer,      (* what the client got                                 *)
    puts,        (* the requests whose object S3 stored, in order       *)
    overlapped,  (* two requests have been delivering at the same time  *)
    pc, schema, table, base, created, reported, log

handlerVars == <<configured, stage, s3, iceberg, answer, puts, overlapped>>
catalogVars == <<pc, schema, table, base, created, reported, log>>
vars == <<handlerVars, catalogVars>>

Iceberg == INSTANCE IcebergUpload WITH Uploads <- Requests

ASSUME EarlierAssumption == Earlier \notin Requests
ASSUME FlakyAssumption == Flaky \in BOOLEAN
ASSUME NoneAssumption == None \notin Iceberg!Writers \cup Iceberg!Tables

Destinations == {"s3", "iceberg"}
Statuses == {"skipped", "success", "failed"}
(* 503; 500 of the pipeline; 500 of both uploads; 201 with either message *)
Answers == {"unavailable", "error", "both_failed", "partial_success", "ok"}

HandlersTyped ==
    /\ configured \subseteq Destinations
    /\ stage \in [Requests -> {"new", "bucket", "object", "table", "answered"}]
    /\ s3 \in [Requests -> Statuses]
    /\ iceberg \in [Requests -> Statuses]
    /\ answer \in [Requests -> Answers \cup {"none"}]
    /\ puts \in Seq(Requests)
    /\ overlapped \in BOOLEAN

TypeOK == HandlersTyped /\ Iceberg!TypeOK

Init ==
    /\ configured \in SUBSET Destinations
    /\ stage = [r \in Requests |-> "new"]
    /\ s3 = [r \in Requests |-> "skipped"]
    /\ iceberg = [r \in Requests |-> "skipped"]
    /\ answer = [r \in Requests |-> "none"]
    /\ puts = <<>>
    /\ overlapped = FALSE
    /\ Iceberg!Init

Goto(r, step) == stage' = [stage EXCEPT ![r] = step]

Delivering == {r \in Requests : stage[r] \in {"bucket", "object", "table"}}

-----------------------------------------------------------------------------
(* The generation: no destination at all, WorkerCapacityError or           *)
(* GenerationError end the request.                                        *)

PipelineEnds(r) ==
    /\ stage[r] = "new"
    /\ \E a \in {"unavailable", "error"} :
          /\ configured = {} => a = "error"
          /\ answer' = [answer EXCEPT ![r] = a]
    /\ Goto(r, "answered")
    /\ UNCHANGED <<configured, s3, iceberg, puts, overlapped, catalogVars>>

Generated(r) ==
    /\ stage[r] = "new"
    /\ configured # {}
    /\ Goto(r, IF "s3" \in configured THEN "bucket" ELSE "table")
    /\ overlapped' = (overlapped \/ Delivering # {})
    /\ UNCHANGED <<configured, s3, iceberg, answer, puts, catalogVars>>

-----------------------------------------------------------------------------
(* S3Destination.submit() *)

HeadBucket(r) ==
    /\ stage[r] = "bucket"
    /\ Goto(r, "object")
    /\ UNCHANGED <<configured, s3, iceberg, answer, puts, overlapped, catalogVars>>

(* Seeded fault: the put is started and not awaited. *)
PutObjectUnawaited(r) ==
    /\ stage[r] = "object"
    /\ \/ puts' = Append(puts, r)
       \/ UNCHANGED puts
    /\ s3' = [s3 EXCEPT ![r] = "success"]
    /\ Goto(r, "table")
    /\ UNCHANGED <<configured, iceberg, answer, overlapped, catalogVars>>

PutObject(r) ==
    /\ stage[r] = "object"
    /\ puts' = Append(puts, r)
    /\ s3' = [s3 EXCEPT ![r] = "success"]
    /\ Goto(r, "table")
    /\ UNCHANGED <<configured, iceberg, answer, overlapped, catalogVars>>

(* Seeded fault: the exception handler leaves the base case in place. *)
S3FailsUnrecorded(r) ==
    /\ Flaky
    /\ stage[r] \in {"bucket", "object"}
    /\ puts' \in {puts} \cup (IF stage[r] = "object" THEN {Append(puts, r)} ELSE {})
    /\ Goto(r, "table")
    /\ UNCHANGED <<configured, s3, iceberg, answer, overlapped, catalogVars>>

(* The bucket is missing or a call fails; a put whose answer is lost may    *)
(* have stored the object.                                                 *)
S3Fails(r) ==
    /\ Flaky
    /\ stage[r] \in {"bucket", "object"}
    /\ puts' \in {puts} \cup (IF stage[r] = "object" THEN {Append(puts, r)} ELSE {})
    /\ s3' = [s3 EXCEPT ![r] = "failed"]
    /\ Goto(r, "table")
    /\ UNCHANGED <<configured, iceberg, answer, overlapped, catalogVars>>

-----------------------------------------------------------------------------
(* IcebergDestination.submit(), then the answer. *)

(* The handler starts the upload's thread, which then runs by itself. *)
UploadStep(r) ==
    /\ "iceberg" \in configured
    /\ stage[r] = "table" \/ pc[r] # "idle"
    /\ Iceberg!Upload(r)
    /\ UNCHANGED handlerVars

Message(s, i) ==
    IF s = "failed" /\ i = "failed" THEN "both_failed"
    ELSE IF "failed" \in {s, i} THEN "partial_success"
    ELSE "ok"

(* Seeded fault: the status of one upload is sent in the place of the message. *)
RespondStatus(r, outcome) ==
    /\ iceberg' = [iceberg EXCEPT ![r] = outcome]
    /\ answer' = [answer EXCEPT ![r] = outcome]
    /\ Goto(r, "answered")
    /\ UNCHANGED <<configured, s3, puts, overlapped, catalogVars>>

Respond(r, outcome) ==
    /\ iceberg' = [iceberg EXCEPT ![r] = outcome]
    /\ answer' = [answer EXCEPT ![r] = Message(s3[r], outcome)]
    /\ Goto(r, "answered")
    /\ UNCHANGED <<configured, s3, puts, overlapped, catalogVars>>

(* Seeded fault: the handler does not await the upload's thread. *)
UploadEndsUnawaited(r) ==
    /\ stage[r] = "table"
    /\ "iceberg" \in configured
    /\ pc[r] # "idle"
    /\ Respond(r, IF pc[r] = "failing" \/ Iceberg!Failed(r) THEN "failed" ELSE "success")

UploadEnds(r) ==
    /\ stage[r] = "table"
    /\ "iceberg" \in configured
    /\ Iceberg!Ended(r)
    /\ Respond(r, IF pc[r] = "success" THEN "success" ELSE "failed")

NoUpload(r) ==
    /\ stage[r] = "table"
    /\ "iceberg" \notin configured
    /\ Respond(r, "skipped")

Handle(r) ==
    \/ HeadBucket(r) \/ PutObject(r) \/ S3Fails(r)
    \/ UploadStep(r) \/ UploadEnds(r) \/ NoUpload(r)

AllAnswered == (\A r \in Requests : stage[r] = "answered") /\ UNCHANGED vars

Next ==
    \/ \E r \in Requests : PipelineEnds(r) \/ Generated(r) \/ Handle(r)
    \/ AllAnswered

SafeSpec == Init /\ [][Next]_vars

(* Calls to S3 and to the catalog return or fail, and threads run. *)
Spec == SafeSpec /\ \A r \in Requests : WF_vars(Handle(r))
-----------------------------------------------------------------------------
(* Properties. *)

(* An answer of "ok" or a SUCCESS status tells of stores that hold the      *)
(* data, or have held it: "ok" means every configured destination, and no  *)
(* write is reported before it is made (l.73-132).                         *)
OkMeansStored ==
    \A r \in Requests :
       /\ answer[r] = "ok" => /\ "s3" \in configured => r \in Range(puts)
                              /\ "iceberg" \in configured => r \in Range(log)
       /\ s3[r] = "success" => r \in Range(puts)
       /\ iceberg[r] = "success" => r \in Range(log)

(* A request that failed in the pipeline left nothing in either store, and *)
(* an answered one no longer writes: its thread does not commit later.     *)
NoLateWrites ==
    [][\A r \in Requests :
          stage[r] \in {"new", "answered"} =>
             (r \in Range(puts') => r \in Range(puts)) /\ pc'[r] = pc[r]]_vars

(* Requests that do not overlap leave the two stores in agreement: when    *)
(* every answer with data was "ok", the object and the table hold the data *)
(* of the same request.                                                    *)
StoresAgree ==
    /\ configured = Destinations
    /\ ~overlapped
    /\ Delivering = {}
    /\ puts # <<>>
    /\ \A r \in Requests : answer[r] \notin {"partial_success", "both_failed"}
    => table # None /\ table.rows = {Last(puts)}

(* Every request whose data was generated is answered, whichever of the    *)
(* uploads fail.                                                           *)
RequestAnswered == \A r \in Requests : r \in Delivering ~> stage[r] = "answered"

-----------------------------------------------------------------------------
(* What the source says of the answer and the code does not do. *)

(* dto.py:131, "Both upload destinations failed.": neither store holds     *)
(* this request's data.                                                    *)
BothFailedStoresNothing ==
    \A r \in Requests : answer[r] = "both_failed" => r \notin Range(puts) \cup Range(log)
==============================================================================
