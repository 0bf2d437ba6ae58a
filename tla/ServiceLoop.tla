----------------------------- MODULE ServiceLoop -----------------------------
(***************************************************************************)
(* The request handlers of src/app on their one event loop.  A handler     *)
(* runs until its next await; worker.submit() is a plain call inside it,   *)
(* so while it waits for a slot the loop is held: no other handler, and no *)
(* probe, makes a step.  Generations end, and slots come back, on other    *)
(* threads.                                                                *)
(*                                                                         *)
(* The worker is GenerationSlots, which SyntheticWorker implements.  What  *)
(* the dto handler does with the generated data is DtoEndpoint.            *)
(***************************************************************************)
EXTENDS Naturals, FiniteSets, WebhookSchemaChange

CONSTANTS Requests,   (* the requests of a behaviour              *)
          Bodies,     (* what OpenMetadata sends: [event, change] *)
          Capacity,   (* max_pending                              *)
          Free        (* no handler holds the loop                *)

ASSUME RequestsAssumption == IsFiniteSet(Requests) /\ Free \notin Requests
ASSUME CapacityAssumption == Capacity \in Nat \ {0}

VARIABLES
    phase,    (* of the application's lifespan                             *)
    gauges,   (* the metrics are registered in the process                 *)
    kind,     (* the route each request was sent to                        *)
    body,     (* what was sent to the webhook                              *)
    stage,    (* how far its handler is                                    *)
    loop,     (* the handler that holds the event loop inside submit()     *)
    result,   (* what the generation's future holds                        *)
    answer,   (* the HTTP status sent, 0 before                            *)
    probe,    (* the readiness probe; an answer lasts to the next submit() *)
    slot, closed

app == <<phase, gauges, kind, body>>
vars == <<app, stage, loop, result, answer, probe, slot, closed>>

Slots == INSTANCE GenerationSlots WITH Tasks <- Requests

Kinds == {"table", "generate", "webhook", "dto"}
NoBody == [event |-> "none", change |-> {}]
Stages == {"new", "looking", "submitting", "awaiting", "delivering", "answered", "aborted"}
(* frame: pandas.DataFrame; arrow: pyarrow.Table *)
Results == {"none", "frame", "arrow", "error", "cancelled"}

TypeOK ==
    /\ phase \in {"down", "serving", "failed"}
    /\ gauges \in BOOLEAN
    /\ kind \in [Requests -> Kinds]
    /\ \A r \in Requests : body[r] \in IF kind[r] = "webhook" THEN Bodies ELSE {NoBody}
    /\ stage \in [Requests -> Stages]
    /\ loop \in Requests \cup {Free}
    /\ result \in [Requests -> Results]
    /\ answer \in [Requests -> {0, 200, 201, 404, 500, 503}]
    /\ probe \in {"idle", "sent", "ready", "busy"}
    /\ slot \in [Requests -> Slots!SlotStates]
    /\ closed \in BOOLEAN

Init ==
    /\ phase = "down"
    /\ gauges = FALSE
    /\ kind \in [Requests -> Kinds]
    /\ body \in [Requests -> Bodies \cup {NoBody}]
    /\ \A r \in Requests : kind[r] = "webhook" <=> body[r] # NoBody
    /\ stage = [r \in Requests |-> "new"]
    /\ loop = Free
    /\ result = [r \in Requests |-> "none"]
    /\ answer = [r \in Requests |-> 0]
    /\ probe = "idle"
    /\ Slots!Init

Goto(r, step) == stage' = [stage EXCEPT ![r] = step]

Answer(r, status) ==
    /\ answer' = [answer EXCEPT ![r] = status]
    /\ Goto(r, "answered")

-----------------------------------------------------------------------------
(* The application's lifespan. *)

(* SystemMetricsCollector registers its gauges with the process, once only. *)
CanRegister == ~gauges

(* Seeded fault: the metrics may be registered again. *)
StartAgain ==
    /\ phase = "down"
    /\ phase' = "serving"
    /\ gauges' = TRUE
    /\ UNCHANGED <<kind, body, stage, loop, result, answer, probe, slot, closed>>

(* The worker is a singleton of the process: a second start gets the one    *)
(* that was shut down, and then fails at the metrics, whose names the      *)
(* registry of the process has already.                                    *)
Start ==
    /\ phase = "down"
    /\ phase' = IF CanRegister THEN "serving" ELSE "failed"
    /\ gauges' = TRUE
    /\ UNCHANGED <<kind, body, stage, loop, result, answer, probe, slot, closed>>

-----------------------------------------------------------------------------
(* Handlers before submit(). *)

Begins(r) == phase = "serving" /\ loop = Free /\ stage[r] = "new"

(* table and dto call submit() at once. *)
BeginSubmit(r) ==
    /\ Begins(r)
    /\ kind[r] \in {"table", "dto"}
    /\ Goto(r, "submitting")
    /\ loop' = r
    /\ UNCHANGED <<app, result, answer, probe, slot, closed>>

(* generate, and a webhook that calls for data, ask for the table first. *)
AsksForData(r) ==
    \/ kind[r] = "generate"
    \/ kind[r] = "webhook" /\ body[r].event = "created"
    \/ kind[r] = "webhook" /\ body[r].event = "updated" /\ IsSchemaChange(body[r].change)

BeginLookup(r) ==
    /\ Begins(r)
    /\ AsksForData(r)
    /\ Goto(r, "looking")
    /\ UNCHANGED <<app, loop, result, answer, probe, slot, closed>>

(* No OpenMetadata client is configured, which any of its routes demands,  *)
(* or no Trino for a webhook to read from.                                 *)
Unconfigured(r) ==
    /\ Begins(r)
    /\ kind[r] \in {"generate", "webhook"}
    /\ Answer(r, 500)
    /\ UNCHANGED <<app, loop, result, probe, slot, closed>>

(* An update without schema change: the content given to JSONResponse is a *)
(* model, which it cannot render.  A test message is sent back.            *)
AnswerUnchanged(r) ==
    /\ Begins(r)
    /\ kind[r] = "webhook" /\ ~AsksForData(r)
    /\ Answer(r, IF body[r].event = "test" THEN 201 ELSE 500)
    /\ UNCHANGED <<app, loop, result, probe, slot, closed>>

LookupFound(r) ==
    /\ loop = Free
    /\ stage[r] = "looking"
    /\ Goto(r, "submitting")
    /\ loop' = r
    /\ UNCHANGED <<app, result, answer, probe, slot, closed>>

(* Seeded fault: the upstream status is passed on as it is. *)
LookupEndsRaw(r) ==
    /\ loop = Free
    /\ stage[r] = "looking"
    /\ \E status \in {404, 401, 502} : Answer(r, status)
    /\ UNCHANGED <<app, loop, result, probe, slot, closed>>

(* client.get(): a 404 is None, any other failure raises; and the name of a *)
(* webhook's table may not be in four parts.                               *)
LookupEnds(r) ==
    /\ loop = Free
    /\ stage[r] = "looking"
    /\ \E status \in {404, 500} : Answer(r, status)
    /\ UNCHANGED <<app, loop, result, probe, slot, closed>>

-----------------------------------------------------------------------------
(* worker.submit(), which holds the loop for up to five seconds. *)

(* A readiness answer says nothing any more once submit() has been called. *)
ProbeAfterSubmit == IF probe = "sent" THEN "sent" ELSE "idle"

SubmitAccepted(r) ==
    /\ loop = r
    /\ Slots!Acquire(r)
    /\ Goto(r, "awaiting")
    /\ loop' = Free
    /\ probe' = ProbeAfterSubmit
    /\ UNCHANGED <<app, result, answer>>

(* Seeded fault: submit() waits without a timeout. *)
SubmitRefusedNever(r) ==
    /\ loop = r
    /\ Cardinality(Slots!Taken) = Capacity
    /\ UNCHANGED vars

(* WorkerCapacityError, answered by worker_capacity_handler. *)
SubmitRefused(r) ==
    /\ loop = r
    /\ Slots!Refuse(r)
    /\ Answer(r, 503)
    /\ loop' = Free
    /\ probe' = ProbeAfterSubmit
    /\ UNCHANGED <<app, result>>

-----------------------------------------------------------------------------
(* Other threads: they need no turn on the loop. *)

(* Avro files give an Arrow table, the other sources a frame; a webhook's   *)
(* source is Trino.                                                         *)
Forms(r) ==
    CASE kind[r] = "dto" -> {"arrow"}
      [] kind[r] = "webhook" -> {"frame"}
      [] OTHER -> {"frame", "arrow"}

GenerationEnds(r) ==
    /\ slot[r] = "held"
    /\ result[r] = "none"
    /\ \E outcome \in Forms(r) \cup {"error"} :
          result' = [result EXCEPT ![r] = outcome]
    /\ UNCHANGED <<app, stage, loop, answer, probe, slot, closed>>

(* _on_complete, after the result can be read. *)
SlotBack(r) ==
    /\ result[r] # "none"
    /\ Slots!Release(r)
    /\ UNCHANGED <<app, stage, loop, result, answer, probe>>

-----------------------------------------------------------------------------
(* Handlers after their future is done. *)

(* Seeded fault: the handler gives up waiting and answers. *)
ResumeFailsEarly(r) ==
    /\ loop = Free
    /\ stage[r] = "awaiting"
    /\ result[r] \in {"none", "error"}
    /\ Answer(r, 500)
    /\ UNCHANGED <<app, loop, result, probe, slot, closed>>

(* GenerationError, answered by generation_error_handler; a frame as a     *)
(* dict of columns, which is not the declared list of rows; or an          *)
(* OpenMetadata destination that refuses the client it is given.           *)
ResumeFails(r) ==
    /\ loop = Free
    /\ stage[r] = "awaiting"
    /\ \/ result[r] = "error"
       \/ result[r] = "frame" /\ kind[r] = "table"
       \/ result[r] \in {"frame", "arrow"} /\ kind[r] \in {"generate", "webhook"}
    /\ Answer(r, 500)
    /\ UNCHANGED <<app, loop, result, probe, slot, closed>>

ResumeTable(r) ==
    /\ loop = Free
    /\ stage[r] = "awaiting"
    /\ kind[r] = "table"
    /\ result[r] = "arrow"
    /\ Answer(r, 201)
    /\ UNCHANGED <<app, loop, result, probe, slot, closed>>

ResumeDto(r) ==
    /\ loop = Free
    /\ stage[r] = "awaiting"
    /\ kind[r] = "dto"
    /\ result[r] = "arrow"
    /\ Goto(r, "delivering")
    /\ UNCHANGED <<app, loop, result, answer, probe, slot, closed>>

(* Seeded fault: a failed upload is tried again for ever. *)
DeliveredNever(r) ==
    /\ loop = Free
    /\ stage[r] = "delivering"
    /\ UNCHANGED vars

(* The uploads have ended, on the network and on a thread of their own. *)
Delivered(r) ==
    /\ loop = Free
    /\ stage[r] = "delivering"
    /\ \E status \in {201, 500} : Answer(r, status)
    /\ UNCHANGED <<app, loop, result, probe, slot, closed>>

(* Seeded fault: cancelling gives the slot back, whatever the thread does. *)
AbortFreeing(r) ==
    /\ loop = Free
    /\ stage[r] = "awaiting"
    /\ Slots!Release(r)
    /\ Goto(r, "aborted")
    /\ UNCHANGED <<app, loop, result, answer, probe>>

(* The awaiting task is cancelled, and wrap_future cancels the future: that *)
(* has an effect if it is queued, none if it is running.                    *)
Abort(r) ==
    /\ loop = Free
    /\ stage[r] = "awaiting"
    /\ Goto(r, "aborted")
    /\ \/ result' = result
       \/ result[r] = "none" /\ result' = [result EXCEPT ![r] = "cancelled"]
    /\ UNCHANGED <<app, loop, answer, probe, slot, closed>>

-----------------------------------------------------------------------------
(* GET /readiness, and the end of the lifespan. *)

SendProbe ==
    /\ phase = "serving"
    /\ probe # "sent"
    /\ probe' = "sent"
    /\ UNCHANGED <<app, stage, loop, result, answer, slot, closed>>

(* Seeded fault: the bound is compared with > instead of >=. *)
ReadinessOffByOne ==
    /\ loop = Free
    /\ probe = "sent"
    /\ probe' = IF Cardinality(Slots!Taken) > Capacity THEN "busy" ELSE "ready"
    /\ UNCHANGED <<app, stage, loop, result, answer, slot, closed>>

Readiness ==
    /\ loop = Free
    /\ probe = "sent"
    /\ probe' = IF Cardinality(Slots!Taken) >= Capacity THEN "busy" ELSE "ready"
    /\ UNCHANGED <<app, stage, loop, result, answer, slot, closed>>

Ended(r) == stage[r] \in {"answered", "aborted"}

(* The server ends its handlers before the lifespan calls shutdown(). *)
Shutdown ==
    /\ phase = "serving"
    /\ loop = Free
    /\ probe # "sent"
    /\ \A r \in Requests : stage[r] = "new" \/ Ended(r)
    /\ Slots!Close
    /\ phase' = "down"
    /\ UNCHANGED <<gauges, kind, body, stage, loop, result, answer, probe>>

Stopped == closed /\ UNCHANGED vars

LoopStep(r) ==
    \/ LookupFound(r) \/ LookupEnds(r)
    \/ SubmitAccepted(r) \/ SubmitRefused(r)
    \/ ResumeFails(r) \/ ResumeTable(r) \/ ResumeDto(r)
    \/ Delivered(r)

Next ==
    \/ \E r \in Requests :
          \/ BeginSubmit(r) \/ BeginLookup(r) \/ Unconfigured(r) \/ AnswerUnchanged(r)
          \/ LoopStep(r)
          \/ GenerationEnds(r) \/ SlotBack(r)
          \/ Abort(r)
    \/ SendProbe \/ Readiness
    \/ Start \/ Shutdown
    \/ Stopped

SafeSpec == Init /\ [][Next]_vars

(* The loop turns to every handler and probe that is ready to go on,       *)
(* submit() returns within its five seconds, lookups and uploads have      *)
(* timeouts, and callbacks run.  That a generation ends is not assumed:    *)
(* nothing in the code bounds it.                                          *)
Fairness ==
    /\ \A r \in Requests : WF_vars(LoopStep(r)) /\ WF_vars(SlotBack(r))
    /\ WF_vars(Readiness)

Spec == SafeSpec /\ Fairness
-----------------------------------------------------------------------------
(* Properties. *)

(* A readiness answer of 200 is a promise: submit() is called on the loop  *)
(* only, so the first request after it takes its slot without waiting and  *)
(* is not refused (main.py l.23-29, is_at_capacity).                       *)
ReadyMeansAdmitted ==
    probe = "ready" => Cardinality(Slots!Taken) < Capacity

(* 503 is sent only for a call that took no slot and started no work, so a *)
(* retry repeats nothing; whatever else is answered after submit(), the    *)
(* generation is over and no thread still works for that client.           *)
AnsweredMeansSettled ==
    \A r \in Requests : stage[r] = "answered" =>
       IF answer[r] = 503
       THEN slot[r] = "refused" /\ result[r] = "none"
       ELSE slot[r] # "none" => result[r] # "none"

(* At any time, the generations under way, whoever waits for them, are at  *)
(* most Capacity: an aborted request does not free the slot of work that   *)
(* goes on without it.                                                     *)
WorkIsBounded ==
    Cardinality({r \in Requests : slot[r] \in {"held", "released"} /\ result[r] = "none"})
      <= Capacity

(* The loop is never held for good, even when no generation ever ends: a   *)
(* probe that was sent is answered.                                        *)
ProbesAnswered == probe = "sent" ~> probe # "sent"

(* Every request whose handler has begun is answered or aborted, or awaits *)
(* a generation that does not end; none waits on another's.                *)
RequestsAnswered ==
    \A r \in Requests :
       stage[r] # "new" ~> Ended(r) \/ (stage[r] = "awaiting" /\ result[r] = "none")

(* The service never takes requests for a worker that was shut down, though *)
(* the singleton would hand it out again (singleton.py l.17-20): each of   *)
(* them would take a slot and lose it (synthetic_worker.py l.69-80).       *)
ServesOpenWorker == phase = "serving" => ~closed
==============================================================================
