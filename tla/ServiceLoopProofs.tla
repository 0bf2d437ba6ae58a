-------------------------- MODULE ServiceLoopProofs --------------------------
(***************************************************************************)
(* Theorems about ServiceLoop, for any finite set of requests, any bound   *)
(* on the slots and any webhook bodies.                                    *)
(***************************************************************************)
EXTENDS ServiceLoop, FiniteSetTheorems, TLAPS

(* What the progress of a handler says of its slot and its generation. *)
Placed(r) ==
    /\ loop = r <=> stage[r] = "submitting"
    /\ stage[r] \in {"new", "looking", "submitting"} => slot[r] = "none" /\ result[r] = "none"
    /\ stage[r] \in {"awaiting", "delivering", "aborted"} => slot[r] \in {"held", "released"}
    /\ stage[r] = "delivering" => result[r] # "none"
    /\ slot[r] = "released" => result[r] # "none"
    /\ result[r] # "none" => slot[r] \in {"held", "released"}
    /\ stage[r] = "answered" =>
          IF answer[r] = 503
          THEN slot[r] = "refused" /\ result[r] = "none"
          ELSE slot[r] # "none" => slot[r] \in {"held", "released"} /\ result[r] # "none"

AllPlaced == \A r \in Requests : Placed(r)

SlotsBounded == Cardinality(Slots!Taken) <= Capacity

(* A worker that was shut down belongs to a process that has its metrics. *)
Lifecycle ==
    /\ phase = "serving" => gauges /\ ~closed
    /\ closed => gauges

IInv ==
    /\ TypeOK
    /\ AllPlaced
    /\ SlotsBounded
    /\ ReadyMeansAdmitted
    /\ Lifecycle

-----------------------------------------------------------------------------

(* The taken slots are finitely many, so their cardinality is a number. *)
LEMMA TakenFinite ==
    /\ IsFiniteSet(Slots!Taken)
    /\ Cardinality(Slots!Taken) \in Nat
<1>1. Slots!Taken \subseteq Requests
  BY DEF Slots!Taken
<1>2. IsFiniteSet(Slots!Taken)
  BY <1>1, RequestsAssumption, FS_Subset
<1>3. QED
  BY <1>2, FS_CardinalityType

(* Both modules extend FiniteSets: its cardinality is the same in each. *)
LEMMA SameCardinality == \A S : Slots!Cardinality(S) = Cardinality(S)
BY DEF Cardinality, Slots!Cardinality

(* Before the first start no request has begun and no slot is taken. *)
LEMMA InitIInv == Init => IInv
<1>1. SUFFICES ASSUME Init PROVE IInv
  OBVIOUS
<1>2. TypeOK
  BY <1>1 DEF Init, TypeOK, Kinds, Stages, Results, Slots!Init, Slots!SlotStates
<1>3. AllPlaced
  BY <1>1, RequestsAssumption DEF Init, AllPlaced, Placed, Slots!Init
<1>4. Slots!Taken = {}
  BY <1>1 DEF Init, Slots!Init, Slots!Taken
<1>5. SlotsBounded /\ ReadyMeansAdmitted
  BY <1>4, FS_EmptySet, CapacityAssumption DEF SlotsBounded, ReadyMeansAdmitted
<1>6. Lifecycle
  BY <1>1 DEF Init, Lifecycle, Slots!Init
<1>7. QED
  BY <1>2, <1>3, <1>5, <1>6 DEF IInv

(* A step that takes and gives back no slot, and tells no probe that the    *)
(* service is ready, only has to keep the types and the requests in place. *)
LEMMA NeutralIInv ==
    ASSUME IInv, TypeOK', AllPlaced', UNCHANGED <<phase, gauges, slot, closed>>,
           probe' \in {probe, "idle", "sent"}
    PROVE  IInv'
<1>1. Slots!Taken' = Slots!Taken
  BY DEF Slots!Taken
<1>2. SlotsBounded' /\ ReadyMeansAdmitted'
  BY <1>1 DEF IInv, SlotsBounded, ReadyMeansAdmitted
<1>3. Lifecycle'
  BY DEF IInv, Lifecycle
<1>4. QED
  BY <1>2, <1>3 DEF IInv

(* A request at its beginning. *)
LEMMA BeginIInv ==
    ASSUME IInv, NEW r \in Requests,
           BeginSubmit(r) \/ BeginLookup(r) \/ Unconfigured(r) \/ AnswerUnchanged(r)
    PROVE  IInv'
<1>1. TypeOK /\ AllPlaced
  BY DEF IInv
<1>2. CASE BeginSubmit(r)
  <2>1. TypeOK'
    BY <1>1, <1>2 DEF TypeOK, BeginSubmit, Goto, app, Stages
  <2>2. AllPlaced'
    BY <1>1, <1>2, RequestsAssumption DEF TypeOK, AllPlaced, Placed, BeginSubmit, Begins, Goto
  <2>3. QED
    BY <1>2, <2>1, <2>2, NeutralIInv DEF BeginSubmit, app
<1>3. CASE BeginLookup(r)
  <2>1. TypeOK'
    BY <1>1, <1>3 DEF TypeOK, BeginLookup, Goto, app, Stages
  <2>2. AllPlaced'
    BY <1>1, <1>3 DEF TypeOK, AllPlaced, Placed, BeginLookup, Begins, Goto
  <2>3. QED
    BY <1>3, <2>1, <2>2, NeutralIInv DEF BeginLookup, app
<1>4. CASE Unconfigured(r) \/ AnswerUnchanged(r)
  <2>1. PICK status \in {201, 500} : Answer(r, status)
    BY <1>4 DEF Unconfigured, AnswerUnchanged
  <2>2. UNCHANGED <<app, loop, result, probe, slot, closed>> /\ stage[r] = "new" /\ loop = Free
    BY <1>4 DEF Unconfigured, AnswerUnchanged, Begins
  <2>3. TypeOK'
    BY <1>1, <2>1, <2>2 DEF TypeOK, Answer, Goto, app, Stages
  <2>4. AllPlaced'
    BY <1>1, <2>1, <2>2 DEF TypeOK, AllPlaced, Placed, Answer, Goto
  <2>5. QED
    BY <2>2, <2>3, <2>4, NeutralIInv DEF app
<1>5. QED
  BY <1>2, <1>3, <1>4

(* A request on its way to submit(). *)
LEMMA LookupIInv ==
    ASSUME IInv, NEW r \in Requests, LookupFound(r) \/ LookupEnds(r)
    PROVE  IInv'
<1>1. TypeOK /\ AllPlaced
  BY DEF IInv
<1>2. CASE LookupFound(r)
  <2>1. TypeOK'
    BY <1>1, <1>2 DEF TypeOK, LookupFound, Goto, app, Stages
  <2>2. AllPlaced'
    BY <1>1, <1>2, RequestsAssumption DEF TypeOK, AllPlaced, Placed, LookupFound, Goto
  <2>3. QED
    BY <1>2, <2>1, <2>2, NeutralIInv DEF LookupFound, app
<1>3. CASE LookupEnds(r)
  <2>1. PICK status \in {404, 500} : Answer(r, status)
    BY <1>3 DEF LookupEnds
  <2>2. TypeOK'
    BY <1>1, <1>3, <2>1 DEF TypeOK, LookupEnds, Answer, Goto, app, Stages
  <2>3. AllPlaced'
    BY <1>1, <1>3, <2>1 DEF TypeOK, AllPlaced, Placed, LookupEnds, Answer, Goto
  <2>4. QED
    BY <1>3, <2>2, <2>3, NeutralIInv DEF LookupEnds, app
<1>4. QED
  BY <1>2, <1>3

(* submit() takes a slot below the bound, or refuses the call; either way  *)
(* what a probe was told before is no longer relied on.                    *)
LEMMA SubmitIInv ==
    ASSUME IInv, NEW r \in Requests, SubmitAccepted(r) \/ SubmitRefused(r)
    PROVE  IInv'
<1>1. TypeOK /\ AllPlaced /\ SlotsBounded /\ Lifecycle
  BY DEF IInv
<1>2. probe' \in {"sent", "idle"} /\ UNCHANGED <<app, result, closed>>
  BY DEF SubmitAccepted, SubmitRefused, ProbeAfterSubmit, Slots!Acquire, Slots!Refuse
<1>3. ReadyMeansAdmitted' /\ Lifecycle'
  BY <1>1, <1>2 DEF ReadyMeansAdmitted, Lifecycle, app
<1>4. CASE SubmitAccepted(r)
  <2>1. TypeOK'
    BY <1>1, <1>2, <1>4
    DEF TypeOK, SubmitAccepted, Goto, app, Stages, Slots!Acquire, Slots!SlotStates
  <2>2. AllPlaced'
    BY <1>1, <1>4, RequestsAssumption
    DEF TypeOK, AllPlaced, Placed, SubmitAccepted, Goto, Slots!Acquire
  <2>3. r \notin Slots!Taken /\ Slots!Taken' = Slots!Taken \cup {r}
    BY <1>1, <1>4 DEF TypeOK, SubmitAccepted, Slots!Acquire, Slots!Taken
  <2>4. Cardinality(Slots!Taken') = Cardinality(Slots!Taken) + 1
    BY <2>3, TakenFinite, FS_AddElement
  <2>5. SlotsBounded'
    BY <1>4, <2>4, TakenFinite, SameCardinality, CapacityAssumption
    DEF SlotsBounded, SubmitAccepted, Slots!Acquire
  <2>6. QED
    BY <1>3, <2>1, <2>2, <2>5 DEF IInv
<1>5. CASE SubmitRefused(r)
  <2>1. TypeOK'
    BY <1>1, <1>2, <1>5
    DEF TypeOK, SubmitRefused, Answer, Goto, app, Stages, Slots!Refuse, Slots!SlotStates
  <2>2. AllPlaced'
    BY <1>1, <1>5, RequestsAssumption
    DEF TypeOK, AllPlaced, Placed, SubmitRefused, Answer, Goto, Slots!Refuse
  <2>3. Slots!Taken' = Slots!Taken
    BY <1>1, <1>5 DEF TypeOK, SubmitRefused, Slots!Refuse, Slots!Taken
  <2>4. QED
    BY <1>1, <1>3, <2>1, <2>2, <2>3 DEF IInv, SlotsBounded
<1>6. QED
  BY <1>4, <1>5

(* The worker's threads: a generation ends, and later its slot comes back. *)
LEMMA ThreadIInv ==
    ASSUME IInv, NEW r \in Requests, GenerationEnds(r) \/ SlotBack(r)
    PROVE  IInv'
<1>1. TypeOK /\ AllPlaced /\ SlotsBounded /\ ReadyMeansAdmitted /\ Lifecycle
  BY DEF IInv
<1>2. CASE GenerationEnds(r)
  <2>1. PICK outcome \in {"frame", "arrow", "error"} : result' = [result EXCEPT ![r] = outcome]
    BY <1>2 DEF GenerationEnds, Forms
  <2>2. TypeOK'
    BY <1>1, <1>2, <2>1 DEF TypeOK, GenerationEnds, app, Results
  <2>3. AllPlaced'
    BY <1>1, <1>2, <2>1 DEF TypeOK, AllPlaced, Placed, GenerationEnds
  <2>4. QED
    BY <1>2, <2>2, <2>3, NeutralIInv DEF GenerationEnds, app
<1>3. CASE SlotBack(r)
  <2>1. TypeOK'
    BY <1>1, <1>3 DEF TypeOK, SlotBack, app, Slots!Release, Slots!SlotStates
  <2>2. AllPlaced'
    BY <1>1, <1>3 DEF TypeOK, AllPlaced, Placed, SlotBack, Slots!Release
  <2>3. r \in Slots!Taken /\ Slots!Taken' = Slots!Taken \ {r}
    BY <1>1, <1>3 DEF TypeOK, SlotBack, Slots!Release, Slots!Taken
  <2>4. Cardinality(Slots!Taken') = Cardinality(Slots!Taken) - 1
    BY <2>3, TakenFinite, FS_RemoveElement
  <2>5. SlotsBounded' /\ ReadyMeansAdmitted'
    BY <1>1, <1>3, <2>4, TakenFinite, CapacityAssumption
    DEF SlotsBounded, ReadyMeansAdmitted, SlotBack
  <2>6. Lifecycle'
    BY <1>1, <1>3 DEF Lifecycle, SlotBack, app, Slots!Release
  <2>7. QED
    BY <2>1, <2>2, <2>5, <2>6 DEF IInv
<1>4. QED
  BY <1>2, <1>3

(* A handler whose future is done, or whose task is cancelled. *)
LEMMA ResumeIInv ==
    ASSUME IInv, NEW r \in Requests,
           ResumeFails(r) \/ ResumeTable(r) \/ ResumeDto(r) \/ Delivered(r) \/ Abort(r)
    PROVE  IInv'
<1>1. TypeOK /\ AllPlaced
  BY DEF IInv
<1>2. CASE ResumeFails(r) \/ ResumeTable(r) \/ Delivered(r)
  <2>1. PICK status \in {201, 500} : Answer(r, status)
    BY <1>2 DEF ResumeFails, ResumeTable, Delivered
  <2>2. /\ UNCHANGED <<app, loop, result, probe, slot, closed>>
        /\ stage[r] \in {"awaiting", "delivering"}
        /\ stage[r] = "awaiting" => result[r] # "none"
    BY <1>2 DEF ResumeFails, ResumeTable, Delivered
  <2>3. TypeOK'
    BY <1>1, <2>1, <2>2 DEF TypeOK, Answer, Goto, app, Stages
  <2>4. AllPlaced'
    BY <1>1, <2>1, <2>2 DEF TypeOK, AllPlaced, Placed, Answer, Goto
  <2>5. QED
    BY <2>2, <2>3, <2>4, NeutralIInv DEF app
<1>3. CASE ResumeDto(r)
  <2>1. TypeOK'
    BY <1>1, <1>3 DEF TypeOK, ResumeDto, Goto, app, Stages
  <2>2. AllPlaced'
    BY <1>1, <1>3 DEF TypeOK, AllPlaced, Placed, ResumeDto, Goto
  <2>3. QED
    BY <1>3, <2>1, <2>2, NeutralIInv DEF ResumeDto, app
<1>4. CASE Abort(r)
  <2>1. result' = result \/ result' = [result EXCEPT ![r] = "cancelled"]
    BY <1>4 DEF Abort
  <2>2. TypeOK'
    BY <1>1, <1>4, <2>1 DEF TypeOK, Abort, Goto, app, Stages, Results
  <2>3. AllPlaced'
    BY <1>1, <1>4, <2>1 DEF TypeOK, AllPlaced, Placed, Abort, Goto
  <2>4. QED
    BY <1>4, <2>2, <2>3, NeutralIInv DEF Abort, app
<1>5. QED
  BY <1>2, <1>3, <1>4

(* A probe, the start and the end of the application. *)
LEMMA ApplicationIInv ==
    ASSUME IInv, SendProbe \/ Readiness \/ Start \/ Shutdown
    PROVE  IInv'
<1>1. TypeOK /\ AllPlaced /\ SlotsBounded /\ ReadyMeansAdmitted /\ Lifecycle
  BY DEF IInv
<1>2. UNCHANGED <<kind, body, stage, loop, result, answer, slot>>
  BY DEF SendProbe, Readiness, Start, Shutdown, app, Slots!Close
<1>3. AllPlaced'
  BY <1>1, <1>2 DEF AllPlaced, Placed
<1>4. Slots!Taken' = Slots!Taken
  BY <1>2 DEF Slots!Taken
<1>5. SlotsBounded'
  BY <1>1, <1>4 DEF SlotsBounded
<1>6. TypeOK'
  <2>1. CASE SendProbe
    BY <1>1, <1>2, <2>1 DEF TypeOK, SendProbe, app
  <2>2. CASE Readiness
    BY <1>1, <1>2, <2>2 DEF TypeOK, Readiness, app
  <2>3. CASE Start
    BY <1>1, <1>2, <2>3 DEF TypeOK, Start, CanRegister, app
  <2>4. CASE Shutdown
    BY <1>1, <1>2, <2>4 DEF TypeOK, Shutdown, Slots!Close, app
  <2> QED
    BY <2>1, <2>2, <2>3, <2>4
<1>7. ReadyMeansAdmitted'
  BY <1>1, <1>4, TakenFinite, CapacityAssumption
  DEF ReadyMeansAdmitted, SendProbe, Readiness, Start, Shutdown
<1>8. Lifecycle'
  BY <1>1 DEF Lifecycle, SendProbe, Readiness, Start, Shutdown, CanRegister, app, Slots!Close
<1>9. QED
  BY <1>3, <1>5, <1>6, <1>7, <1>8 DEF IInv

(* Every step keeps the inductive invariant. *)
LEMMA NextIInv == IInv /\ [Next]_vars => IInv'
<1>1. SUFFICES ASSUME IInv, [Next]_vars PROVE IInv'
  OBVIOUS
<1>2. CASE UNCHANGED vars
  <2>1. TypeOK'
    BY <1>1, <1>2 DEF IInv, TypeOK, vars, app
  <2>2. AllPlaced'
    BY <1>1, <1>2 DEF IInv, AllPlaced, Placed, vars
  <2>3. QED
    BY <1>1, <1>2, <2>1, <2>2, NeutralIInv DEF vars, app
<1>3. ASSUME NEW r \in Requests, LoopStep(r)
      PROVE  IInv'
  BY <1>1, <1>3, LookupIInv, SubmitIInv, ResumeIInv DEF LoopStep
<1>4. CASE SendProbe \/ Readiness \/ Start \/ Shutdown
  BY <1>1, <1>4, ApplicationIInv
<1>5. CASE Stopped
  BY <1>2, <1>5 DEF Stopped
<1>6. QED
  BY <1>1, <1>2, <1>3, <1>4, <1>5, BeginIInv, ThreadIInv, ResumeIInv DEF Next

(* The inductive invariant of the event loop: handler, slot and generation *)
(* of each request agree, and at most Capacity slots are taken.            *)
THEOREM Invariance == SafeSpec => []IInv
BY InitIInv, NextIInv, PTL DEF SafeSpec

(* The state of the service stays well typed. *)
THEOREM TypeCorrect == SafeSpec => []TypeOK
<1>1. IInv => TypeOK
  BY DEF IInv
<1>2. QED
  BY <1>1, Invariance, PTL

(* A readiness answer of 200 keeps its word whatever other requests do      *)
(* before the next submit() (main.py l.23-29).                             *)
THEOREM ReadinessHolds == SafeSpec => []ReadyMeansAdmitted
<1>1. IInv => ReadyMeansAdmitted
  BY DEF IInv
<1>2. QED
  BY <1>1, Invariance, PTL

(* No request is answered while its generation is under way, and one that   *)
(* is refused has none.                                                    *)
THEOREM AnswersAreSettled == SafeSpec => []AnsweredMeansSettled
<1>1. IInv => AnsweredMeansSettled
  BY DEF IInv, AllPlaced, Placed, AnsweredMeansSettled
<1>2. QED
  BY <1>1, Invariance, PTL

(* The generations under way, those of aborted requests included, are at   *)
(* most max_pending: each of them has a slot.                              *)
THEOREM WorkBounded == SafeSpec => []WorkIsBounded
<1>1. ASSUME IInv PROVE WorkIsBounded
  <2> DEFINE Working == {r \in Requests : slot[r] \in {"held", "released"} /\ result[r] = "none"}
  <2>1. Working \subseteq Slots!Taken
    BY <1>1 DEF IInv, AllPlaced, Placed, Slots!Taken
  <2>2. IsFiniteSet(Working) /\ Cardinality(Working) <= Cardinality(Slots!Taken)
    BY <2>1, TakenFinite, FS_Subset
  <2>3. Cardinality(Working) \in Nat
    BY <2>2, FS_CardinalityType
  <2>4. QED
    BY <1>1, <2>2, <2>3, TakenFinite, CapacityAssumption DEF IInv, SlotsBounded, WorkIsBounded
<1>2. QED
  BY <1>1, Invariance, PTL

(* However often the application is started and stopped, it serves no      *)
(* request with a worker that was shut down (singleton.py l.17-20).        *)
THEOREM OpenWorkerServes == SafeSpec => []ServesOpenWorker
<1>1. IInv => ServesOpenWorker
  BY DEF IInv, Lifecycle, ServesOpenWorker
<1>2. QED
  BY <1>1, Invariance, PTL
==============================================================================
