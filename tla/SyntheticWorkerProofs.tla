------------------------ MODULE SyntheticWorkerProofs ------------------------
(***************************************************************************)
(* Theorems about SyntheticWorker, for any finite set of calls, any pool   *)
(* and any max_pending.                                                    *)
(***************************************************************************)
EXTENDS SyntheticWorker, FiniteSetTheorems, TLAPS

(* How far the call, its future and its callback can be from one another. *)
Phases ==
    \A t \in Tasks :
       /\ fut[t] = "none" <=> call[t] \notin {"enqueued", "returned"}
       /\ callback[t] # "unset" <=> call[t] = "returned"

CountBounded == pending <= MaxPending

IInv ==
    /\ TypeOK
    /\ Phases
    /\ ReleasedOnlyWhenOver
    /\ SlotAccounting
    /\ CountBounded
    /\ NoLostWakeup

-----------------------------------------------------------------------------

(* The set of charged calls is finite, so its cardinality is a number. *)
LEMMA ChargedFinite ==
    /\ IsFiniteSet(Charged)
    /\ Cardinality(Charged) \in Nat
<1>1. Charged \in SUBSET Tasks
  BY DEF Charged
<1>2. IsFiniteSet(Charged)
  BY <1>1, TasksAssumption, FS_Subset
<1>3. QED
  BY <1>2, FS_CardinalityType

(* The initial state satisfies the inductive invariant: nothing is charged. *)
LEMMA InitIInv == Init => IInv
<1>1. SUFFICES ASSUME Init PROVE IInv
  OBVIOUS
<1>2. TypeOK
  BY <1>1 DEF Init, TypeOK, CallStates, FutureStates, CallbackStates, ShutdownStates
<1>3. Phases /\ ReleasedOnlyWhenOver /\ NoLostWakeup
  BY <1>1 DEF Init, Phases, ReleasedOnlyWhenOver, NoLostWakeup
<1>4. Charged = {}
  BY <1>1 DEF Init, Charged
<1>5. SlotAccounting /\ CountBounded
  BY <1>1, <1>4, FS_EmptySet, MaxPendingAssumption DEF Init, SlotAccounting, CountBounded
<1>6. QED
  BY <1>2, <1>3, <1>5 DEF IInv

(* Running _on_complete for a charged call whose future is over: the call *)
(* is charged no more, and the count follows.                             *)
LEMMA ReleaseIInv ==
    ASSUME IInv, NEW t \in Tasks, NEW calls \in [Tasks -> CallStates],
           t \in Charged,
           fut[t] \in {"finished", "cancelled"},
           calls = [call EXCEPT ![t] = "returned"],
           OnComplete(t, calls),
           fut' = fut, shutdown' = shutdown, inHand' = inHand, queue' = queue,
           serving' \in [Threads -> Tasks \cup {NoTask}]
    PROVE  IInv'
<1>1. TypeOK /\ Phases /\ ReleasedOnlyWhenOver /\ SlotAccounting /\ CountBounded
  BY DEF IInv
<1>2. calls[t] = "returned" /\ \A u \in Tasks \ {t} : calls[u] = call[u]
  BY <1>1 DEF TypeOK
<1>3. callback'[t] = "done" /\ \A u \in Tasks \ {t} : callback'[u] = callback[u]
  BY <1>1 DEF OnComplete, TypeOK
<1>4. \A u \in Tasks :
         /\ call'[u] # "waiting"
         /\ call'[u] = IF calls[u] = "waiting" THEN "notified" ELSE calls[u]
  BY DEF OnComplete
<1>5. Charged' = Charged \ {t}
  BY <1>2, <1>3, <1>4 DEF Charged
<1>6. /\ Cardinality(Charged') = Cardinality(Charged) - 1
      /\ Cardinality(Charged') \in Nat
  <2>1. IsFiniteSet(Charged \ {t}) /\ Cardinality(Charged \ {t}) = Cardinality(Charged) - 1
    BY ChargedFinite, FS_RemoveElement
  <2>2. QED
    BY <2>1, <1>5, FS_CardinalityType
<1>7. SlotAccounting' /\ CountBounded'
  BY <1>1, <1>6, ChargedFinite, MaxPendingAssumption
  DEF SlotAccounting, CountBounded, OnComplete
<1>8. TypeOK'
  <2>1. call' \in [Tasks -> CallStates]
    BY DEF OnComplete, CallStates
  <2>2. callback' \in [Tasks -> CallbackStates]
    BY <1>1 DEF OnComplete, TypeOK, CallbackStates
  <2>3. pending' \in Nat
    BY <1>6, <1>7 DEF SlotAccounting
  <2>4. QED
    BY <1>1, <2>1, <2>2, <2>3 DEF TypeOK
<1>9. Phases'
  BY <1>1, <1>2, <1>3, <1>4 DEF Phases, TypeOK
<1>10. ReleasedOnlyWhenOver'
  BY <1>1, <1>3 DEF ReleasedOnlyWhenOver
<1>11. NoLostWakeup'
  BY <1>4 DEF NoLostWakeup
<1>12. QED
  BY <1>7, <1>8, <1>9, <1>10, <1>11 DEF IInv

(* A step that neither reserves nor gives back a slot: it is enough that it *)
(* keeps the types, the phases and the set of charged calls.                *)
LEMMA NeutralIInv ==
    ASSUME IInv, TypeOK', Phases', ReleasedOnlyWhenOver',
           Charged' = Charged, pending' = pending,
           \A u \in Tasks : call'[u] = "waiting" /\ call[u] # "waiting" => pending >= MaxPending
    PROVE  IInv'
<1>1. SlotAccounting' /\ CountBounded'
  BY DEF IInv, SlotAccounting, CountBounded
<1>2. NoLostWakeup'
  BY DEF IInv, NoLostWakeup
<1>3. QED
  BY <1>1, <1>2 DEF IInv

-----------------------------------------------------------------------------

(* A reservation charges one more call, and only below the bound. *)
LEMMA AcquireIInv ==
    ASSUME IInv, NEW t \in Tasks, Acquire(t)
    PROVE  IInv'
<1>1. TypeOK /\ Phases /\ ReleasedOnlyWhenOver /\ SlotAccounting /\ NoLostWakeup
  BY DEF IInv
<1>2. call'[t] = "reserved" /\ \A u \in Tasks \ {t} : call'[u] = call[u]
  BY <1>1 DEF Acquire, TypeOK
<1>3. t \notin Charged /\ Charged' = Charged \cup {t}
  BY <1>2 DEF Acquire, Charged
<1>4. Cardinality(Charged') = Cardinality(Charged) + 1
  BY <1>3, ChargedFinite, FS_AddElement
<1>5. SlotAccounting' /\ CountBounded'
  BY <1>1, <1>4, MaxPendingAssumption DEF Acquire, SlotAccounting, CountBounded, TypeOK
<1>6. TypeOK'
  BY <1>1 DEF Acquire, TypeOK, CallStates
<1>7. Phases' /\ ReleasedOnlyWhenOver'
  BY <1>1, <1>2 DEF Acquire, Phases, ReleasedOnlyWhenOver
<1>8. NoLostWakeup'
  BY <1>1, <1>2, MaxPendingAssumption DEF Acquire, NoLostWakeup, TypeOK
<1>9. QED
  BY <1>5, <1>6, <1>7, <1>8 DEF IInv

(* The other steps of a call before it has a future. *)
LEMMA RefusalIInv ==
    ASSUME IInv, NEW t \in Tasks, Block(t) \/ GiveUp(t) \/ EnqueueFails(t)
    PROVE  IInv'
<1>1. TypeOK /\ Phases /\ ReleasedOnlyWhenOver
  BY DEF IInv
<1>2. TypeOK'
  BY <1>1 DEF Block, GiveUp, EnqueueFails, TypeOK, CallStates
<1>3. Phases' /\ ReleasedOnlyWhenOver'
  BY <1>1 DEF Block, GiveUp, EnqueueFails, TypeOK, Phases, ReleasedOnlyWhenOver
<1>4. Charged' = Charged /\ pending' = pending
  BY <1>1 DEF Block, GiveUp, EnqueueFails, TypeOK, Charged
<1>5. \A u \in Tasks : call'[u] = "waiting" /\ call[u] # "waiting" => pending >= MaxPending
  BY <1>1 DEF Block, GiveUp, EnqueueFails, TypeOK
<1>6. QED
  BY <1>2, <1>3, <1>4, <1>5, NeutralIInv

(* A reserved call gets its future or fails: it is charged either way. *)
LEMMA EnqueueIInv ==
    ASSUME IInv, NEW t \in Tasks, Enqueue(t) \/ AddDoneCallback(t)
    PROVE  IInv'
<1>1. TypeOK /\ Phases /\ ReleasedOnlyWhenOver
  BY DEF IInv
<1>2. CASE Enqueue(t)
  <2>1. TypeOK'
    BY <1>1, <1>2 DEF Enqueue, TypeOK, CallStates, FutureStates
  <2>2. Phases' /\ ReleasedOnlyWhenOver'
    BY <1>1, <1>2 DEF Enqueue, TypeOK, Phases, ReleasedOnlyWhenOver
  <2>3. Charged' = Charged
    BY <1>1, <1>2 DEF Enqueue, TypeOK, Charged
  <2>4. QED
    BY <1>1, <1>2, <2>1, <2>2, <2>3, NeutralIInv DEF Enqueue, TypeOK
<1>3. CASE AddDoneCallback(t)
  <2>1. TypeOK'
    BY <1>1, <1>3 DEF AddDoneCallback, TypeOK, CallStates, CallbackStates
  <2>2. Phases' /\ ReleasedOnlyWhenOver'
    BY <1>1, <1>3 DEF AddDoneCallback, TypeOK, Phases, ReleasedOnlyWhenOver
  <2>3. Charged' = Charged
    BY <1>1, <1>3 DEF AddDoneCallback, TypeOK, Charged
  <2>4. QED
    BY <1>1, <1>3, <2>1, <2>2, <2>3, NeutralIInv DEF AddDoneCallback, TypeOK
<1>4. QED
  BY <1>2, <1>3

(* Future.add_done_callback() on a future that is over. *)
LEMMA AddDoneCallbackLateIInv ==
    ASSUME IInv, NEW t \in Tasks, AddDoneCallbackLate(t)
    PROVE  IInv'
<1>1. t \in Charged
  BY DEF AddDoneCallbackLate, Charged
<1>2. [call EXCEPT ![t] = "returned"] \in [Tasks -> CallStates]
  BY DEF IInv, TypeOK, CallStates
<1>3. QED
  BY <1>1, <1>2, ReleaseIInv DEF AddDoneCallbackLate, IInv, TypeOK

(* _on_complete of an armed callback: the call has returned already. *)
LEMMA ArmedReleaseIInv ==
    ASSUME IInv, NEW t \in Tasks,
           callback[t] = "armed",
           fut[t] \in {"finished", "cancelled"},
           OnComplete(t, call),
           fut' = fut, shutdown' = shutdown, inHand' = inHand, queue' = queue,
           serving' \in [Threads -> Tasks \cup {NoTask}]
    PROVE  IInv'
<1>1. call \in [Tasks -> CallStates] /\ call[t] = "returned"
  BY DEF IInv, TypeOK, Phases
<1>2. call = [call EXCEPT ![t] = "returned"]
  BY <1>1
<1>3. t \in Charged
  BY <1>1 DEF Charged
<1>4. QED
  BY <1>1, <1>2, <1>3, ReleaseIInv

(* A step that changes futures that are not over yet, the queue and the   *)
(* hands of the threads: futures only move on, and none goes back to none. *)
LEMMA ThreadIInv ==
    ASSUME IInv, NEW th \in Threads, ThreadStep(th)
    PROVE  IInv'
<1>1. TypeOK /\ Phases /\ ReleasedOnlyWhenOver
  BY DEF IInv
<1>2. CASE StartNext(th)
  <2>1. Head(queue) \in Tasks /\ Tail(queue) \in Seq(Tasks)
    BY <1>1, <1>2 DEF StartNext, TypeOK
  <2>2. TypeOK'
    BY <1>1, <1>2, <2>1 DEF StartNext, TypeOK, FutureStates
  <2>3. Phases' /\ ReleasedOnlyWhenOver'
    BY <1>1, <1>2, <2>1 DEF StartNext, TypeOK, Phases, ReleasedOnlyWhenOver
  <2>4. Charged' = Charged
    BY <1>2 DEF StartNext, Charged
  <2>5. QED
    BY <1>2, <2>2, <2>3, <2>4, NeutralIInv DEF StartNext
<1>3. CASE SkipCancelled(th)
  <2>1. TypeOK'
    BY <1>1, <1>3 DEF SkipCancelled, TypeOK
  <2>2. Phases' /\ ReleasedOnlyWhenOver' /\ Charged' = Charged
    BY <1>1, <1>3 DEF SkipCancelled, Phases, ReleasedOnlyWhenOver, Charged
  <2>3. QED
    BY <1>3, <2>1, <2>2, NeutralIInv DEF SkipCancelled
<1>4. CASE Finish(th)
  <2>1. serving[th] \in Tasks
    BY <1>1, <1>4 DEF Finish, TypeOK
  <2>2. TypeOK'
    BY <1>1, <1>4, <2>1 DEF Finish, TypeOK, FutureStates
  <2>3. Phases' /\ ReleasedOnlyWhenOver'
    BY <1>1, <1>4, <2>1 DEF Finish, TypeOK, Phases, ReleasedOnlyWhenOver
  <2>4. Charged' = Charged
    BY <1>4 DEF Finish, Charged
  <2>5. QED
    BY <1>4, <2>2, <2>3, <2>4, NeutralIInv DEF Finish
<1>5. CASE RunCallback(th)
  <2>1. serving[th] \in Tasks
    BY <1>1, <1>5 DEF RunCallback, TypeOK
  <2>2. serving' \in [Threads -> Tasks \cup {NoTask}]
    BY <1>1, <1>5 DEF RunCallback, TypeOK
  <2>3. QED
    BY <1>5, <2>1, <2>2, ArmedReleaseIInv DEF RunCallback
<1>6. CASE NoCallback(th)
  <2>1. TypeOK'
    BY <1>1, <1>6 DEF NoCallback, TypeOK
  <2>2. Phases' /\ ReleasedOnlyWhenOver' /\ Charged' = Charged
    BY <1>1, <1>6 DEF NoCallback, Phases, ReleasedOnlyWhenOver, Charged
  <2>3. QED
    BY <1>6, <2>1, <2>2, NeutralIInv DEF NoCallback
<1>7. QED
  BY <1>2, <1>3, <1>4, <1>5, <1>6 DEF ThreadStep

(* Cancelling changes the state of a future, not who is charged for it. *)
LEMMA CancelIInv ==
    ASSUME IInv, NEW t \in Tasks, Cancel(t) \/ CancelledCallback(t)
    PROVE  IInv'
<1>1. TypeOK /\ Phases /\ ReleasedOnlyWhenOver
  BY DEF IInv
<1>2. CASE Cancel(t)
  <2>1. TypeOK'
    BY <1>1, <1>2 DEF Cancel, TypeOK, FutureStates
  <2>2. Phases' /\ ReleasedOnlyWhenOver'
    BY <1>1, <1>2 DEF Cancel, TypeOK, Phases, ReleasedOnlyWhenOver
  <2>3. Charged' = Charged
    BY <1>2 DEF Cancel, Charged
  <2>4. QED
    BY <1>2, <2>1, <2>2, <2>3, NeutralIInv DEF Cancel
<1>3. CASE CancelledCallback(t)
  BY <1>1, <1>3, ArmedReleaseIInv DEF CancelledCallback, TypeOK
<1>4. QED
  BY <1>2, <1>3

(* shutdown() cancels queued futures and charges or releases no call. *)
LEMMA ShutdownIInv ==
    ASSUME IInv, ShutdownWait \/ ShutdownNoWait \/ ThreadsJoined \/ DrainStep
    PROVE  IInv'
<1>1. TypeOK /\ Phases /\ ReleasedOnlyWhenOver
  BY DEF IInv
<1>2. CASE DrainCancel
  <2>1. Head(queue) \in Tasks /\ Tail(queue) \in Seq(Tasks)
    BY <1>1, <1>2 DEF DrainCancel, TypeOK
  <2>2. TypeOK'
    BY <1>1, <1>2, <2>1 DEF DrainCancel, TypeOK, FutureStates
  <2>3. Phases' /\ ReleasedOnlyWhenOver'
    BY <1>1, <1>2, <2>1 DEF DrainCancel, TypeOK, Phases, ReleasedOnlyWhenOver
  <2>4. Charged' = Charged
    BY <1>2 DEF DrainCancel, Charged
  <2>5. QED
    BY <1>2, <2>2, <2>3, <2>4, NeutralIInv DEF DrainCancel
<1>3. CASE DrainSkip \/ DrainEnd \/ ShutdownWait \/ ShutdownNoWait \/ ThreadsJoined
  <2>1. UNCHANGED <<call, fut, callback, pending>>
    BY <1>3 DEF DrainSkip, DrainEnd, ShutdownWait, ShutdownNoWait, ThreadsJoined
  <2>2. TypeOK'
    <3>1. queue' \in Seq(Tasks)
      <4>1. CASE DrainSkip
        BY <1>1, <4>1 DEF DrainSkip, TypeOK
      <4>2. CASE DrainEnd \/ ShutdownWait \/ ShutdownNoWait \/ ThreadsJoined
        BY <1>1, <4>2 DEF DrainEnd, ShutdownWait, ShutdownNoWait, ThreadsJoined, TypeOK
      <4>3. QED
        BY <1>3, <4>1, <4>2
    <3>2. shutdown' \in ShutdownStates /\ inHand' \in Tasks \cup {NoTask} /\ serving' = serving
      BY <1>1, <1>3
      DEF DrainSkip, DrainEnd, ShutdownWait, ShutdownNoWait, ThreadsJoined,
          TypeOK, ShutdownStates
    <3>3. QED
      BY <1>1, <2>1, <3>1, <3>2 DEF TypeOK
  <2>3. Phases' /\ ReleasedOnlyWhenOver' /\ Charged' = Charged
    BY <1>1, <2>1 DEF Phases, ReleasedOnlyWhenOver, Charged
  <2>4. QED
    BY <2>1, <2>2, <2>3, NeutralIInv
<1>4. QED
  BY <1>2, <1>3 DEF DrainStep

(* Every step keeps the invariant. *)
LEMMA NextIInv == IInv /\ [Next]_vars => IInv'
<1>1. SUFFICES ASSUME IInv, [Next]_vars PROVE IInv'
  OBVIOUS
<1>2. CASE UNCHANGED vars
  <2>1. TypeOK' /\ Phases' /\ ReleasedOnlyWhenOver' /\ Charged' = Charged
    BY <1>1, <1>2 DEF vars, IInv, TypeOK, Phases, ReleasedOnlyWhenOver, Charged
  <2>2. QED
    BY <1>1, <1>2, <2>1, NeutralIInv DEF vars
<1>3. CASE \E t \in Tasks : SubmitStep(t) \/ Cancel(t) \/ CancelledCallback(t)
  BY <1>1, <1>3, AcquireIInv, RefusalIInv, EnqueueIInv, AddDoneCallbackLateIInv, CancelIInv
  DEF SubmitStep
<1>4. CASE \E th \in Threads : ThreadStep(th)
  BY <1>1, <1>4, ThreadIInv
<1>5. CASE ShutdownWait \/ ShutdownNoWait \/ ThreadsJoined \/ DrainStep
  BY <1>1, <1>5, ShutdownIInv
<1>6. CASE Terminated
  BY <1>2, <1>6 DEF Terminated
<1>7. QED
  BY <1>1, <1>2, <1>3, <1>4, <1>5, <1>6 DEF Next

-----------------------------------------------------------------------------

(* The inductive invariant holds in every reachable state. *)
THEOREM Invariance == SafeSpec => []IInv
BY InitIInv, NextIInv, PTL DEF SafeSpec

(* Every variable keeps its type; in particular the count is never negative: *)
(* no slot is given back twice.                                              *)
THEOREM TypeCorrect == SafeSpec => []TypeOK
<1>1. IInv => TypeOK
  BY DEF IInv
<1>2. QED
  BY <1>1, Invariance, PTL

(* self._pending_count is the number of calls charged for a slot. *)
THEOREM CountIsExact == SafeSpec => []SlotAccounting
<1>1. IInv => SlotAccounting
  BY DEF IInv
<1>2. QED
  BY <1>1, Invariance, PTL

(* No caller of submit() sleeps while a slot is free. *)
THEOREM WaitersAreWoken == SafeSpec => []NoLostWakeup
<1>1. IInv => NoLostWakeup
  BY DEF IInv
<1>2. QED
  BY <1>1, Invariance, PTL

(* A slot comes back only when the work it stands for is over. *)
THEOREM SlotsOutliveWork == SafeSpec => []ReleasedOnlyWhenOver
<1>1. IInv => ReleasedOnlyWhenOver
  BY DEF IInv
<1>2. QED
  BY <1>1, Invariance, PTL

(* The futures that are queued or running are charged, so there are at most *)
(* max_pending of them, for any number of callers and threads.              *)
THEOREM BackpressureHolds == SafeSpec => []Backpressure
<1>1. IInv => Backpressure
  <2>1. SUFFICES ASSUME IInv PROVE Backpressure
    OBVIOUS
  <2> DEFINE Active == {t \in Tasks : fut[t] \in {"pending", "running"}}
  <2>2. Active \in SUBSET Charged
    BY <2>1 DEF IInv, TypeOK, CallStates, Phases, ReleasedOnlyWhenOver, Charged
  <2>3. IsFiniteSet(Active) /\ Cardinality(Active) <= Cardinality(Charged)
    BY <2>2, ChargedFinite, FS_Subset
  <2>4. Cardinality(Active) \in Nat
    BY <2>3, FS_CardinalityType
  <2>5. Cardinality(Charged) <= MaxPending
    BY <2>1 DEF IInv, SlotAccounting, CountBounded
  <2>6. QED
    BY <2>3, <2>4, <2>5, ChargedFinite, MaxPendingAssumption DEF Backpressure
<1>2. QED
  BY <1>1, Invariance, PTL

-----------------------------------------------------------------------------
(* Who still holds the work that was accepted. *)

Holders ==
    /\ \A t \in Tasks : fut[t] = "pending" => \E i \in DOMAIN queue : queue[i] = t
    /\ \A t \in Tasks : fut[t] = "running" => \E th \in Threads : serving[th] = t
    /\ shutdown \in {"joined", "closed"} => queue = <<>>
    /\ shutdown = "joined" => \A th \in Threads : serving[th] = NoTask

(* Taking the head of the queue leaves every other item in it. *)
LEMMA Dequeued ==
    ASSUME TypeOK, queue # <<>>, queue' = Tail(queue)
    PROVE  /\ Head(queue) \in Tasks
           /\ \A t \in Tasks \ {Head(queue)} :
                 (\E i \in DOMAIN queue : queue[i] = t) => \E i \in DOMAIN queue' : queue'[i] = t
<1>1. /\ queue \in Seq(Tasks) /\ Len(queue) \in Nat \ {0}
      /\ Head(queue) = queue[1] /\ Len(queue') = Len(queue) - 1
      /\ DOMAIN queue = 1 .. Len(queue) /\ DOMAIN queue' = 1 .. Len(queue')
      /\ \A i \in 1 .. Len(queue) - 1 : queue'[i] = queue[i + 1]
  BY DEF TypeOK
<1>2. ASSUME NEW t \in Tasks \ {Head(queue)}, NEW i \in DOMAIN queue, queue[i] = t
      PROVE  \E j \in DOMAIN queue' : queue'[j] = t
  <2>1. i - 1 \in DOMAIN queue' /\ queue'[i - 1] = t
    BY <1>1, <1>2
  <2>2. QED
    BY <2>1
<1>3. QED
  BY <1>1, <1>2

(* A thread takes the head, or drops it when it was cancelled; a draining  *)
(* shutdown cancels it or drops it.                                        *)
LEMMA DequeueHolders ==
    ASSUME IInv, Holders,
           \/ \E th \in Threads : StartNext(th) \/ SkipCancelled(th)
           \/ DrainCancel \/ DrainSkip
    PROVE  Holders'
<1>1. TypeOK /\ queue # <<>> /\ queue' = Tail(queue) /\ shutdown' = shutdown
  BY DEF IInv, StartNext, SkipCancelled, DrainCancel, DrainSkip
<1>2. shutdown \notin {"joined", "closed"}
  BY <1>1 DEF Holders
<1>3. ASSUME NEW t \in Tasks, fut'[t] = "pending"
      PROVE  t # Head(queue) /\ fut[t] = "pending"
  BY <1>1, <1>3, Dequeued DEF TypeOK, StartNext, SkipCancelled, DrainCancel, DrainSkip
<1>4. ASSUME NEW t \in Tasks, fut'[t] = "running"
      PROVE  \E th \in Threads : serving'[th] = t
  <2>1. CASE \E th \in Threads : StartNext(th)
    <3>1. PICK th \in Threads : StartNext(th)
      BY <2>1
    <3>2. CASE t = Head(queue)
      BY <1>1, <3>1, <3>2 DEF StartNext, TypeOK
    <3>3. CASE t # Head(queue)
      <4>1. PICK other \in Threads : serving[other] = t
        BY <1>1, <1>4, <3>1, <3>3, Dequeued DEF StartNext, TypeOK, Holders
      <4>2. other # th
        BY <3>1, <4>1, TasksAssumption DEF StartNext
      <4>3. serving'[other] = t
        BY <1>1, <3>1, <4>1, <4>2 DEF StartNext, TypeOK
      <4>4. QED
        BY <4>3
    <3>4. QED
      BY <3>2, <3>3
  <2>2. CASE ~ \E th \in Threads : StartNext(th)
    <3>1. serving' = serving /\ fut[t] = "running"
      BY <1>1, <1>4, <2>2, Dequeued DEF TypeOK, SkipCancelled, DrainCancel, DrainSkip
    <3>2. QED
      BY <3>1 DEF Holders
  <2>3. QED
    BY <2>1, <2>2
<1>5. QED
  BY <1>1, <1>2, <1>3, <1>4, Dequeued DEF Holders

(* The end of a generation, and the callbacks after it. *)
LEMMA FinishHolders ==
    ASSUME IInv, Holders, NEW th \in Threads, Finish(th) \/ RunCallback(th) \/ NoCallback(th)
    PROVE  Holders'
<1>1. /\ TypeOK /\ queue' = queue /\ shutdown' = shutdown
      /\ serving[th] \in Tasks /\ shutdown # "joined"
  BY DEF IInv, TypeOK, Holders, Finish, RunCallback, NoCallback
<1>2. \A t \in Tasks : /\ fut'[t] = "pending" => fut[t] = "pending"
                       /\ fut'[t] = "running" => fut[t] = "running"
  BY <1>1 DEF TypeOK, Finish, RunCallback, NoCallback
<1>3. ASSUME NEW t \in Tasks, fut'[t] = "running"
      PROVE  \E other \in Threads : serving'[other] = t
  <2>1. PICK other \in Threads : serving[other] = t
    BY <1>2, <1>3 DEF Holders
  <2>2. serving'[other] = t
    BY <1>1, <1>3, <2>1 DEF TypeOK, Finish, RunCallback, NoCallback
  <2>3. QED
    BY <2>2
<1>4. QED
  BY <1>1, <1>2, <1>3 DEF Holders

(* Calls, cancellations and the other steps of a shutdown take nothing     *)
(* out of a queue and off no thread.                                       *)
LEMMA CallHolders ==
    ASSUME IInv, Holders,
           \/ \E t \in Tasks : SubmitStep(t) \/ Cancel(t) \/ CancelledCallback(t)
           \/ ShutdownWait \/ ShutdownNoWait \/ ThreadsJoined \/ DrainEnd
    PROVE  Holders'
<1>1. TypeOK /\ serving' = serving
  BY DEF IInv, SubmitStep, Acquire, Block, GiveUp, Enqueue, EnqueueFails, AddDoneCallback,
         AddDoneCallbackLate, Cancel, CancelledCallback, ShutdownWait, ShutdownNoWait,
         ThreadsJoined, DrainEnd
<1>2. CASE \E t \in Tasks : Enqueue(t)
  <2>1. PICK t \in Tasks : Enqueue(t)
    BY <1>2
  <2>2. /\ DOMAIN queue = 1 .. Len(queue) /\ Len(queue) \in Nat
        /\ DOMAIN queue' = 1 .. (Len(queue) + 1)
        /\ queue'[Len(queue) + 1] = t
        /\ \A i \in DOMAIN queue : queue'[i] = queue[i]
    BY <1>1, <2>1 DEF TypeOK, Enqueue
  <2>3. \A u \in Tasks \ {t} : fut'[u] = fut[u]
    BY <1>1, <2>1 DEF TypeOK, Enqueue
  <2>4. fut'[t] = "pending" /\ shutdown' = "open"
    BY <1>1, <2>1 DEF TypeOK, Enqueue
  <2>5. QED
    BY <1>1, <2>2, <2>3, <2>4 DEF Holders
<1>3. CASE ~ \E t \in Tasks : Enqueue(t)
  <2>1. queue' = queue
    BY <1>3 DEF SubmitStep, Acquire, Block, GiveUp, EnqueueFails, AddDoneCallback,
                AddDoneCallbackLate, Cancel, CancelledCallback, ShutdownWait, ShutdownNoWait,
                ThreadsJoined, DrainEnd
  <2>2. \A u \in Tasks : fut'[u] = fut[u] \/ fut'[u] = "cancelled"
    BY <1>1, <1>3
    DEF TypeOK, SubmitStep, Acquire, Block, GiveUp, EnqueueFails, AddDoneCallback,
        AddDoneCallbackLate, Cancel, CancelledCallback, ShutdownWait, ShutdownNoWait,
        ThreadsJoined, DrainEnd
  <2>3. \/ shutdown' = shutdown
        \/ shutdown' \in {"joining", "draining"}
        \/ shutdown' = "joined" /\ queue = <<>> /\ \A th \in Threads : serving[th] = NoTask
        \/ shutdown' = "closed" /\ queue = <<>>
    BY <1>3
    DEF SubmitStep, Acquire, Block, GiveUp, EnqueueFails, AddDoneCallback,
        AddDoneCallbackLate, Cancel, CancelledCallback, ShutdownWait, ShutdownNoWait,
        ThreadsJoined, DrainEnd
  <2>4. QED
    BY <1>1, <2>1, <2>2, <2>3 DEF Holders
<1>4. QED
  BY <1>2, <1>3

(* Every step keeps accepted work in somebody's hands. *)
LEMMA NextHolders == IInv /\ Holders /\ [Next]_vars => Holders'
<1>1. SUFFICES ASSUME IInv, Holders, [Next]_vars PROVE Holders'
  OBVIOUS
<1>2. CASE UNCHANGED vars \/ Terminated
  BY <1>1, <1>2 DEF vars, Terminated, Holders
<1>3. CASE Next /\ ~Terminated
  BY <1>1, <1>3, DequeueHolders, FinishHolders, CallHolders DEF Next, ThreadStep, DrainStep
<1>4. QED
  BY <1>1, <1>2, <1>3

(* Once shutdown() has returned nothing that was accepted is queued, and   *)
(* with wait=True nothing runs: no handler awaits a future that nobody     *)
(* will ever complete.                                                     *)
THEOREM NoneAbandoned == SafeSpec => []NoFutureAbandoned
<1>1. Init => Holders
  BY DEF Init, Holders
<1>2. Holders => NoFutureAbandoned
  <2>1. SUFFICES ASSUME Holders, NEW t \in Tasks
                 PROVE  /\ shutdown \in {"joined", "closed"} => fut[t] # "pending"
                        /\ shutdown = "joined" => fut[t] # "running"
    BY DEF NoFutureAbandoned
  <2>2. DOMAIN <<>> = {}
    OBVIOUS
  <2>3. QED
    BY <2>1, <2>2, TasksAssumption DEF Holders
<1>3. QED
  BY <1>1, <1>2, NextHolders, Invariance, PTL DEF SafeSpec

-----------------------------------------------------------------------------
(* What the count is when nothing is under way. *)

Lost == {t \in Tasks : call[t] = "failed"}

AtRest == \A t \in Tasks : call[t] \in {"idle", "rejected", "failed"} \/ callback[t] = "done"

(* Only a call that met shutdown() leaves the count too high, each by one. *)
CountsTheLost ==
    AtRest => PendingCount = Cardinality(Lost)

NoneLostWhileOpen == shutdown = "open" => Lost = {}

(* The executor refuses a call only once shutdown() has begun. *)
LEMMA NextNoneLost == TypeOK /\ NoneLostWhileOpen /\ [Next]_vars => NoneLostWhileOpen'
<1>1. SUFFICES ASSUME TypeOK, NoneLostWhileOpen, [Next]_vars, shutdown' = "open"
               PROVE  Lost' = {}
  BY DEF NoneLostWhileOpen
<1>2. SUFFICES shutdown = "open" /\ \A t \in Tasks : call'[t] = "failed" => call[t] = "failed"
  BY <1>1, <1>2 DEF NoneLostWhileOpen, Lost
<1>3. CASE UNCHANGED vars \/ Terminated
  BY <1>1, <1>3 DEF vars, Terminated
<1>4. ASSUME NEW t \in Tasks, SubmitStep(t)
      PROVE  shutdown = "open" /\ \A u \in Tasks : call'[u] = "failed" => call[u] = "failed"
  BY <1>1, <1>4
  DEF TypeOK, SubmitStep, Acquire, Block, GiveUp, Enqueue, EnqueueFails, AddDoneCallback,
      AddDoneCallbackLate, OnComplete
<1>5. ASSUME NEW t \in Tasks, Cancel(t) \/ CancelledCallback(t)
      PROVE  shutdown = "open" /\ \A u \in Tasks : call'[u] = "failed" => call[u] = "failed"
  BY <1>1, <1>5 DEF TypeOK, Cancel, CancelledCallback, OnComplete
<1>6. ASSUME NEW th \in Threads, ThreadStep(th)
      PROVE  shutdown = "open" /\ \A u \in Tasks : call'[u] = "failed" => call[u] = "failed"
  BY <1>1, <1>6
  DEF TypeOK, ThreadStep, StartNext, SkipCancelled, Finish, RunCallback, NoCallback, OnComplete
<1>7. CASE ShutdownWait \/ ShutdownNoWait \/ ThreadsJoined \/ DrainStep
  BY <1>1, <1>7 DEF ShutdownWait, ShutdownNoWait, ThreadsJoined, DrainStep, DrainCancel, DrainSkip,
                    DrainEnd
<1>8. QED
  BY <1>1, <1>3, <1>4, <1>5, <1>6, <1>7 DEF Next

(* The leak is the race with shutdown() and nothing else: when no call is   *)
(* under way and no generation is unfinished, pending_count is the number  *)
(* of calls that the executor refused after their reservation (l.69-80),   *)
(* and zero as long as shutdown() has not been called.                     *)
THEOREM LeaksOnlyToShutdown ==
    SafeSpec => [](CountsTheLost /\ (shutdown = "open" => CountIsZeroAtRest))
<1>1. ASSUME IInv, NoneLostWhileOpen
      PROVE  CountsTheLost /\ (shutdown = "open" => CountIsZeroAtRest)
  <2>1. ASSUME AtRest PROVE Charged = Lost
    BY <1>1, <2>1 DEF IInv, Phases, AtRest, Charged, Lost
  <2>2. CountsTheLost
    BY <1>1, <2>1 DEF CountsTheLost, IInv, SlotAccounting, PendingCount
  <2>3. ASSUME shutdown = "open" PROVE CountIsZeroAtRest
    <3>1. Cardinality(Lost) = 0
      BY <1>1, <2>3, FS_EmptySet DEF NoneLostWhileOpen
    <3>2. QED
      BY <2>2, <3>1 DEF CountsTheLost, AtRest, CountIsZeroAtRest
  <2>4. QED
    BY <2>2, <2>3
<1>2. Init => NoneLostWhileOpen
  BY DEF Init, NoneLostWhileOpen, Lost
<1>3. QED
  BY <1>1, <1>2, NextNoneLost, Invariance, TypeCorrect, PTL DEF SafeSpec

-----------------------------------------------------------------------------
(* SyntheticWorker implements GenerationSlots. *)

(* The slots taken in the abstract state are those of the charged calls. *)
LEMMA TakenIsCharged == IInv => Slots!Taken = Charged
BY DEF IInv, TypeOK, CallStates, CallbackStates, Phases, Slots!Taken, SlotOf, Charged

(* Both modules extend FiniteSets: its cardinality is the same in each. *)
LEMMA SameCardinality == \A S : Slots!Cardinality(S) = Cardinality(S)
BY DEF Cardinality, Slots!Cardinality

(* Charged calls never outnumber max_pending, and they are counted. *)
LEMMA CountIsCardinality ==
    IInv => /\ Slots!Cardinality(Slots!Taken) = pending
            /\ pending \in Nat
            /\ pending <= MaxPending
BY TakenIsCharged, SameCardinality DEF IInv, SlotAccounting, CountBounded, TypeOK

(* No call has begun: every slot is free. *)
LEMMA InitRefines == Init => Slots!Init
BY DEF Init, Slots!Init, SlotOf

(* What a step does to the slot of each call, when it is not closing. *)
LEMMA SlotSteps ==
    ASSUME IInv, NEW t \in Tasks, (shutdown # "open")' = (shutdown # "open"),
           \A u \in Tasks \ {t} : SlotOf(u)' = SlotOf(u),
           \/ SlotOf(t)' = SlotOf(t)
           \/ SlotOf(t) = "none" /\ SlotOf(t)' = "held" /\ pending < MaxPending
           \/ SlotOf(t) = "none" /\ SlotOf(t)' = "refused" /\ pending >= MaxPending
           \/ SlotOf(t) = "held" /\ SlotOf(t)' = "released"
           \/ SlotOf(t) = "held" /\ SlotOf(t)' = "lost" /\ shutdown # "open"
    PROVE  [Slots!Next]_(Slots!slotVars)
<1> DEFINE before == [u \in Tasks |-> SlotOf(u)]
           after  == [u \in Tasks |-> SlotOf(u)']
<1>1. /\ before[t] = SlotOf(t)
      /\ after = [before EXCEPT ![t] = SlotOf(t)']
  OBVIOUS
<1>2. CASE SlotOf(t)' = SlotOf(t)
  <2>1. after = before
    BY <1>2
  <2>2. QED
    BY <2>1 DEF Slots!slotVars
<1>3. CASE SlotOf(t) = "none" /\ SlotOf(t)' = "held" /\ pending < MaxPending
  BY <1>1, <1>3, CountIsCardinality DEF Slots!Acquire, Slots!Next
<1>4. CASE SlotOf(t) = "none" /\ SlotOf(t)' = "refused" /\ pending >= MaxPending
  <2>1. pending = MaxPending
    BY <1>4, CountIsCardinality, MaxPendingAssumption
  <2>2. QED
    BY <1>1, <1>4, <2>1, CountIsCardinality DEF Slots!Refuse, Slots!Next
<1>5. CASE SlotOf(t) = "held" /\ SlotOf(t)' = "released"
  BY <1>1, <1>5 DEF Slots!Release, Slots!Next
<1>6. CASE SlotOf(t) = "held" /\ SlotOf(t)' = "lost" /\ shutdown # "open"
  BY <1>1, <1>6 DEF Slots!Lose, Slots!Next
<1>7. QED
  BY <1>2, <1>3, <1>4, <1>5, <1>6

(* A step that leaves the state of the shutdown alone and changes at most *)
(* what the variables say of call t is a step or a stutter of the slots.  *)
LEMMA SubmitRefines ==
    ASSUME IInv, NEW t \in Tasks, SubmitStep(t)
    PROVE  [Slots!Next]_(Slots!slotVars)
<1>1. TypeOK /\ Phases
  BY DEF IInv
<1>2. (shutdown # "open")' = (shutdown # "open")
  BY DEF SubmitStep, Acquire, Block, GiveUp, Enqueue, EnqueueFails, AddDoneCallback,
         AddDoneCallbackLate
<1>3. \A u \in Tasks \ {t} : SlotOf(u)' = SlotOf(u)
  BY <1>1
  DEF SubmitStep, Acquire, Block, GiveUp, Enqueue, EnqueueFails, AddDoneCallback,
      AddDoneCallbackLate, OnComplete, SlotOf, TypeOK
<1>4. CASE Acquire(t)
  <2>1. SlotOf(t) = "none" /\ SlotOf(t)' = "held" /\ pending < MaxPending
    BY <1>1, <1>4 DEF Acquire, SlotOf, TypeOK, Phases
  <2>2. QED
    BY <1>2, <1>3, <2>1, SlotSteps
<1>5. CASE Block(t) \/ Enqueue(t) \/ AddDoneCallback(t)
  <2>1. SlotOf(t)' = SlotOf(t)
    BY <1>1, <1>5 DEF Block, Enqueue, AddDoneCallback, SlotOf, TypeOK, Phases
  <2>2. QED
    BY <1>2, <1>3, <2>1, SlotSteps
<1>6. CASE GiveUp(t)
  <2>1. SlotOf(t) = "none" /\ SlotOf(t)' = "refused" /\ pending >= MaxPending
    BY <1>1, <1>6 DEF GiveUp, SlotOf, TypeOK
  <2>2. QED
    BY <1>2, <1>3, <2>1, SlotSteps
<1>7. CASE EnqueueFails(t)
  <2>1. SlotOf(t) = "held" /\ SlotOf(t)' = "lost" /\ shutdown # "open"
    BY <1>1, <1>7 DEF EnqueueFails, SlotOf, TypeOK, Phases
  <2>2. QED
    BY <1>2, <1>3, <2>1, SlotSteps
<1>8. CASE AddDoneCallbackLate(t)
  <2>1. SlotOf(t) = "held" /\ SlotOf(t)' = "released"
    BY <1>1, <1>8 DEF AddDoneCallbackLate, OnComplete, SlotOf, TypeOK, Phases
  <2>2. QED
    BY <1>2, <1>3, <2>1, SlotSteps
<1>9. QED
  BY <1>4, <1>5, <1>6, <1>7, <1>8 DEF SubmitStep

(* An armed callback gives one slot back; the waiters it wakes have none. *)
LEMMA ArmedReleaseRefines ==
    ASSUME IInv, NEW t \in Tasks, callback[t] = "armed", OnComplete(t, call),
           shutdown' = shutdown
    PROVE  [Slots!Next]_(Slots!slotVars)
<1>1. TypeOK /\ Phases
  BY DEF IInv
<1>2. \A u \in Tasks \ {t} : SlotOf(u)' = SlotOf(u)
  BY <1>1 DEF OnComplete, SlotOf, TypeOK
<1>3. SlotOf(t) = "held" /\ SlotOf(t)' = "released"
  BY <1>1 DEF OnComplete, SlotOf, TypeOK, Phases
<1>4. QED
  BY <1>2, <1>3, SlotSteps

(* Futures, the queue and the threads' hands do not show in the slots. *)
LEMMA UnseenRefines ==
    ASSUME UNCHANGED <<call, callback, shutdown>>
    PROVE  UNCHANGED Slots!slotVars
BY DEF Slots!slotVars, SlotOf

(* The first step of shutdown() closes the slots, the others do not show. *)
LEMMA ShutdownRefines ==
    ASSUME ShutdownWait \/ ShutdownNoWait \/ ThreadsJoined \/ DrainStep
    PROVE  [Slots!Next]_(Slots!slotVars)
<1>1. UNCHANGED <<call, callback>>
  BY DEF ShutdownWait, ShutdownNoWait, ThreadsJoined, DrainStep, DrainCancel, DrainSkip, DrainEnd
<1>2. [u \in Tasks |-> SlotOf(u)]' = [u \in Tasks |-> SlotOf(u)]
  BY <1>1 DEF SlotOf
<1>3. CASE ShutdownWait \/ ShutdownNoWait
  <2>1. ~(shutdown # "open") /\ (shutdown # "open")' = TRUE
    BY <1>3 DEF ShutdownWait, ShutdownNoWait
  <2>2. Slots!Close
    BY <1>2, <2>1 DEF Slots!Close
  <2>3. QED
    BY <2>2 DEF Slots!Next
<1>4. CASE ThreadsJoined \/ DrainStep
  <2>1. (shutdown # "open")' = (shutdown # "open")
    BY <1>4 DEF ThreadsJoined, DrainStep, DrainCancel, DrainSkip, DrainEnd
  <2>2. QED
    BY <1>2, <2>1 DEF Slots!slotVars
<1>5. QED
  BY <1>3, <1>4

(* Every step of the worker is a step or a stutter of the slots. *)
LEMMA NextRefines == IInv /\ [Next]_vars => [Slots!Next]_(Slots!slotVars)
<1>1. SUFFICES ASSUME IInv, [Next]_vars PROVE [Slots!Next]_(Slots!slotVars)
  OBVIOUS
<1>2. CASE UNCHANGED vars
  BY <1>2, UnseenRefines DEF vars
<1>3. ASSUME NEW t \in Tasks, SubmitStep(t) \/ Cancel(t) \/ CancelledCallback(t)
      PROVE  [Slots!Next]_(Slots!slotVars)
  BY <1>1, <1>3, SubmitRefines, ArmedReleaseRefines, UnseenRefines
  DEF Cancel, CancelledCallback
<1>4. ASSUME NEW th \in Threads, ThreadStep(th)
      PROVE  [Slots!Next]_(Slots!slotVars)
  <2>1. CASE RunCallback(th)
    <3>1. serving[th] \in Tasks
      BY <1>1, <2>1 DEF RunCallback, IInv, TypeOK
    <3>2. QED
      BY <1>1, <2>1, <3>1, ArmedReleaseRefines DEF RunCallback
  <2>2. CASE StartNext(th) \/ SkipCancelled(th) \/ Finish(th) \/ NoCallback(th)
    BY <2>2, UnseenRefines DEF StartNext, SkipCancelled, Finish, NoCallback
  <2>3. QED
    BY <1>4, <2>1, <2>2 DEF ThreadStep
<1>5. CASE ShutdownWait \/ ShutdownNoWait \/ ThreadsJoined \/ DrainStep
  BY <1>5, ShutdownRefines
<1>6. CASE Terminated
  BY <1>2, <1>6 DEF Terminated
<1>7. QED
  BY <1>1, <1>2, <1>3, <1>4, <1>5, <1>6 DEF Next

(* For any number of callers and threads and any max_pending, the counter, *)
(* the condition variable and the callbacks implement the slots.           *)
THEOREM Refinement == SafeSpec => ImplementsSlots
BY InitRefines, NextRefines, Invariance, PTL DEF SafeSpec, ImplementsSlots, Slots!SafeSpec
==============================================================================
