--------------------------- MODULE SyntheticWorker ---------------------------
(***************************************************************************)
(* SyntheticDataWorker (src/core/synthetic_worker.py): submit() reserves a *)
(* slot under a condition variable, hands the task to a ThreadPoolExecutor *)
(* outside the lock and adds the done-callback that gives the slot back.   *)
(* Callers, executor threads, clients that cancel a future and a thread    *)
(* that calls shutdown() interleave.                                       *)
(*                                                                         *)
(* A critical section of self._condition never blocks except in wait_for,  *)
(* which releases the lock: each is one step.  The executor and its futures *)
(* are the CPython library, modelled from how this class uses them: a      *)
(* future is FINISHED, and its result readable, before its callbacks run.  *)
(***************************************************************************)
EXTENDS Naturals, FiniteSets, Sequences

CONSTANTS Tasks,        (* the submit() calls of a behaviour, each with its caller *)
          Threads,      (* the executor's threads: max_workers of them             *)
          MaxPending,   (* max_pending                                             *)
          NoTask        (* what an idle thread has in hand                         *)

ASSUME TasksAssumption == IsFiniteSet(Tasks) /\ NoTask \notin Tasks
(* settings.py: max_threads and max_pending are at least 1 *)
ASSUME MaxPendingAssumption == MaxPending \in Nat \ {0}
ASSUME ThreadsAssumption == Threads # {}

VARIABLES
    call,       (* how far each submit() call is                        *)
    fut,        (* state of the call's concurrent.futures.Future        *)
    callback,   (* _on_complete of the future: unset, armed, done       *)
    queue,      (* the executor's work queue                            *)
    serving,    (* the work item each executor thread has in hand       *)
    pending,    (* self._pending_count                                  *)
    shutdown,   (* progress of the one shutdown() call                  *)
    inHand      (* work item the draining shutdown() has just cancelled *)

vars == <<call, fut, callback, queue, serving, pending, shutdown, inHand>>

CallStates == {"idle", "waiting", "notified", "reserved", "enqueued",
               "returned", "rejected", "failed"}
FutureStates == {"none", "pending", "running", "finished", "cancelled"}
CallbackStates == {"unset", "armed", "done"}
ShutdownStates == {"open", "joining", "joined", "draining", "closed"}

TypeOK ==
    /\ call \in [Tasks -> CallStates]
    /\ fut \in [Tasks -> FutureStates]
    /\ callback \in [Tasks -> CallbackStates]
    /\ queue \in Seq(Tasks)
    /\ serving \in [Threads -> Tasks \cup {NoTask}]
    /\ pending \in Nat
    /\ shutdown \in ShutdownStates
    /\ inHand \in Tasks \cup {NoTask}

Init ==
    /\ call = [t \in Tasks |-> "idle"]
    /\ fut = [t \in Tasks |-> "none"]
    /\ callback = [t \in Tasks |-> "unset"]
    /\ queue = <<>>
    /\ serving = [th \in Threads |-> NoTask]
    /\ pending = 0
    /\ shutdown = "open"
    /\ inHand = NoTask

-----------------------------------------------------------------------------
(* The properties of the worker a caller can read. *)

PendingCount == pending
IsAtCapacity == pending >= MaxPending

-----------------------------------------------------------------------------
(* submit(), first critical section: wait_for re-evaluates its predicate on *)
(* entry, after a notification and after a timed wait.                      *)

(* Seeded fault: the result of the timed wait is not looked at. *)
AcquireIgnoringTimeout(t) ==
    /\ call[t] \in {"idle", "waiting", "notified"}
    /\ pending < MaxPending \/ call[t] = "waiting"
    /\ call' = [call EXCEPT ![t] = "reserved"]
    /\ pending' = pending + 1
    /\ UNCHANGED <<fut, callback, queue, serving, shutdown, inHand>>

Acquire(t) ==
    /\ call[t] \in {"idle", "waiting", "notified"}
    /\ pending < MaxPending
    /\ call' = [call EXCEPT ![t] = "reserved"]
    /\ pending' = pending + 1
    /\ UNCHANGED <<fut, callback, queue, serving, shutdown, inHand>>

(* No slot, and time left of the five seconds. *)
Block(t) ==
    /\ call[t] \in {"idle", "notified"}
    /\ pending >= MaxPending
    /\ call' = [call EXCEPT ![t] = "waiting"]
    /\ UNCHANGED <<fut, callback, queue, serving, pending, shutdown, inHand>>

(* Seeded fault: when the five seconds are over, the wait starts again. *)
GiveUpNever(t) ==
    /\ call[t] \in {"waiting", "notified"}
    /\ pending >= MaxPending
    /\ UNCHANGED vars

(* Seeded fault: the predicate is not evaluated again after the wait. *)
GiveUpUnchecked(t) ==
    /\ call[t] \in {"waiting", "notified"}
    /\ call' = [call EXCEPT ![t] = "rejected"]
    /\ UNCHANGED <<fut, callback, queue, serving, pending, shutdown, inHand>>

(* No slot, and the five seconds are over: WorkerCapacityError. *)
GiveUp(t) ==
    /\ call[t] \in {"waiting", "notified"}
    /\ pending >= MaxPending
    /\ call' = [call EXCEPT ![t] = "rejected"]
    /\ UNCHANGED <<fut, callback, queue, serving, pending, shutdown, inHand>>

(* executor.submit(), outside the condition's lock but under the executor's *)
(* own, which a draining shutdown() holds.                                  *)
Enqueue(t) ==
    /\ call[t] = "reserved"
    /\ shutdown = "open"
    /\ call' = [call EXCEPT ![t] = "enqueued"]
    /\ fut' = [fut EXCEPT ![t] = "pending"]
    /\ queue' = Append(queue, t)
    /\ UNCHANGED <<callback, serving, pending, shutdown, inHand>>

(* executor.submit() raises RuntimeError: no future, no callback, and the *)
(* reserved slot is not given back.                                       *)
EnqueueFails(t) ==
    /\ call[t] = "reserved"
    /\ shutdown \in {"joining", "joined", "closed"}
    /\ call' = [call EXCEPT ![t] = "failed"]
    /\ UNCHANGED <<fut, callback, queue, serving, pending, shutdown, inHand>>

(* Seeded fault: notify() in the place of notify_all(). *)
OnCompleteNotifyOne(t, calls) ==
    LET waiters == {u \in Tasks : calls[u] = "waiting"} IN
    /\ callback' = [callback EXCEPT ![t] = "done"]
    /\ pending' = pending - 1
    /\ IF waiters = {}
       THEN call' = calls
       ELSE \E u \in waiters : call' = [calls EXCEPT ![u] = "notified"]

(* _on_complete(t), on whichever thread runs it: decrement and notify_all. *)
OnComplete(t, calls) ==
    /\ callback' = [callback EXCEPT ![t] = "done"]
    /\ pending' = pending - 1
    /\ call' = [u \in Tasks |->
                  IF calls[u] = "waiting" THEN "notified" ELSE calls[u]]

(* Seeded fault: submit() gives the slot back itself, as a finally would. *)
AddDoneCallbackReleasing(t) ==
    /\ call[t] = "enqueued"
    /\ OnComplete(t, [call EXCEPT ![t] = "returned"])
    /\ UNCHANGED <<fut, queue, serving, shutdown, inHand>>

(* add_done_callback() on a future that is not done, then return. *)
AddDoneCallback(t) ==
    /\ call[t] = "enqueued"
    /\ fut[t] \notin {"finished", "cancelled"}
    /\ callback' = [callback EXCEPT ![t] = "armed"]
    /\ call' = [call EXCEPT ![t] = "returned"]
    /\ UNCHANGED <<fut, queue, serving, pending, shutdown, inHand>>

(* Seeded fault: the callback is put on the list of a future whose list has *)
(* been run already.                                                        *)
AddDoneCallbackTooLate(t) ==
    /\ call[t] = "enqueued"
    /\ fut[t] \in {"finished", "cancelled"}
    /\ callback' = [callback EXCEPT ![t] = "unset"]
    /\ call' = [call EXCEPT ![t] = "returned"]
    /\ UNCHANGED <<fut, queue, serving, pending, shutdown, inHand>>

(* add_done_callback() on a future that is already done runs it at once, *)
(* on the caller's thread.                                               *)
AddDoneCallbackLate(t) ==
    /\ call[t] = "enqueued"
    /\ fut[t] \in {"finished", "cancelled"}
    /\ OnComplete(t, [call EXCEPT ![t] = "returned"])
    /\ UNCHANGED <<fut, queue, serving, shutdown, inHand>>

-----------------------------------------------------------------------------
(* Executor threads. *)

StartNext(th) ==
    /\ serving[th] = NoTask
    /\ queue # <<>>
    /\ fut[Head(queue)] = "pending"
    /\ serving' = [serving EXCEPT ![th] = Head(queue)]
    /\ fut' = [fut EXCEPT ![Head(queue)] = "running"]
    /\ queue' = Tail(queue)
    /\ UNCHANGED <<call, callback, pending, shutdown, inHand>>

(* Seeded fault: a cancelled item stays at the head of the queue. *)
SkipCancelledNever(th) ==
    /\ serving[th] = NoTask
    /\ queue # <<>>
    /\ fut[Head(queue)] = "cancelled"
    /\ UNCHANGED vars

(* A future cancelled while it was queued is dropped when its turn comes. *)
SkipCancelled(th) ==
    /\ serving[th] = NoTask
    /\ queue # <<>>
    /\ fut[Head(queue)] = "cancelled"
    /\ queue' = Tail(queue)
    /\ UNCHANGED <<call, fut, callback, serving, pending, shutdown, inHand>>

(* _generate_with_cleanup returns or raises: set_result or set_exception. *)
Finish(th) ==
    /\ serving[th] # NoTask
    /\ fut[serving[th]] = "running"
    /\ fut' = [fut EXCEPT ![serving[th]] = "finished"]
    /\ UNCHANGED <<call, callback, queue, serving, pending, shutdown, inHand>>

(* ... and only then the callbacks that were armed by that time. *)
RunCallback(th) ==
    /\ serving[th] # NoTask
    /\ fut[serving[th]] = "finished"
    /\ callback[serving[th]] = "armed"
    /\ OnComplete(serving[th], call)
    /\ serving' = [serving EXCEPT ![th] = NoTask]
    /\ UNCHANGED <<fut, queue, shutdown, inHand>>

(* Seeded fault: the thread gives back a slot that the caller gives back too. *)
NoCallbackReleasing(th) ==
    /\ serving[th] # NoTask
    /\ fut[serving[th]] = "finished"
    /\ callback[serving[th]] # "armed"
    /\ pending' = pending - 1
    /\ serving' = [serving EXCEPT ![th] = NoTask]
    /\ UNCHANGED <<call, fut, callback, queue, shutdown, inHand>>

(* No callback was armed: the caller runs it, or has run it. *)
NoCallback(th) ==
    /\ serving[th] # NoTask
    /\ fut[serving[th]] = "finished"
    /\ callback[serving[th]] # "armed"
    /\ serving' = [serving EXCEPT ![th] = NoTask]
    /\ UNCHANGED <<call, fut, callback, queue, pending, shutdown, inHand>>

-----------------------------------------------------------------------------
(* Clients: asyncio.wrap_future passes a cancellation of the awaiting task *)
(* on to the future.  Future.cancel() does nothing to one that is running  *)
(* or done, and runs the callbacks after it has set the state.             *)

Cancel(t) ==
    /\ call[t] = "returned"
    /\ fut[t] = "pending"
    /\ fut' = [fut EXCEPT ![t] = "cancelled"]
    /\ UNCHANGED <<call, callback, queue, serving, pending, shutdown, inHand>>

(* Seeded fault: f.exception(), which raises for a cancelled future, comes *)
(* before the decrement.                                                   *)
CancelledCallbackRaising(t) ==
    /\ fut[t] = "cancelled"
    /\ callback[t] = "armed"
    /\ callback' = [callback EXCEPT ![t] = "done"]
    /\ UNCHANGED <<call, pending, fut, queue, serving, shutdown, inHand>>

CancelledCallback(t) ==
    /\ fut[t] = "cancelled"
    /\ callback[t] = "armed"
    /\ OnComplete(t, call)
    /\ UNCHANGED <<fut, queue, serving, shutdown, inHand>>

-----------------------------------------------------------------------------
(* shutdown(wait=True): no new work, then join the threads, which leave    *)
(* when the queue is empty.                                                *)

ShutdownWait ==
    /\ shutdown = "open"
    /\ shutdown' = "joining"
    /\ UNCHANGED <<call, fut, callback, queue, serving, pending, inHand>>

ThreadsJoined ==
    /\ shutdown = "joining"
    /\ queue = <<>>
    /\ \A th \in Threads : serving[th] = NoTask
    /\ shutdown' = "joined"
    /\ UNCHANGED <<call, fut, callback, queue, serving, pending, inHand>>

(* shutdown(wait=False) has cancel_futures on: it cancels what is queued,  *)
(* one item at a time, callbacks included.                                 *)
ShutdownNoWait ==
    /\ shutdown = "open"
    /\ shutdown' = "draining"
    /\ UNCHANGED <<call, fut, callback, queue, serving, pending, inHand>>

(* The callbacks of the item in hand have been run, or there was no item. *)
HandFree == inHand # NoTask => callback[inHand] # "armed"

(* Seeded fault: queued items are dropped without cancelling their futures. *)
DrainDropping ==
    /\ shutdown = "draining"
    /\ HandFree
    /\ queue # <<>>
    /\ fut[Head(queue)] = "pending"
    /\ inHand' = Head(queue)
    /\ queue' = Tail(queue)
    /\ UNCHANGED <<call, fut, callback, serving, pending, shutdown>>

DrainCancel ==
    /\ shutdown = "draining"
    /\ HandFree
    /\ queue # <<>>
    /\ fut[Head(queue)] = "pending"
    /\ fut' = [fut EXCEPT ![Head(queue)] = "cancelled"]
    /\ inHand' = Head(queue)
    /\ queue' = Tail(queue)
    /\ UNCHANGED <<call, callback, serving, pending, shutdown>>

(* cancel() on a future that a client has cancelled already returns at once. *)
DrainSkip ==
    /\ shutdown = "draining"
    /\ HandFree
    /\ queue # <<>>
    /\ fut[Head(queue)] = "cancelled"
    /\ queue' = Tail(queue)
    /\ UNCHANGED <<call, fut, callback, serving, pending, shutdown, inHand>>

DrainEnd ==
    /\ shutdown = "draining"
    /\ HandFree
    /\ queue = <<>>
    /\ shutdown' = "closed"
    /\ inHand' = NoTask
    /\ UNCHANGED <<call, fut, callback, queue, serving, pending>>

-----------------------------------------------------------------------------
(* Nothing is left to happen: every call has ended, every callback has run *)
(* and shutdown() has returned.                                            *)
Done ==
    /\ \A t \in Tasks : \/ call[t] \in {"rejected", "failed"}
                        \/ call[t] = "returned" /\ callback[t] = "done"
    /\ shutdown \in {"joined", "closed"}
    /\ \A th \in Threads : serving[th] = NoTask

Terminated == Done /\ UNCHANGED vars

SubmitStep(t) ==
    \/ Acquire(t)
    \/ Block(t)
    \/ GiveUp(t)
    \/ Enqueue(t)
    \/ EnqueueFails(t)
    \/ AddDoneCallback(t)
    \/ AddDoneCallbackLate(t)

ThreadStep(th) ==
    \/ StartNext(th)
    \/ SkipCancelled(th)
    \/ Finish(th)
    \/ RunCallback(th)
    \/ NoCallback(th)

DrainStep == DrainCancel \/ DrainSkip \/ DrainEnd

Next ==
    \/ \E t \in Tasks : SubmitStep(t) \/ Cancel(t) \/ CancelledCallback(t)
    \/ \E th \in Threads : ThreadStep(th)
    \/ ShutdownWait
    \/ ShutdownNoWait
    \/ ThreadsJoined
    \/ DrainStep
    \/ Terminated

SafeSpec == Init /\ [][Next]_vars

(* A call that has begun goes on: its timed wait ends after five seconds,  *)
(* whatever the notifications.  A thread takes its next item, and every    *)
(* generation ends.  A cancelling or draining thread runs the callbacks.   *)
(* Nobody is obliged to call submit(), cancel() or shutdown().             *)
Fairness ==
    /\ \A t \in Tasks :
          /\ WF_vars(call[t] # "idle" /\ (Acquire(t) \/ GiveUp(t)))
          /\ WF_vars(Enqueue(t) \/ EnqueueFails(t))
          /\ WF_vars(AddDoneCallback(t) \/ AddDoneCallbackLate(t))
          /\ WF_vars(CancelledCallback(t))
    /\ \A th \in Threads : WF_vars(ThreadStep(th))
    /\ WF_vars(ThreadsJoined)
    /\ WF_vars(DrainStep)

Spec == SafeSpec /\ Fairness
-----------------------------------------------------------------------------
(* Properties. *)

(* The calls that are charged for a slot: reserved, on their way to a      *)
(* future, holding one whose _on_complete has not run, or failed after the *)
(* reservation.                                                            *)
Charged == {t \in Tasks : \/ call[t] \in {"reserved", "enqueued", "failed"}
                          \/ call[t] = "returned" /\ callback[t] # "done"}

(* The integer the code keeps is the number of calls charged for a slot:   *)
(* whatever the order of completion, cancellation and add_done_callback(), *)
(* no slot is given back twice or forgotten (submit l.70, _on_complete     *)
(* l.85).                                                                  *)
SlotAccounting == pending = Cardinality(Charged)

(* "Blocks (with timeout) if pending tasks exceed max_pending" (l.54): the *)
(* futures that are queued or running never outnumber max_pending.         *)
Backpressure ==
    Cardinality({t \in Tasks : fut[t] \in {"pending", "running"}}) <= MaxPending

(* No caller sleeps in wait_for() while a slot is free: whenever the count *)
(* drops below the bound, every waiter has been notified (l.86).           *)
NoLostWakeup ==
    \A t \in Tasks : call[t] = "waiting" => pending >= MaxPending

(* A slot is given back only when the work it stands for is over: a future *)
(* whose _on_complete has run is finished or cancelled, never running.     *)
ReleasedOnlyWhenOver ==
    \A t \in Tasks : callback[t] = "done" => fut[t] \in {"finished", "cancelled"}

(* shutdown() abandons no future (l.160): once it has returned, nothing    *)
(* that was accepted is still queued, and with wait=True nothing still     *)
(* runs; a handler that awaits a future is never left without an answer.   *)
NoFutureAbandoned ==
    \A t \in Tasks :
       /\ shutdown \in {"joined", "closed"} => fut[t] # "pending"
       /\ shutdown = "joined" => fut[t] # "running"

(* Every submit() that has to wait ends: with a future, with               *)
(* WorkerCapacityError, or with the executor's RuntimeError (l.56-92).     *)
SubmitReturns ==
    \A t \in Tasks : call[t] = "waiting" ~> call[t] \in {"returned", "rejected", "failed"}

(* The worker does not stay at capacity, and readiness does not stay 503,  *)
(* unless a slot was lost after shutdown(); every task gives its slot back *)
(* whether it succeeds, fails or is cancelled.                             *)
CapacityRecovers ==
    IsAtCapacity ~> (~IsAtCapacity \/ \E t \in Tasks : call[t] = "failed")

(* shutdown() returns, with cancelled futures in the queue or without.     *)
ShutdownReturns ==
    shutdown \in {"joining", "draining"} ~> shutdown \in {"joined", "closed"}

(* What became of the slot of each call, in the terms of GenerationSlots.  *)
SlotOf(t) ==
    IF call[t] \in {"idle", "waiting", "notified"} THEN "none"
    ELSE IF call[t] = "rejected" THEN "refused"
    ELSE IF call[t] = "failed" THEN "lost"
    ELSE IF callback[t] = "done" THEN "released"
    ELSE "held"

Slots == INSTANCE GenerationSlots
            WITH Capacity <- MaxPending,
                 slot <- [t \in Tasks |-> SlotOf(t)],
                 closed <- shutdown # "open"

(* The counter, the condition variable and the callbacks implement the     *)
(* slots of GenerationSlots: a call is refused only while every slot is    *)
(* taken, each slot comes back once, and none is lost before shutdown().   *)
ImplementsSlots == Slots!SafeSpec

(* No slot stays held: _on_complete runs for every future, on the thread   *)
(* that ends it, on the one that cancels it or on the caller's, or the     *)
(* call fails at executor.submit() (l.73-91).                              *)
SlotsComeBack == Slots!Fairness

-----------------------------------------------------------------------------
(* What the repository says of the worker and the code does not do.        *)

(* synthetic_worker.py:139, pending_count is the "Number of tasks          *)
(* currently pending or in progress": it is zero when no call is under way *)
(* and no future is waiting for its _on_complete.                          *)
CountIsZeroAtRest ==
    (\A t \in Tasks : \/ call[t] \in {"idle", "rejected", "failed"}
                      \/ callback[t] = "done")
    => PendingCount = 0
==============================================================================
