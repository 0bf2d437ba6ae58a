--------------------------- MODULE GenerationSlots ---------------------------
(***************************************************************************)
(* What SyntheticDataWorker promises its callers about generation slots:   *)
(* at most Capacity slots are taken at any time, a call is refused only    *)
(* while every slot is taken, a slot taken by an accepted task comes back  *)
(* exactly once, and a slot may be lost only once the worker is closed.    *)
(*                                                                         *)
(* The module speaks of sets of tasks; the code keeps one integer, a       *)
(* thread pool and callbacks.  SyntheticWorker implements it.              *)
(***************************************************************************)
EXTENDS Naturals, FiniteSets

CONSTANTS Tasks,     (* the submit() calls made during a behaviour *)
          Capacity   (* max_pending                                *)

VARIABLES slot,      (* what became of each call's slot            *)
          closed     (* shutdown() has begun                       *)

slotVars == <<slot, closed>>

SlotStates == {"none", "held", "released", "refused", "lost"}

(* The slots that are not available to a further call. *)
Taken == {t \in Tasks : slot[t] \in {"held", "lost"}}

Init ==
    /\ slot = [t \in Tasks |-> "none"]
    /\ closed = FALSE

Acquire(t) ==
    /\ slot[t] = "none"
    /\ Cardinality(Taken) < Capacity
    /\ slot' = [slot EXCEPT ![t] = "held"]
    /\ UNCHANGED closed

Refuse(t) ==
    /\ slot[t] = "none"
    /\ Cardinality(Taken) = Capacity
    /\ slot' = [slot EXCEPT ![t] = "refused"]
    /\ UNCHANGED closed

Release(t) ==
    /\ slot[t] = "held"
    /\ slot' = [slot EXCEPT ![t] = "released"]
    /\ UNCHANGED closed

(* The pool no longer accepts work: the slot already reserved is not given back. *)
Lose(t) ==
    /\ slot[t] = "held"
    /\ closed
    /\ slot' = [slot EXCEPT ![t] = "lost"]
    /\ UNCHANGED closed

Close ==
    /\ ~closed
    /\ closed' = TRUE
    /\ UNCHANGED slot

Next ==
    \/ \E t \in Tasks : Acquire(t) \/ Refuse(t) \/ Release(t) \/ Lose(t)
    \/ Close

SafeSpec == Init /\ [][Next]_slotVars

(* A held slot does not stay held: its task ends, or its call fails. *)
Fairness == \A t \in Tasks : WF_slotVars(Release(t) \/ Lose(t))

Spec == SafeSpec /\ Fairness
==============================================================================
