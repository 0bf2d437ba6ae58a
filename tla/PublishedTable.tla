---------------------------- MODULE PublishedTable ----------------------------
(***************************************************************************)
(* What IcebergDestination promises those who upload to one table and      *)
(* those who read it: readers see all of one upload's data or nothing, an  *)
(* upload shows its data once, in one step, and only before its outcome is *)
(* known; success is told of shown data only, and a table goes away only   *)
(* with the failure of the upload that made it.                            *)
(*                                                                         *)
(* The code makes calls to a catalog that others change between them.      *)
(* IcebergUpload implements this module.                                   *)
(***************************************************************************)
CONSTANTS Uploads,
          Earlier,   (* stands for whatever filled the table before *)
          None       (* no table                                    *)

VARIABLES owner,     (* who made the table that readers find, or None    *)
          data,      (* the uploads whose data they see in it            *)
          outcome    (* of each upload, which its caller knows at the end *)

tableVars == <<owner, data, outcome>>

Outcomes == {"open", "published", "success", "failed"}

Pending(u) == outcome[u] \in {"open", "published"}
Becomes(u, o) == outcome' = [outcome EXCEPT ![u] = o]

Init ==
    /\ \/ owner = None /\ data = {}
       \/ owner = Earlier /\ data = {Earlier}
    /\ outcome = [u \in Uploads |-> "open"]

(* A table is made where there is none, and it is empty. *)
Create(u) ==
    /\ outcome[u] = "open"
    /\ owner = None
    /\ owner' = u
    /\ data' = {}
    /\ UNCHANGED outcome

(* The table was made, and its maker told that it was not. *)
FailCreating(u) ==
    /\ outcome[u] = "open"
    /\ owner = None
    /\ owner' = u
    /\ data' = {}
    /\ Becomes(u, "failed")

(* From one step to the next, readers see this upload instead of another. *)
Publish(u) ==
    /\ outcome[u] = "open"
    /\ owner # None
    /\ data' = {u}
    /\ Becomes(u, "published")
    /\ UNCHANGED owner

Succeed(u) ==
    /\ outcome[u] = "published"
    /\ Becomes(u, "success")
    /\ UNCHANGED <<owner, data>>

Fail(u) ==
    /\ Pending(u)
    /\ Becomes(u, "failed")
    /\ UNCHANGED <<owner, data>>

(* A failed upload takes back the table it made. *)
Withdraw(u) ==
    /\ Pending(u)
    /\ owner = u
    /\ owner' = None
    /\ data' = {}
    /\ Becomes(u, "failed")

Next ==
    \E u \in Uploads :
       Create(u) \/ FailCreating(u) \/ Publish(u) \/ Succeed(u) \/ Fail(u) \/ Withdraw(u)

Spec == Init /\ [][Next]_tableVars
==============================================================================
