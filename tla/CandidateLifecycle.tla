------------------------- MODULE CandidateLifecycle --------------------------
(***************************************************************************)
(* What the candidate registry promises, without handlers or stale reads:  *)
(* each decision on a candidate is one step on its current state.  The     *)
(* lifecycle is the one of domain/enums.go:46-66.  CandidateRegistry       *)
(* implements it when one reviewer at a time decides on a candidate.       *)
(***************************************************************************)
CONSTANTS Candidates, Names, Keys, CapabilityIds, Edits, None

VARIABLES
    status,    \* "absent" before the first import, then a CandidateStatus
    review,    \* the accumulated reviewer edits
    claim,     \* the capability a registered candidate was promoted into
    registry   \* the (type, slug) of every published capability

lifecycleVars == <<status, review, claim, registry>>

PendingStatuses == {"extracted", "inferred", "needs_review"}

Blank == [name |-> None, fields |-> {}]

Layered(layer, edit) ==
    [name   |-> IF edit.name # None THEN edit.name ELSE layer.name,
     fields |-> layer.fields \cup edit.fields]

Init ==
    /\ status = [c \in Candidates |-> "absent"]
    /\ review = [c \in Candidates |-> Blank]
    /\ claim = [c \in Candidates |-> None]
    /\ registry = [id \in CapabilityIds |-> None]

(* An import discovers a candidate or refreshes a pending one; it has no   *)
(* say over a decision already taken, and none over the reviewer's edits.  *)
Discover(c) ==
    /\ status[c] \in PendingStatuses \cup {"absent"}
    /\ \E s \in PendingStatuses : status' = [status EXCEPT ![c] = s]
    /\ UNCHANGED <<review, claim, registry>>

(* An edit lands on top of every earlier edit.                             *)
Amend(c) ==
    /\ status[c] \in PendingStatuses
    /\ \E s \in PendingStatuses : status' = [status EXCEPT ![c] = s]
    /\ \E edit \in Edits[c] : review' = [review EXCEPT ![c] = Layered(@, edit)]
    /\ UNCHANGED <<claim, registry>>

Dismiss(c) ==
    /\ status[c] \in PendingStatuses
    /\ status' = [status EXCEPT ![c] = "rejected"]
    /\ UNCHANGED <<review, claim, registry>>

(* A pending candidate is promoted into a published capability that no     *)
(* other candidate has.                                                    *)
Promote(c, id) ==
    /\ status[c] \in PendingStatuses
    /\ registry[id] # None
    /\ \A d \in Candidates : claim[d] # id
    /\ status' = [status EXCEPT ![c] = "registered"]
    /\ claim' = [claim EXCEPT ![c] = id]
    /\ UNCHANGED <<review, registry>>

(* A capability appears under a free (type, slug), or moves to one.        *)
Publish(id, k) ==
    /\ \A other \in CapabilityIds : registry[other] # k
    /\ registry' = [registry EXCEPT ![id] = k]
    /\ UNCHANGED <<status, review, claim>>

Next ==
    \/ \E c \in Candidates :
         \/ Discover(c)
         \/ Amend(c)
         \/ Dismiss(c)
         \/ \E id \in CapabilityIds : Promote(c, id)
    \/ \E id \in CapabilityIds, k \in Keys : Publish(id, k)

Spec == Init /\ [][Next]_lifecycleVars
=============================================================================
