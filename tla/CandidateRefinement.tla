------------------------- MODULE CandidateRefinement -------------------------
(***************************************************************************)
(* The refinement mapping from CandidateRegistry to CandidateLifecycle,    *)
(* and the discipline under which it holds.                                *)
(***************************************************************************)
EXTENDS CandidateRegistry

StatusOf(c) == IF candidates[c] = None THEN "absent" ELSE candidates[c].status

ReviewOf(c) == IF candidates[c] = None THEN NoEdits ELSE candidates[c].review

ClaimOf(c) == IF candidates[c] = None THEN None ELSE candidates[c].capability

KeyAt(id) == IF capabilities[id] = None THEN None ELSE capabilities[id].key

Lifecycle == INSTANCE CandidateLifecycle WITH
    status   <- [c \in Candidates |-> StatusOf(c)],
    review   <- [c \in Candidates |-> ReviewOf(c)],
    claim    <- [c \in Candidates |-> ClaimOf(c)],
    registry <- [id \in CapabilityIds |-> KeyAt(id)]

(* At most one request holds a decision on a candidate.  The code leaves   *)
(* this to its users: it keeps no version and takes no lock.               *)
OneReviewer ==
    \A g, h \in Handlers :
        handlers[g].candidate = handlers[h].candidate /\ handlers[g].candidate # None
        => g = h

(* History: whether two requests ever held decisions on one candidate at   *)
(* the same time.  Nothing reads it but the properties.                    *)
VARIABLE overlapped

watchedVars == <<vars, overlapped>>

NextWatched == Next /\ overlapped' = (overlapped \/ ~OneReviewer')

InitWatched == Init /\ overlapped = FALSE

SpecWatched == InitWatched /\ [][NextWatched]_watchedVars

(* Until decisions on one candidate overlap, the handlers of               *)
(* CandidateRegistry, interleaved repository call by repository call with  *)
(* imports, posts, puts, failures and decisions on other candidates,       *)
(* behave as the atomic lifecycle: a decision once taken is never undone,  *)
(* no accepted edit is ever lost, and a promotion takes a published        *)
(* capability nobody else has.                                             *)
ImplementsLifecycle ==
    Lifecycle!Init /\ [][~overlapped' => [Lifecycle!Next]_(Lifecycle!lifecycleVars)]_watchedVars

(* Unless decisions on one candidate overlapped or a request died half     *)
(* way, a capability registered from a candidate is claimed by it as soon  *)
(* as the registering handler is through: registration does not leave      *)
(* orphans that block every retry with CONFLICT                            *)
(* (source_ingestion.go:201-207).                                          *)
OrphansNeedAFailure ==
    failures = 0 /\ ~overlapped =>
        \A id \in CapabilityIds :
            Exists(id) /\ capabilities[id].from # None =>
                LET c == capabilities[id].from.candidate
                IN  \/ candidates[c].capability = id
                    \/ \E h \in Handlers : At(h, "mark") /\ handlers[h].capability = id
=============================================================================
