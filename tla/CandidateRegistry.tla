-------------------------- MODULE CandidateRegistry --------------------------
(***************************************************************************)
(* Capability candidates and the capability registry they are promoted     *)
(* into: internal/registry/candidate_service.go, the import and register   *)
(* paths of internal/engine/source_ingestion.go, Create and Update of      *)
(* internal/registry/capability_service.go, over the repositories of       *)
(* internal/store.                                                         *)
(*                                                                         *)
(* Every HTTP request runs in a goroutine of its own and no lock spans two *)
(* repository calls, so one action here is one repository call (one SQL    *)
(* statement; one critical section of the in-memory store) together with   *)
(* the local computation up to the next call.  What a request has read is  *)
(* kept in its handler and may be stale by the time it is written back.    *)
(*                                                                         *)
(* A candidate is identified by its natural key (source_id, external_id).  *)
(* Its fields are abstracted to what the code decides on: the name (the    *)
(* slug may come from it) and which of the core fields are filled in.      *)
(* extracted stands for extracted_json merged with inferred_json.          *)
(***************************************************************************)
EXTENDS Naturals

CONSTANTS
    Candidates,     \* natural keys of the candidates
    Names,          \* display names
    Keys,           \* capability (type, slug) pairs
    KeyOf,          \* KeyOf[c][n]: the (type, slug) of c registered under name n
    CapabilityIds,  \* storage ids handed out by domain.NewID
    Payloads,       \* Payloads[c]: what an import can carry for c
    Edits,          \* Edits[c]: what a reviewer can submit for c
    Handlers,       \* request goroutines
    MaxFailures,    \* bound on the requests that die half way
    None            \* absent value

CoreFields == {"description", "intents"}
Pending    == {"extracted", "inferred", "needs_review"}
Statuses   == Pending \cup {"registered", "rejected"}

(* A layer of CapabilityFields: the name, if the layer gives one, and the  *)
(* core fields it fills in.                                                *)
Layer   == [name : Names \cup {None}, fields : SUBSET CoreFields]
Payload == [name : Names, fields : SUBSET CoreFields, guessed : BOOLEAN]

ASSUME ConstantsAssumption ==
    /\ KeyOf \in [Candidates -> [Names -> Keys]]
    /\ Payloads \in [Candidates -> SUBSET Payload]
    /\ Edits \in [Candidates -> SUBSET Layer]
    /\ MaxFailures \in Nat

Record == [extracted  : [name : Names, fields : SUBSET CoreFields],
           review     : Layer,
           status     : Statuses,
           capability : CapabilityIds \cup {None}]

(* A capability keeps its (type, slug) and what it was registered from:    *)
(* None when it was posted directly.                                       *)
Origin     == [candidate : Candidates, name : Names]
Capability == [key : Keys, from : Origin \cup {None}]

Phases == {"idle", "write", "check", "insert", "mark"}
Handler == [phase      : Phases,
            candidate  : Candidates \cup {None},
            record     : Record \cup {None},
            key        : Keys \cup {None},
            capability : CapabilityIds \cup {None}]

ASSUME NoneAssumption ==
    /\ None \notin Candidates \cup Names \cup Keys \cup CapabilityIds
    /\ None \notin Record \cup Capability \cup Origin

VARIABLES
    candidates,    \* table capability_candidates
    capabilities,  \* table capabilities
    handlers,      \* what each request goroutine holds
    failures       \* number of requests that died half way

vars == <<candidates, capabilities, handlers, failures>>

-----------------------------------------------------------------------------
(* Fields and statuses.                                                    *)

(* CapabilityFields.Merge: the upper layer wins where it says anything.    *)
Merge(layer, other) ==
    [name   |-> IF other.name # None THEN other.name ELSE layer.name,
     fields |-> layer.fields \cup other.fields]

Resolved(r) == Merge(r.extracted, r.review)

Complete(r) == Resolved(r).fields = CoreFields

NoEdits == [name |-> None, fields |-> {}]

(* statusAfterEnrichment, on what extraction and inference give.           *)
StatusAfterEnrichment(p) ==
    IF p.fields # CoreFields THEN "needs_review"
    ELSE IF p.guessed THEN "inferred" ELSE "extracted"

Extraction(p) == [name |-> p.name, fields |-> p.fields]

(* What Review writes back: the edits merged into the review layer, and    *)
(* the status moved on when nothing is missing any more.                   *)
Reviewed(r, edit) ==
    LET merged == [r EXCEPT !.review = Merge(@, edit)]
    IN  [merged EXCEPT !.status =
            IF @ = "needs_review" /\ Complete(merged) THEN "inferred" ELSE @]

DismissedAsDeprecated(r) == [r EXCEPT !.status = "deprecated"]  \* mutant

Rejected(r) == [r EXCEPT !.status = "rejected"]

Registered(r, id) == [r EXCEPT !.status = "registered", !.capability = id]

-----------------------------------------------------------------------------
Exists(id) == capabilities[id] # None

KeyTaken(k) == \E id \in CapabilityIds : Exists(id) /\ capabilities[id].key = k

KeyTakenByAnother(id, k) ==
    \E other \in CapabilityIds \ {id} :
        Exists(other) /\ capabilities[other].key = k

NoUniqueIndex(k) == FALSE  \* mutant

(* The unique index on (type, slug), taken with the insert.                *)
IndexRefuses(k) == KeyTaken(k)

Idle == [phase |-> "idle", candidate |-> None, record |-> None,
         key |-> None, capability |-> None]

At(h, phase) == handlers[h].phase = phase

(* The handler moves on, or its request ends.                              *)
Goto(h, state) == handlers' = [handlers EXCEPT ![h] = state]

Finish(h) == Goto(h, Idle)

Init ==
    /\ candidates = [c \in Candidates |-> None]
    /\ capabilities = [id \in CapabilityIds |-> None]
    /\ handlers = [h \in Handlers |-> Idle]
    /\ failures = 0

-----------------------------------------------------------------------------
(* Import: one Upsert.  A new candidate is inserted, a pending one is      *)
(* refreshed under its review layer, a terminal one is returned untouched. *)
ForgottenReview(old) == NoEdits  \* mutant

KeptReview(old) == IF old = None THEN NoEdits ELSE old.review

Upsert(c, p) ==
    LET old == candidates[c]
        fresh == [extracted  |-> Extraction(p),
                  review     |-> KeptReview(old),
                  status     |-> StatusAfterEnrichment(p),
                  capability |-> IF old = None THEN None ELSE old.capability]
    IN  IF old = None \/ old.status \in Pending
        THEN [candidates EXCEPT ![c] = fresh]
        ELSE candidates

Import(c, p) ==
    /\ candidates' = Upsert(c, p)
    /\ UNCHANGED <<capabilities, handlers, failures>>

IsKnown(c) == candidates[c] # None  \* mutant

AwaitsDecision(c) == candidates[c] # None /\ candidates[c].status \in Pending

(* Review and Reject: a Get, the decision on what it returned, then one    *)
(* Update of the whole record.                                             *)
ReviewRead(h, c) ==
    /\ At(h, "idle")
    /\ AwaitsDecision(c)
    /\ \E edit \in Edits[c] :
         Goto(h, [Idle EXCEPT !.phase = "write", !.candidate = c,
                              !.record = Reviewed(candidates[c], edit)])
    /\ UNCHANGED <<candidates, capabilities, failures>>

RejectRead(h, c) ==
    /\ At(h, "idle")
    /\ candidates[c] # None
    /\ candidates[c].status # "registered"
    /\ Goto(h, [Idle EXCEPT !.phase = "write", !.candidate = c,
                            !.record = Rejected(candidates[c])])
    /\ UNCHANGED <<candidates, capabilities, failures>>

DecisionOnly(h) ==  \* mutant
    [candidates[handlers[h].candidate] EXCEPT
        !.review = handlers[h].record.review, !.status = handlers[h].record.status]

(* Update sets every column from the record the handler computed.          *)
RecordToWrite(h) == handlers[h].record

UpdateCandidate(h) ==
    /\ At(h, "write")
    /\ candidates' = [candidates EXCEPT ![handlers[h].candidate] = RecordToWrite(h)]
    /\ Finish(h)
    /\ UNCHANGED <<capabilities, failures>>

(* RegisterCandidate: Get, then Capabilities().Create (GetBySlug, Create), *)
(* then MarkRegistered, which writes the record read at the start.         *)
RegisterRead(h, c) ==
    /\ At(h, "idle")
    /\ AwaitsDecision(c)
    /\ Goto(h, [Idle EXCEPT
                  !.phase = "check", !.candidate = c, !.record = candidates[c],
                  !.key = KeyOf[c][Resolved(candidates[c]).name]])
    /\ UNCHANGED <<candidates, capabilities, failures>>

(* POST /capabilities enters at Create, with a key and no candidate.       *)
PostCapability(h, k) ==
    /\ At(h, "idle")
    /\ Goto(h, [Idle EXCEPT !.phase = "check", !.key = k])
    /\ UNCHANGED <<candidates, capabilities, failures>>

AdoptExisting(h) ==  \* mutant
    /\ At(h, "check")
    /\ IF KeyTaken(handlers[h].key) /\ handlers[h].candidate # None
       THEN \E id \in CapabilityIds :
              /\ Exists(id) /\ capabilities[id].key = handlers[h].key
              /\ Goto(h, [handlers[h] EXCEPT !.phase = "mark", !.capability = id])
       ELSE Goto(h, [handlers[h] EXCEPT !.phase = "insert"])
    /\ UNCHANGED <<candidates, capabilities, failures>>

CheckSlug(h) ==
    /\ At(h, "check")
    /\ IF KeyTaken(handlers[h].key)
       THEN Finish(h)
       ELSE Goto(h, [handlers[h] EXCEPT !.phase = "insert"])
    /\ UNCHANGED <<candidates, capabilities, failures>>

OriginOf(handler) ==
    IF handler.candidate = None THEN None
    ELSE [candidate |-> handler.candidate, name |-> Resolved(handler.record).name]

InsertConflict(h) ==
    /\ At(h, "insert")
    /\ IndexRefuses(handlers[h].key)
    /\ Finish(h)
    /\ UNCHANGED <<candidates, capabilities, failures>>

InsertCapability(h, id) ==
    /\ At(h, "insert")
    /\ ~Exists(id)
    /\ ~IndexRefuses(handlers[h].key)
    /\ capabilities' = [capabilities EXCEPT
                          ![id] = [key |-> handlers[h].key, from |-> OriginOf(handlers[h])]]
    /\ IF handlers[h].candidate = None
       THEN Finish(h)
       ELSE Goto(h, [handlers[h] EXCEPT !.phase = "mark", !.capability = id])
    /\ UNCHANGED <<candidates, failures>>

RecordNow(h) == candidates[handlers[h].candidate]  \* mutant

RecordToMark(h) == handlers[h].record

MarkRegistered(h) ==
    /\ At(h, "mark")
    /\ candidates' = [candidates EXCEPT
                        ![handlers[h].candidate] =
                            Registered(RecordToMark(h), handlers[h].capability)]
    /\ Finish(h)
    /\ UNCHANGED <<capabilities, failures>>

(* PUT /capabilities/{id}: one Update, which may move the capability to    *)
(* another slug.                                                           *)
PutCapability(id, k) ==
    /\ Exists(id)
    /\ ~KeyTakenByAnother(id, k)
    /\ capabilities' = [capabilities EXCEPT ![id].key = k]
    /\ UNCHANGED <<candidates, handlers, failures>>

(* A repository call fails, the client goes away or the server dies: the   *)
(* request ends where it is and nothing is undone.  A restart is this for  *)
(* every busy handler.                                                     *)
Fail(h) ==
    /\ ~At(h, "idle")
    /\ failures < MaxFailures
    /\ failures' = failures + 1
    /\ Finish(h)
    /\ UNCHANGED <<candidates, capabilities>>

-----------------------------------------------------------------------------
(* The steps that begin a decision on candidate c.                         *)
BeginDecision(h, c) ==
    \/ ReviewRead(h, c)
    \/ RejectRead(h, c)
    \/ RegisterRead(h, c)

(* Every other step: imports, posts and puts by anyone, and the handlers   *)
(* going on with what they have begun.                                     *)
Proceed ==
    \/ \E c \in Candidates : \E p \in Payloads[c] : Import(c, p)
    \/ \E id \in CapabilityIds, k \in Keys : PutCapability(id, k)
    \/ \E h \in Handlers :
         \/ \E k \in Keys : PostCapability(h, k)
         \/ UpdateCandidate(h)
         \/ CheckSlug(h)
         \/ InsertConflict(h)
         \/ \E id \in CapabilityIds : InsertCapability(h, id)
         \/ MarkRegistered(h)
         \/ Fail(h)

Next ==
    \/ \E h \in Handlers, c \in Candidates : BeginDecision(h, c)
    \/ Proceed

(* Anything may interleave with anything.                                  *)
Spec == Init /\ [][Next]_vars

-----------------------------------------------------------------------------
(* The tables and the handlers hold what the code puts there: the rows of  *)
(* store/candidate_repo.go and store/capability_repo.go, and a handler's   *)
(* locals according to the call it is about to make.                       *)
TypeOK ==
    /\ candidates \in [Candidates -> Record \cup {None}]
    /\ capabilities \in [CapabilityIds -> Capability \cup {None}]
    /\ handlers \in [Handlers -> Handler]
    /\ failures \in Nat
    /\ \A h \in Handlers :
         /\ At(h, "write") \/ At(h, "mark") =>
              handlers[h].candidate \in Candidates /\ handlers[h].record \in Record
         /\ At(h, "mark") => handlers[h].capability \in CapabilityIds
         /\ At(h, "check") \/ At(h, "insert") => handlers[h].key \in Keys
         /\ handlers[h].candidate # None => handlers[h].record \in Record

(* No two capabilities share (type, slug), whichever posts, registrations  *)
(* and slug changes race between GetBySlug and Create                      *)
(* (registry/capability_service.go:32-44, README "duplicate detection").   *)
UniqueKeys ==
    \A i, j \in CapabilityIds :
        /\ i # j
        /\ Exists(i)
        /\ Exists(j)
        => capabilities[i].key # capabilities[j].key

(* A candidate carries a capability id exactly when it is registered, and  *)
(* then that capability was made from this candidate with the fields the   *)
(* candidate resolves to: the panel shows what was registered, whatever    *)
(* was written between RegisterCandidate's read and MarkRegistered.        *)
ClaimIsFaithful ==
    \A c \in Candidates :
        candidates[c] # None =>
            /\ candidates[c].status = "registered" <=> candidates[c].capability # None
            /\ candidates[c].status = "registered" =>
                 /\ Exists(candidates[c].capability)
                 /\ capabilities[candidates[c].capability].from =
                      [candidate |-> c, name |-> Resolved(candidates[c]).name]

(* Two candidates never claim the same capability, even when they compete  *)
(* for one (type, slug): the loser is refused, not linked to the winner's. *)
ClaimsAreExclusive ==
    \A c, d \in Candidates :
        /\ candidates[c] # None
        /\ candidates[d] # None
        /\ candidates[c].capability # None
        /\ candidates[c].capability = candidates[d].capability
        => c = d

(* A pending candidate that still lacks a core field asks for attention,   *)
(* through any interleaving of re-imports and stale reviews               *)
(* (capability_extraction.go:85-97 and candidate_service.go:74-78).        *)
GapsAskForReview ==
    \A c \in Candidates :
        /\ candidates[c] # None
        /\ candidates[c].status \in Pending
        /\ ~Complete(candidates[c])
        => candidates[c].status = "needs_review"

(* registered and rejected are terminal (domain/enums.go:52-53): no step   *)
(* takes a candidate out of either.                                        *)
TerminalIsFinal ==
    [][\A c \in Candidates :
          /\ candidates[c] # None
          /\ candidates[c].status \in {"registered", "rejected"}
          => candidates'[c].status = candidates[c].status]_vars
=============================================================================
