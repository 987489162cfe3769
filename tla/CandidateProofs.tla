--------------------------- MODULE CandidateProofs ---------------------------
(***************************************************************************)
(* Proofs about CandidateRegistry for every set of candidates, capability  *)
(* ids, handlers and edits: the safety of the unrestricted interleaving    *)
(* (Spec), and that it implements CandidateLifecycle until two requests    *)
(* hold decisions on one candidate at the same time (SpecWatched).         *)
(***************************************************************************)
EXTENDS CandidateRefinement, TLAPS

(* The gaps of a pending record ask for review.                            *)
GapFlagged(r) ==
    r.status \in Pending /\ ~Complete(r) => r.status = "needs_review"

(* What a handler holds between two calls: an unclaimed record, and at     *)
(* "mark" a capability made from it that nobody else can claim.            *)
HoldsUnclaimed(h) ==
    handlers[h].candidate # None =>
        /\ handlers[h].record.capability = None
        /\ handlers[h].record.status # "registered"
        /\ GapFlagged(handlers[h].record)

HoldsFreshCapability(h) ==
    At(h, "mark") =>
        /\ Exists(handlers[h].capability)
        /\ capabilities[handlers[h].capability].from =
             [candidate |-> handlers[h].candidate,
              name |-> Resolved(handlers[h].record).name]
        /\ \A c \in Candidates :
             candidates[c] # None => candidates[c].capability # handlers[h].capability
        /\ \A g \in Handlers :
             At(g, "mark") /\ g # h => handlers[g].capability # handlers[h].capability

HandlersInv == \A h \in Handlers : HoldsUnclaimed(h) /\ HoldsFreshCapability(h)

RegistryInv ==
    /\ TypeOK
    /\ UniqueKeys
    /\ ClaimIsFaithful
    /\ ClaimsAreExclusive
    /\ GapsAskForReview
    /\ HandlersInv

-----------------------------------------------------------------------------
(* The fields a candidate resolves to always include a name: extraction    *)
(* gives one, and a review layer can only replace it.                      *)
LEMMA ResolvedName ==
    ASSUME NEW r \in Record
    PROVE  Resolved(r).name \in Names
BY NoneAssumption DEF Resolved, Merge, Record, Layer

LEMMA MergeType ==
    ASSUME NEW a \in Layer, NEW b \in Layer
    PROVE  Merge(a, b) \in Layer
BY DEF Merge, Layer

(* Review keeps a record well formed, and moves it on only when complete.  *)
LEMMA ReviewedRecord ==
    ASSUME NEW r \in Record, NEW edit \in Layer,
           r.status \in Pending, r.capability = None, GapFlagged(r)
    PROVE  /\ Reviewed(r, edit) \in Record
           /\ Reviewed(r, edit).capability = None
           /\ Reviewed(r, edit).status \in Pending
           /\ Reviewed(r, edit).review = Merge(r.review, edit)
           /\ GapFlagged(Reviewed(r, edit))
<1> DEFINE m == [r EXCEPT !.review = Merge(@, edit)]
           s == IF m.status = "needs_review" /\ Complete(m) THEN "inferred" ELSE m.status
<1>1. /\ m \in Record
      /\ m.capability = None
      /\ m.status = r.status
      /\ m.extracted = r.extracted
      /\ m.review = Merge(r.review, edit)
  BY MergeType DEF Record
<1>2. Reviewed(r, edit) = [m EXCEPT !.status = s]
  BY DEF Reviewed
<1>3. s \in Pending
  BY <1>1 DEF Pending
<1> HIDE DEF s, m
<1>4. /\ Reviewed(r, edit) \in Record
      /\ Reviewed(r, edit).capability = None
      /\ Reviewed(r, edit).status = s
      /\ Reviewed(r, edit).review = Merge(r.review, edit)
      /\ Reviewed(r, edit).extracted = r.extracted
  BY <1>1, <1>2, <1>3 DEF Record, Statuses
<1>5. Complete(r) => Complete(m)
  BY <1>1 DEF Complete, Resolved, Merge, Record, Layer, CoreFields
<1>6. Complete(Reviewed(r, edit)) <=> Complete(m)
  BY <1>1, <1>4 DEF Complete, Resolved
<1>7. ~Complete(m) => s = "needs_review"
  BY <1>1, <1>5 DEF GapFlagged, s
<1> QED BY <1>3, <1>4, <1>6, <1>7 DEF GapFlagged

(* What an import stores for a new or pending candidate.                   *)
LEMMA UpsertRecord ==
    ASSUME TypeOK, NEW c \in Candidates, NEW p \in Payload,
           candidates[c] = None \/ candidates[c].status \in Pending
    PROVE  /\ Upsert(c, p)[c] \in Record
           /\ Upsert(c, p)[c].status \in Pending
           /\ Upsert(c, p)[c].review = ReviewOf(c)
           /\ Upsert(c, p)[c].capability = ClaimOf(c)
           /\ GapFlagged(Upsert(c, p)[c])
<1> DEFINE r == [extracted  |-> Extraction(p),
                 review     |-> KeptReview(candidates[c]),
                 status     |-> StatusAfterEnrichment(p),
                 capability |-> IF candidates[c] = None THEN None
                                ELSE candidates[c].capability]
<1>1. Upsert(c, p)[c] = r
  BY DEF Upsert, TypeOK
<1>2. /\ Extraction(p) \in [name : Names, fields : SUBSET CoreFields]
      /\ Extraction(p).fields = p.fields
      /\ p.fields \subseteq CoreFields
  BY DEF Extraction, Payload
<1>3. KeptReview(candidates[c]) \in Layer /\ KeptReview(candidates[c]) = ReviewOf(c)
  BY DEF KeptReview, ReviewOf, NoEdits, TypeOK, Layer, Record
<1>4. StatusAfterEnrichment(p) \in Pending
  BY DEF StatusAfterEnrichment, Pending
<1>5. r.capability = ClaimOf(c) /\ r.capability \in CapabilityIds \cup {None}
  BY DEF ClaimOf, TypeOK, Record
<1>6. r \in Record
  BY <1>2, <1>3, <1>4, <1>5 DEF Record, Statuses
<1>7. ASSUME ~Complete(r)
      PROVE  r.status = "needs_review"
  <2>1. Resolved(r).fields = p.fields \cup r.review.fields
    BY <1>2 DEF Resolved, Merge
  <2>2. p.fields # CoreFields
    BY <1>2, <1>3, <1>7, <2>1 DEF Complete, Layer
  <2> QED BY <2>2 DEF StatusAfterEnrichment
<1> QED BY <1>1, <1>3, <1>4, <1>5, <1>6, <1>7 DEF GapFlagged

-----------------------------------------------------------------------------
(* Storing an unclaimed record keeps what the candidates promise.          *)
LEMMA StoreUnclaimed ==
    ASSUME RegistryInv, NEW c \in Candidates, NEW r \in Record,
           r.capability = None, r.status # "registered", GapFlagged(r),
           candidates' = [candidates EXCEPT ![c] = r],
           UNCHANGED capabilities
    PROVE  /\ candidates' \in [Candidates -> Record \cup {None}]
           /\ ClaimIsFaithful' /\ ClaimsAreExclusive' /\ GapsAskForReview'
           /\ \A d \in Candidates, id \in CapabilityIds :
                candidates'[d] # None /\ candidates'[d].capability = id =>
                    candidates[d] # None /\ candidates[d].capability = id
<1> USE DEF RegistryInv, TypeOK
<1>1. \A d \in Candidates : candidates'[d] = IF d = c THEN r ELSE candidates[d]
  OBVIOUS
<1>2. candidates' \in [Candidates -> Record \cup {None}]
  OBVIOUS
<1>3. ClaimIsFaithful'
  BY <1>1 DEF ClaimIsFaithful, Exists
<1>4. ClaimsAreExclusive'
  BY <1>1 DEF ClaimsAreExclusive
<1>5. GapsAskForReview'
  BY <1>1 DEF GapsAskForReview, GapFlagged
<1>6. \A d \in Candidates, id \in CapabilityIds :
         candidates'[d] # None /\ candidates'[d].capability = id =>
             candidates[d] # None /\ candidates[d].capability = id
  BY <1>1, NoneAssumption
<1> QED BY <1>2, <1>3, <1>4, <1>5, <1>6

(* A handler that reads, decides or ends keeps what the handlers hold: the *)
(* tables stand still and only its own state, well formed, changes.        *)
LEMMA HandlerMoves ==
    ASSUME RegistryInv, NEW h \in Handlers, NEW s \in Handler,
           handlers' = [handlers EXCEPT ![h] = s],
           UNCHANGED <<candidates, capabilities>>, failures' \in Nat,
           s.phase # "mark",
           s.phase = "write" => s.candidate # None,
           s.phase \in {"check", "insert"} => s.key \in Keys,
           s.candidate # None =>
               /\ s.record \in Record
               /\ s.record.capability = None
               /\ s.record.status # "registered"
               /\ GapFlagged(s.record)
    PROVE  RegistryInv'
<1> USE DEF RegistryInv
<1>1. \A g \in Handlers : handlers'[g] = IF g = h THEN s ELSE handlers[g]
  BY DEF TypeOK
<1>2. TypeOK'
  BY <1>1 DEF TypeOK, At, Handler
<1>3. UniqueKeys' /\ ClaimIsFaithful' /\ ClaimsAreExclusive' /\ GapsAskForReview'
  BY DEF UniqueKeys, ClaimIsFaithful, ClaimsAreExclusive, GapsAskForReview, Exists
<1>4. ASSUME NEW g \in Handlers
      PROVE  HoldsUnclaimed(g)'
  BY <1>1 DEF HandlersInv, HoldsUnclaimed, GapFlagged
<1>5. ASSUME NEW g \in Handlers
      PROVE  HoldsFreshCapability(g)'
  BY <1>1 DEF HandlersInv, HoldsFreshCapability, At, Exists
<1> QED BY <1>2, <1>3, <1>4, <1>5 DEF HandlersInv

(* A request that ends leaves an idle handler behind.                      *)
LEMMA HandlerEnds ==
    ASSUME RegistryInv, NEW h \in Handlers, Finish(h),
           UNCHANGED <<candidates, capabilities>>, failures' \in Nat
    PROVE  RegistryInv'
<1>1. Idle \in Handler /\ Idle.phase = "idle" /\ Idle.candidate = None
  BY DEF Idle, Handler, Phases
<1>2. handlers' = [handlers EXCEPT ![h] = Idle]
  BY DEF Finish, Goto
<1> QED BY <1>1, <1>2, HandlerMoves

(* The reads: what Review, Reject and RegisterCandidate take away with     *)
(* them is an unclaimed record whose gaps ask for review.                  *)
LEMMA BeginDecisionPreserves ==
    ASSUME RegistryInv, NEW h \in Handlers, NEW c \in Candidates,
           BeginDecision(h, c)
    PROVE  RegistryInv'
<1> USE DEF RegistryInv
<1>1. candidates[c] # None => candidates[c] \in Record /\ GapFlagged(candidates[c])
  BY DEF TypeOK, GapsAskForReview, GapFlagged
<1>2. ASSUME candidates[c] # None, candidates[c].status # "registered"
      PROVE  candidates[c].capability = None
  BY <1>2 DEF ClaimIsFaithful
<1>3. failures' \in Nat /\ UNCHANGED <<candidates, capabilities>>
  BY DEF BeginDecision, ReviewRead, RejectRead, RegisterRead, TypeOK
<1>4. CASE ReviewRead(h, c)
  <2>1. PICK edit \in Edits[c] :
          Goto(h, [Idle EXCEPT !.phase = "write", !.candidate = c,
                               !.record = Reviewed(candidates[c], edit)])
    BY <1>4 DEF ReviewRead
  <2>2. edit \in Layer
    BY ConstantsAssumption
  <2> DEFINE r == Reviewed(candidates[c], edit)
             s == [Idle EXCEPT !.phase = "write", !.candidate = c, !.record = r]
  <2>3. /\ r \in Record
        /\ r.capability = None
        /\ r.status \in Pending
        /\ GapFlagged(r)
    BY <1>1, <1>2, <1>4, <2>2, ReviewedRecord DEF ReviewRead, AwaitsDecision, Pending
  <2>4. r.status # "registered"
    BY <2>3 DEF Pending
  <2>5. handlers' = [handlers EXCEPT ![h] = s]
    BY <2>1 DEF Goto
  <2> HIDE DEF r
  <2>6. s \in Handler /\ s.phase = "write" /\ s.candidate = c /\ s.record = r
    BY <2>3 DEF Idle, Handler, Phases
  <2> HIDE DEF s
  <2> QED BY <1>3, <2>3, <2>4, <2>5, <2>6, HandlerMoves, NoneAssumption
<1>5. CASE RejectRead(h, c)
  <2> DEFINE r == Rejected(candidates[c])
             s == [Idle EXCEPT !.phase = "write", !.candidate = c, !.record = r]
  <2>1. /\ r \in Record
        /\ r.capability = None
        /\ r.status = "rejected"
    BY <1>1, <1>2, <1>5 DEF RejectRead, Rejected, Record, Statuses
  <2>2. GapFlagged(r)
    BY <2>1 DEF GapFlagged, Pending
  <2>3. handlers' = [handlers EXCEPT ![h] = s]
    BY <1>5 DEF RejectRead, Goto
  <2> HIDE DEF r
  <2>4. s \in Handler /\ s.phase = "write" /\ s.candidate = c /\ s.record = r
    BY <2>1 DEF Idle, Handler, Phases
  <2> HIDE DEF s
  <2> QED BY <1>3, <2>1, <2>2, <2>3, <2>4, HandlerMoves, NoneAssumption
<1>6. CASE RegisterRead(h, c)
  <2> DEFINE r == candidates[c]
             k == KeyOf[c][Resolved(r).name]
             s == [Idle EXCEPT !.phase = "check", !.candidate = c,
                               !.record = r, !.key = k]
  <2>1. /\ r \in Record
        /\ r.capability = None
        /\ r.status # "registered"
        /\ GapFlagged(r)
    BY <1>1, <1>2, <1>6 DEF RegisterRead, AwaitsDecision, Pending
  <2>2. k \in Keys
    BY <2>1, ResolvedName, ConstantsAssumption
  <2>3. handlers' = [handlers EXCEPT ![h] = s]
    BY <1>6 DEF RegisterRead, Goto
  <2> HIDE DEF r, k
  <2>4. /\ s \in Handler /\ s.phase = "check"
        /\ s.candidate = c /\ s.record = r /\ s.key = k
    BY <2>1, <2>2 DEF Idle, Handler, Phases
  <2> HIDE DEF s
  <2> QED BY <1>3, <2>1, <2>2, <2>3, <2>4, HandlerMoves
<1> QED BY <1>4, <1>5, <1>6 DEF BeginDecision

(* An import stores an unclaimed record, or leaves a terminal candidate.   *)
LEMMA ImportPreserves ==
    ASSUME RegistryInv, NEW c \in Candidates, NEW p \in Payloads[c], Import(c, p)
    PROVE  RegistryInv'
<1> USE DEF RegistryInv
<1>1. p \in Payload
  BY ConstantsAssumption
<1>2. CASE candidates[c] = None \/ candidates[c].status \in Pending
  <2> DEFINE r == Upsert(c, p)[c]
  <2>1. /\ r \in Record
        /\ r.status \in Pending
        /\ r.capability = ClaimOf(c)
        /\ GapFlagged(r)
    BY <1>1, <1>2, UpsertRecord
  <2>2. candidates' = [candidates EXCEPT ![c] = r]
    BY <1>2 DEF Import, Upsert, TypeOK
  <2>3. ClaimOf(c) = None
    BY <1>2 DEF ClaimOf, ClaimIsFaithful, Pending
  <2>4. r.status # "registered"
    BY <2>1 DEF Pending
  <2> HIDE DEF r
  <2>5. UNCHANGED <<capabilities, handlers, failures>>
    BY DEF Import
  <2>6. /\ candidates' \in [Candidates -> Record \cup {None}]
        /\ ClaimIsFaithful' /\ ClaimsAreExclusive' /\ GapsAskForReview'
        /\ \A d \in Candidates, id \in CapabilityIds :
             candidates'[d] # None /\ candidates'[d].capability = id =>
                 candidates[d] # None /\ candidates[d].capability = id
    BY <2>1, <2>2, <2>3, <2>4, <2>5, StoreUnclaimed
  <2>7. TypeOK' /\ UniqueKeys'
    BY <2>5, <2>6 DEF TypeOK, UniqueKeys, At, Exists
  <2>8. HandlersInv'
    BY <2>5, <2>6 DEF HandlersInv, HoldsUnclaimed, HoldsFreshCapability,
                      GapFlagged, At, Exists, TypeOK
  <2> QED BY <2>6, <2>7, <2>8
<1>3. CASE ~(candidates[c] = None \/ candidates[c].status \in Pending)
  <2>1. UNCHANGED vars
    BY <1>3 DEF Import, Upsert, vars
  <2> QED BY <2>1 DEF vars, TypeOK, UniqueKeys, ClaimIsFaithful, ClaimsAreExclusive,
            GapsAskForReview, HandlersInv, HoldsUnclaimed, HoldsFreshCapability,
            GapFlagged, At, Exists
<1> QED BY <1>2, <1>3

(* The write of Review or Reject stores the unclaimed record it holds.     *)
LEMMA UpdatePreserves ==
    ASSUME RegistryInv, NEW h \in Handlers, UpdateCandidate(h)
    PROVE  RegistryInv'
<1> USE DEF RegistryInv
<1> DEFINE c == handlers[h].candidate
           r == handlers[h].record
<1>1. /\ c \in Candidates
      /\ r \in Record
      /\ r.capability = None
      /\ r.status # "registered"
      /\ GapFlagged(r)
  BY NoneAssumption DEF UpdateCandidate, TypeOK, HandlersInv, HoldsUnclaimed
<1>2. /\ candidates' = [candidates EXCEPT ![c] = r]
      /\ handlers' = [handlers EXCEPT ![h] = Idle]
      /\ UNCHANGED <<capabilities, failures>>
  BY DEF UpdateCandidate, RecordToWrite, Finish, Goto
<1> HIDE DEF c, r
<1>3. /\ candidates' \in [Candidates -> Record \cup {None}]
      /\ ClaimIsFaithful' /\ ClaimsAreExclusive' /\ GapsAskForReview'
      /\ \A d \in Candidates, id \in CapabilityIds :
           candidates'[d] # None /\ candidates'[d].capability = id =>
               candidates[d] # None /\ candidates[d].capability = id
  BY <1>1, <1>2, StoreUnclaimed
<1>4. Idle \in Handler /\ Idle.phase = "idle" /\ Idle.candidate = None
  BY DEF Idle, Handler, Phases
<1>5. \A g \in Handlers : handlers'[g] = IF g = h THEN Idle ELSE handlers[g]
  BY <1>2 DEF TypeOK
<1>6. TypeOK' /\ UniqueKeys'
  BY <1>2, <1>3, <1>4, <1>5 DEF TypeOK, UniqueKeys, At, Exists
<1>7. ASSUME NEW g \in Handlers
      PROVE  HoldsUnclaimed(g)'
  BY <1>4, <1>5 DEF HandlersInv, HoldsUnclaimed, GapFlagged
<1>8. ASSUME NEW g \in Handlers
      PROVE  HoldsFreshCapability(g)'
  <2> SUFFICES ASSUME At(g, "mark")'
               PROVE  HoldsFreshCapability(g)'
    BY DEF HoldsFreshCapability
  <2>1. At(g, "mark") /\ handlers'[g] = handlers[g]
    BY <1>4, <1>5 DEF At
  <2>2. handlers[g].capability \in CapabilityIds /\ HoldsFreshCapability(g)
    BY <2>1 DEF TypeOK, HandlersInv
  <2>3. \A f \in Handlers : At(f, "mark")' => At(f, "mark") /\ handlers'[f] = handlers[f]
    BY <1>4, <1>5 DEF At
  <2> QED BY <1>2, <1>3, <2>1, <2>2, <2>3 DEF HoldsFreshCapability, Exists
<1> QED BY <1>3, <1>6, <1>7, <1>8 DEF HandlersInv

(* GetBySlug finds the key free and the handler goes on to insert.         *)
LEMMA CheckPreserves ==
    ASSUME RegistryInv, NEW h \in Handlers, CheckSlug(h)
    PROVE  RegistryInv'
<1>1. CASE KeyTaken(handlers[h].key)
  BY <1>1, HandlerEnds DEF CheckSlug, RegistryInv, TypeOK
<1>2. CASE ~KeyTaken(handlers[h].key)
  <2> DEFINE s == [handlers[h] EXCEPT !.phase = "insert"]
  <2>1. handlers' = [handlers EXCEPT ![h] = s]
    BY <1>2 DEF CheckSlug, Goto
  <2>2. /\ s \in Handler
        /\ s.phase = "insert"
        /\ s.key = handlers[h].key
        /\ s.candidate = handlers[h].candidate
        /\ s.record = handlers[h].record
    BY DEF RegistryInv, TypeOK, Handler, Phases
  <2>3. s.key \in Keys
    BY <2>2 DEF CheckSlug, RegistryInv, TypeOK
  <2>4. s.candidate # None =>
          /\ s.record \in Record
          /\ s.record.capability = None
          /\ s.record.status # "registered"
          /\ GapFlagged(s.record)
    BY <2>2 DEF RegistryInv, TypeOK, HandlersInv, HoldsUnclaimed
  <2> HIDE DEF s
  <2>5. UNCHANGED <<candidates, capabilities>> /\ failures' \in Nat
    BY DEF CheckSlug, RegistryInv, TypeOK
  <2> QED BY <2>1, <2>2, <2>3, <2>4, <2>5, HandlerMoves
<1> QED BY <1>1, <1>2

LEMMA PostPreserves ==
    ASSUME RegistryInv, NEW h \in Handlers, NEW k \in Keys, PostCapability(h, k)
    PROVE  RegistryInv'
<1> DEFINE s == [Idle EXCEPT !.phase = "check", !.key = k]
<1>1. handlers' = [handlers EXCEPT ![h] = s]
  BY DEF PostCapability, Goto
<1>2. s \in Handler /\ s.phase = "check" /\ s.key = k /\ s.candidate = None
  BY DEF Idle, Handler, Phases
<1> HIDE DEF s
<1>3. UNCHANGED <<candidates, capabilities>> /\ failures' \in Nat
  BY DEF PostCapability, RegistryInv, TypeOK
<1> QED BY <1>1, <1>2, <1>3, HandlerMoves

(* A slug change under the unique index.                                   *)
LEMMA PutPreserves ==
    ASSUME RegistryInv, NEW id \in CapabilityIds, NEW k \in Keys,
           PutCapability(id, k)
    PROVE  RegistryInv'
<1> USE DEF RegistryInv
<1>1. /\ capabilities' \in [CapabilityIds -> Capability \cup {None}]
      /\ \A i \in CapabilityIds :
           /\ Exists(i)' <=> Exists(i)
           /\ Exists(i) => /\ capabilities'[i].from = capabilities[i].from
                           /\ capabilities'[i].key =
                                IF i = id THEN k ELSE capabilities[i].key
  <2>1. capabilities[id] \in Capability
    BY DEF PutCapability, Exists, TypeOK
  <2> DEFINE new == [capabilities[id] EXCEPT !.key = k]
  <2>2. new \in Capability /\ new.key = k /\ new.from = capabilities[id].from
    BY <2>1 DEF Capability
  <2>3. new # None
    BY <2>2, NoneAssumption
  <2>4. capabilities' = [capabilities EXCEPT ![id] = new]
    BY DEF PutCapability
  <2> HIDE DEF new
  <2> QED BY <2>1, <2>2, <2>3, <2>4 DEF Exists, TypeOK, PutCapability
<1>2. UNCHANGED <<candidates, handlers, failures>>
  BY DEF PutCapability
<1>3. TypeOK'
  BY <1>1, <1>2 DEF TypeOK, At
<1>4. UniqueKeys'
  BY <1>1 DEF UniqueKeys, PutCapability, KeyTakenByAnother
<1>5. ClaimIsFaithful'
  <2>1. \A c \in Candidates : candidates[c] # None /\ candidates[c].status = "registered"
          => candidates[c].capability \in CapabilityIds
    BY DEF ClaimIsFaithful, TypeOK, Record
  <2> QED BY <1>1, <1>2, <2>1 DEF ClaimIsFaithful
<1>6. ClaimsAreExclusive' /\ GapsAskForReview'
  BY <1>2 DEF ClaimsAreExclusive, GapsAskForReview
<1>7. HandlersInv'
  BY <1>1, <1>2 DEF HandlersInv, HoldsUnclaimed, HoldsFreshCapability, GapFlagged,
                    At, TypeOK
<1> QED BY <1>3, <1>4, <1>5, <1>6, <1>7

(* An insert under a free key: nobody claims the new id, and only the      *)
(* handler that inserted it holds it.                                      *)
LEMMA InsertPreserves ==
    ASSUME RegistryInv, NEW h \in Handlers, NEW id \in CapabilityIds,
           InsertCapability(h, id)
    PROVE  RegistryInv'
<1> USE DEF RegistryInv
<1> DEFINE new == [key |-> handlers[h].key, from |-> OriginOf(handlers[h])]
           s == IF handlers[h].candidate = None THEN Idle
                ELSE [handlers[h] EXCEPT !.phase = "mark", !.capability = id]
<1>1. new \in Capability /\ new.key = handlers[h].key /\ new.from = OriginOf(handlers[h])
  <2>1. handlers[h].key \in Keys
    BY DEF InsertCapability, TypeOK
  <2>2. OriginOf(handlers[h]) \in Origin \cup {None}
    BY ResolvedName DEF OriginOf, Origin, TypeOK, Handler
  <2> QED BY <2>1, <2>2 DEF Capability
<1>2. new # None
  BY <1>1, NoneAssumption
<1>3. /\ capabilities' = [capabilities EXCEPT ![id] = new]
      /\ handlers' = [handlers EXCEPT ![h] = s]
      /\ UNCHANGED <<candidates, failures>>
  BY DEF InsertCapability, Finish, Goto
<1>4. ~Exists(id) /\ ~KeyTaken(new.key)
  BY <1>1 DEF InsertCapability, IndexRefuses
<1>5. /\ s \in Handler
      /\ s.phase \in {"idle", "mark"}
      /\ s.phase = "mark" => /\ handlers[h].candidate # None
                            /\ s.capability = id
      /\ s.candidate = handlers[h].candidate
      /\ s.candidate # None => s.record = handlers[h].record
      /\ s.candidate = None => s.phase = "idle"
  BY DEF TypeOK, Idle, Handler, Phases
<1>6. s.candidate # None => s.candidate \in Candidates /\ s.record \in Record
  BY <1>5 DEF TypeOK, Handler
<1> HIDE DEF s, new
<1>7. \A i \in CapabilityIds : capabilities'[i] = IF i = id THEN new ELSE capabilities[i]
  BY <1>3 DEF TypeOK
<1>8. \A g \in Handlers : handlers'[g] = IF g = h THEN s ELSE handlers[g]
  BY <1>3 DEF TypeOK
<1>9. TypeOK'
  BY <1>1, <1>3, <1>5, <1>6, <1>8 DEF TypeOK, At
<1>10. UniqueKeys'
  BY <1>2, <1>4, <1>7 DEF UniqueKeys, Exists, KeyTaken
<1>11. \A c \in Candidates : candidates[c] # None =>
         /\ candidates[c].capability # id
         /\ candidates[c].status = "registered" => candidates[c].capability \in CapabilityIds
  BY <1>4, NoneAssumption DEF ClaimIsFaithful, Exists, TypeOK, Record
<1>12. ClaimIsFaithful'
  BY <1>3, <1>7, <1>11 DEF ClaimIsFaithful, Exists
<1>13. ClaimsAreExclusive' /\ GapsAskForReview'
  BY <1>3 DEF ClaimsAreExclusive, GapsAskForReview
<1>14. ASSUME NEW g \in Handlers
       PROVE  HoldsUnclaimed(g)'
  <2>1. HoldsUnclaimed(h) /\ HoldsUnclaimed(g)
    BY DEF HandlersInv
  <2> QED BY <1>5, <1>8, <2>1 DEF HoldsUnclaimed, GapFlagged
<1>15. \A g \in Handlers : At(g, "mark") =>
         handlers[g].capability \in CapabilityIds \ {id}
  BY <1>4 DEF HandlersInv, HoldsFreshCapability, TypeOK
<1>16. ASSUME NEW g \in Handlers, At(g, "mark")'
       PROVE  HoldsFreshCapability(g)'
  <2>1. CASE g = h
    <3>1. handlers'[g] = s /\ s.phase = "mark" /\ s.capability = id
      BY <1>5, <1>8, <1>16, <2>1 DEF At
    <3>2. new.from = [candidate |-> s.candidate, name |-> Resolved(s.record).name]
      BY <1>1, <1>5, <3>1 DEF OriginOf
    <3>3. \A f \in Handlers : At(f, "mark")' /\ f # g => handlers'[f].capability # id
      BY <1>8, <1>15, <2>1 DEF At
    <3> QED BY <1>2, <1>3, <1>7, <1>11, <3>1, <3>2, <3>3 DEF HoldsFreshCapability, Exists
  <2>2. CASE g # h
    <3>1. handlers'[g] = handlers[g] /\ At(g, "mark") /\ HoldsFreshCapability(g)
      BY <1>8, <1>16, <2>2 DEF At, HandlersInv
    <3>2. handlers[g].capability \in CapabilityIds \ {id}
      BY <1>15, <3>1
    <3>3. \A f \in Handlers : At(f, "mark")' /\ f # g =>
            handlers'[f].capability # handlers[g].capability
      BY <1>5, <1>8, <3>1, <3>2 DEF At, HoldsFreshCapability
    <3> QED BY <1>3, <1>7, <3>1, <3>2, <3>3 DEF HoldsFreshCapability, Exists
  <2> QED BY <2>1, <2>2
<1>17. HandlersInv'
  BY <1>14, <1>16 DEF HandlersInv, HoldsFreshCapability
<1> QED BY <1>9, <1>10, <1>12, <1>13, <1>17

(* MarkRegistered claims the capability its handler inserted, on the       *)
(* record it was made from.                                                *)
LEMMA MarkPreserves ==
    ASSUME RegistryInv, NEW h \in Handlers, MarkRegistered(h)
    PROVE  RegistryInv'
<1> USE DEF RegistryInv
<1> DEFINE c == handlers[h].candidate
           id == handlers[h].capability
           r == handlers[h].record
           new == Registered(r, id)
<1>1. /\ c \in Candidates /\ c # None
      /\ id \in CapabilityIds /\ id # None
      /\ r \in Record
      /\ At(h, "mark")
  BY NoneAssumption DEF MarkRegistered, TypeOK
<1>2. /\ new \in Record
      /\ new.status = "registered"
      /\ new.capability = id
      /\ Resolved(new) = Resolved(r)
  BY <1>1 DEF Registered, Record, Statuses, Resolved
<1>3. /\ candidates' = [candidates EXCEPT ![c] = new]
      /\ handlers' = [handlers EXCEPT ![h] = Idle]
      /\ UNCHANGED <<capabilities, failures>>
  BY DEF MarkRegistered, RecordToMark, Finish, Goto
<1>4. /\ Exists(id)
      /\ capabilities[id].from = [candidate |-> c, name |-> Resolved(new).name]
      /\ \A d \in Candidates : candidates[d] # None => candidates[d].capability # id
      /\ \A g \in Handlers : At(g, "mark") /\ g # h => handlers[g].capability # id
  BY <1>1, <1>2 DEF HandlersInv, HoldsFreshCapability
<1>5. Idle \in Handler /\ Idle.phase = "idle" /\ Idle.candidate = None
  BY DEF Idle, Handler, Phases
<1> HIDE DEF c, id, r, new
<1>6. \A d \in Candidates : candidates'[d] = IF d = c THEN new ELSE candidates[d]
  BY <1>3 DEF TypeOK
<1>7. \A g \in Handlers : handlers'[g] = IF g = h THEN Idle ELSE handlers[g]
  BY <1>3 DEF TypeOK
<1>8. TypeOK' /\ UniqueKeys'
  BY <1>2, <1>3, <1>5, <1>7 DEF TypeOK, UniqueKeys, At, Exists
<1>9. ClaimIsFaithful'
  BY <1>1, <1>2, <1>3, <1>4, <1>6 DEF ClaimIsFaithful, Exists
<1>10. ClaimsAreExclusive'
  BY <1>2, <1>4, <1>6 DEF ClaimsAreExclusive
<1>11. GapsAskForReview'
  BY <1>2, <1>6 DEF GapsAskForReview, Pending
<1>12. ASSUME NEW g \in Handlers
       PROVE  HoldsUnclaimed(g)'
  BY <1>5, <1>7 DEF HandlersInv, HoldsUnclaimed, GapFlagged
<1>13. ASSUME NEW g \in Handlers, At(g, "mark")'
       PROVE  HoldsFreshCapability(g)'
  <2>1. g # h /\ At(g, "mark") /\ handlers'[g] = handlers[g]
    BY <1>5, <1>7, <1>13 DEF At
  <2>2. HoldsFreshCapability(g) /\ handlers[g].capability # id
    BY <1>4, <2>1 DEF HandlersInv
  <2>3. \A f \in Handlers : At(f, "mark")' => At(f, "mark") /\ handlers'[f] = handlers[f]
    BY <1>5, <1>7 DEF At
  <2>4. \A d \in Candidates :
          candidates'[d] # None => candidates'[d].capability # handlers[g].capability
    BY <1>2, <1>6, <2>1, <2>2 DEF HoldsFreshCapability
  <2> QED BY <1>3, <2>1, <2>2, <2>3, <2>4 DEF HoldsFreshCapability, Exists
<1>14. HandlersInv'
  BY <1>12, <1>13 DEF HandlersInv, HoldsFreshCapability
<1> QED BY <1>8, <1>9, <1>10, <1>11, <1>14

-----------------------------------------------------------------------------
LEMMA RegistryInit == Init => RegistryInv
<1> SUFFICES ASSUME Init PROVE RegistryInv
  OBVIOUS
<1>1. Idle \in Handler /\ Idle.phase = "idle" /\ Idle.candidate = None
  BY DEF Idle, Handler, Phases
<1>2. TypeOK
  BY <1>1 DEF Init, TypeOK, At
<1>3. UniqueKeys /\ ClaimIsFaithful /\ ClaimsAreExclusive /\ GapsAskForReview
  BY DEF Init, UniqueKeys, ClaimIsFaithful, ClaimsAreExclusive, GapsAskForReview, Exists
<1>4. HandlersInv
  BY <1>1 DEF Init, HandlersInv, HoldsUnclaimed, HoldsFreshCapability, At
<1> QED BY <1>2, <1>3, <1>4 DEF RegistryInv

LEMMA ProceedPreserves ==
    ASSUME RegistryInv, Proceed
    PROVE  RegistryInv'
<1>1. CASE \E c \in Candidates : \E p \in Payloads[c] : Import(c, p)
  BY <1>1, ImportPreserves
<1>2. CASE \E id \in CapabilityIds, k \in Keys : PutCapability(id, k)
  BY <1>2, PutPreserves
<1>3. ASSUME NEW h \in Handlers, \E k \in Keys : PostCapability(h, k)
      PROVE  RegistryInv'
  BY <1>3, PostPreserves
<1>4. ASSUME NEW h \in Handlers, UpdateCandidate(h)
      PROVE  RegistryInv'
  BY <1>4, UpdatePreserves
<1>5. ASSUME NEW h \in Handlers, CheckSlug(h)
      PROVE  RegistryInv'
  BY <1>5, CheckPreserves
<1>6. ASSUME NEW h \in Handlers, InsertConflict(h)
      PROVE  RegistryInv'
  BY <1>6, HandlerEnds DEF InsertConflict, RegistryInv, TypeOK
<1>7. ASSUME NEW h \in Handlers, \E id \in CapabilityIds : InsertCapability(h, id)
      PROVE  RegistryInv'
  BY <1>7, InsertPreserves
<1>8. ASSUME NEW h \in Handlers, MarkRegistered(h)
      PROVE  RegistryInv'
  BY <1>8, MarkPreserves
<1>9. ASSUME NEW h \in Handlers, Fail(h)
      PROVE  RegistryInv'
  BY <1>9, HandlerEnds DEF Fail, RegistryInv, TypeOK
<1> QED BY <1>1, <1>2, <1>3, <1>4, <1>5, <1>6, <1>7, <1>8, <1>9 DEF Proceed

LEMMA RegistryStutter == RegistryInv /\ UNCHANGED vars => RegistryInv'
BY DEF vars, RegistryInv, TypeOK, UniqueKeys, ClaimIsFaithful, ClaimsAreExclusive,
       GapsAskForReview, HandlersInv, HoldsUnclaimed, HoldsFreshCapability,
       GapFlagged, At, Exists

(* RegistryInv is inductive: every state every interleaving of imports,    *)
(* reviews, rejections, registrations, posts, puts and failing requests    *)
(* can reach satisfies it.                                                 *)
THEOREM RegistryInvariant == Spec => []RegistryInv
<1>1. ASSUME RegistryInv, [Next]_vars
      PROVE  RegistryInv'
  <2>1. CASE Next
    BY <1>1, <2>1, BeginDecisionPreserves, ProceedPreserves DEF Next
  <2>2. CASE UNCHANGED vars
    BY <1>1, <2>2, RegistryStutter
  <2> QED BY <1>1, <2>1, <2>2
<1> QED BY RegistryInit, <1>1, PTL DEF Spec

(* The tables and the handlers are well typed in every reachable state,    *)
(* so no handler ever writes a record it has not read.                     *)
THEOREM RegistryTypeOK == Spec => []TypeOK
BY RegistryInvariant, PTL DEF RegistryInv

(* (type, slug) is unique whatever posts, registrations and slug changes   *)
(* race between GetBySlug and Create.                                      *)
THEOREM KeysAreUnique == Spec => []UniqueKeys
BY RegistryInvariant, PTL DEF RegistryInv

(* A registered candidate shows what its capability was made from, however *)
(* stale the record MarkRegistered writes back.                            *)
THEOREM ClaimsAreFaithful == Spec => []ClaimIsFaithful
BY RegistryInvariant, PTL DEF RegistryInv

(* No capability is claimed by two candidates, for any number of handlers. *)
THEOREM NoSharedClaim == Spec => []ClaimsAreExclusive
BY RegistryInvariant, PTL DEF RegistryInv

(* A pending candidate with a missing core field asks for review in every  *)
(* reachable state.                                                        *)
THEOREM GapsAreFlagged == Spec => []GapsAskForReview
BY RegistryInvariant, PTL DEF RegistryInv


-----------------------------------------------------------------------------
(* The refinement: one reviewer at a time decides on a candidate, and then *)
(* only requests that die leave a capability without the candidate it was  *)
(* made from.                                                              *)

(* What is still current of the record a handler carries, given that only  *)
(* imports can have touched its candidate since it was read.               *)
RejectionIsCurrent(h) ==
    LET c == handlers[h].candidate
    IN  /\ handlers[h].record.status = "rejected"
        /\ StatusOf(c) \in Pending \cup {"rejected"}
        /\ handlers[h].record.review = ReviewOf(c)

ReviewIsCurrent(h) ==
    LET c == handlers[h].candidate
    IN  /\ handlers[h].record.status \in Pending
        /\ StatusOf(c) \in Pending
        /\ \E edit \in Edits[c] : handlers[h].record.review = Merge(ReviewOf(c), edit)

RegistrationIsCurrent(h) ==
    LET c == handlers[h].candidate
    IN  /\ StatusOf(c) \in Pending
        /\ handlers[h].record.review = ReviewOf(c)

IsCurrent(h) ==
    handlers[h].candidate # None =>
        /\ ~At(h, "idle")
        /\ At(h, "write") => RejectionIsCurrent(h) \/ ReviewIsCurrent(h)
        /\ ~At(h, "write") => RegistrationIsCurrent(h)

AllCurrent == \A h \in Handlers : IsCurrent(h)

OneReviewerInv == RegistryInv /\ OneReviewer /\ AllCurrent

-----------------------------------------------------------------------------
(* The steps that keep to one reviewer per candidate.                      *)
Busy(c) == \E h \in Handlers : handlers[h].candidate = c

NextOneReviewer ==
    \/ \E h \in Handlers, c \in Candidates : ~Busy(c) /\ BeginDecision(h, c)
    \/ Proceed

(* As long as nothing has overlapped, they are the only steps.             *)
LEMMA UnlessOverlapped ==
    ASSUME RegistryInv, ~overlapped => OneReviewer /\ AllCurrent,
           [NextWatched]_watchedVars, ~overlapped'
    PROVE  ~overlapped /\ OneReviewerInv /\ [NextOneReviewer]_vars
<1>1. ~overlapped
  BY DEF NextWatched, watchedVars
<1>2. OneReviewerInv
  BY <1>1 DEF OneReviewerInv
<1>3. CASE UNCHANGED watchedVars
  BY <1>1, <1>2, <1>3 DEF watchedVars
<1>4. ASSUME NEW h \in Handlers, NEW c \in Candidates, BeginDecision(h, c), OneReviewer'
      PROVE  ~Busy(c)
  <2>1. At(h, "idle") /\ UNCHANGED <<candidates, capabilities, failures>>
    BY <1>4 DEF BeginDecision, ReviewRead, RejectRead, RegisterRead
  <2>2. PICK s : s.candidate = c /\ handlers' = [handlers EXCEPT ![h] = s]
    BY <1>4 DEF BeginDecision, ReviewRead, RejectRead, RegisterRead, Goto, Idle
  <2>3. \A g \in Handlers : handlers'[g] = IF g = h THEN s ELSE handlers[g]
    BY <2>2, <1>2 DEF OneReviewerInv, RegistryInv, TypeOK
  <2>4. handlers[h].candidate = None
    BY <2>1, <1>2 DEF OneReviewerInv, AllCurrent, IsCurrent
  <2>5. c # None
    BY NoneAssumption
  <2> QED BY <1>4, <2>2, <2>3, <2>4, <2>5 DEF Busy, OneReviewer
<1>5. CASE NextWatched
  <2>1. Next /\ OneReviewer'
    BY <1>5 DEF NextWatched
  <2> QED BY <1>1, <1>2, <1>4, <2>1 DEF Next, NextOneReviewer
<1> QED BY <1>3, <1>5

LEMMA WatchedIsSpec == SpecWatched => Spec
<1>1. [NextWatched]_watchedVars => [Next]_vars
  BY DEF NextWatched, watchedVars
<1> QED BY <1>1, PTL DEF SpecWatched, InitWatched, Spec

(* A step that leaves a handler and its candidate's decision and review    *)
(* alone leaves what it carries current.                                   *)
LEMMA StaysCurrent ==
    ASSUME NEW h \in Handlers, IsCurrent(h), handlers'[h] = handlers[h],
           handlers[h].candidate # None =>
             /\ ReviewOf(handlers[h].candidate)' = ReviewOf(handlers[h].candidate)
             /\ \/ StatusOf(handlers[h].candidate)' = StatusOf(handlers[h].candidate)
                \/ /\ StatusOf(handlers[h].candidate) \in Pending
                   /\ StatusOf(handlers[h].candidate)' \in Pending
    PROVE  IsCurrent(h)'
<1> SUFFICES ASSUME handlers[h].candidate # None
             PROVE  IsCurrent(h)'
  BY DEF IsCurrent
<1> DEFINE c == handlers[h].candidate
<1>1. RejectionIsCurrent(h) => RejectionIsCurrent(h)'
  BY DEF RejectionIsCurrent, ReviewOf, StatusOf
<1>2. ReviewIsCurrent(h) => ReviewIsCurrent(h)'
  BY DEF ReviewIsCurrent, ReviewOf, StatusOf
<1>3. RegistrationIsCurrent(h) => RegistrationIsCurrent(h)'
  BY DEF RegistrationIsCurrent, ReviewOf, StatusOf
<1> QED BY <1>1, <1>2, <1>3 DEF IsCurrent, At

(* A handler that reads, moves on or ends is invisible to the lifecycle.   *)
LEMMA HandlerStep ==
    ASSUME OneReviewerInv, NEW h \in Handlers, NEW s \in Handler,
           handlers' = [handlers EXCEPT ![h] = s],
           UNCHANGED <<candidates, capabilities>>,
           \/ s.candidate = None
           \/ s.candidate = handlers[h].candidate
           \/ ~Busy(s.candidate),
           IsCurrent(h)'
    PROVE  OneReviewer' /\ AllCurrent' /\ UNCHANGED Lifecycle!lifecycleVars
<1> USE DEF OneReviewerInv
<1>1. \A g \in Handlers : handlers'[g] = IF g = h THEN s ELSE handlers[g]
  BY DEF RegistryInv, TypeOK
<1>2. OneReviewer'
  BY <1>1 DEF OneReviewer, Busy
<1>3. \A c \in Candidates \cup {None} : StatusOf(c)' = StatusOf(c) /\ ReviewOf(c)' = ReviewOf(c)
  BY DEF StatusOf, ReviewOf
<1>4. ASSUME NEW g \in Handlers, g # h
      PROVE  IsCurrent(g)'
  <2>1. handlers'[g] = handlers[g] /\ IsCurrent(g) /\ handlers[g].candidate \in Candidates \cup {None}
    BY <1>1, <1>4 DEF AllCurrent, RegistryInv, TypeOK, Handler
  <2> QED BY <1>3, <2>1, StaysCurrent
<1>5. AllCurrent'
  BY <1>4 DEF AllCurrent
<1>6. UNCHANGED Lifecycle!lifecycleVars
  BY DEF Lifecycle!lifecycleVars, StatusOf, ReviewOf, ClaimOf, KeyAt
<1> QED BY <1>2, <1>5, <1>6

LEMMA EndIsInvisible ==
    ASSUME OneReviewerInv, NEW h \in Handlers, Finish(h),
           UNCHANGED <<candidates, capabilities>>
    PROVE  OneReviewer' /\ AllCurrent' /\ UNCHANGED Lifecycle!lifecycleVars
<1>1. Idle \in Handler /\ Idle.phase = "idle" /\ Idle.candidate = None
  BY DEF Idle, Handler, Phases
<1>2. handlers' = [handlers EXCEPT ![h] = Idle]
  BY DEF Finish, Goto
<1>3. handlers'[h] = Idle
  BY <1>2 DEF OneReviewerInv, RegistryInv, TypeOK
<1>4. IsCurrent(h)'
  BY <1>1, <1>3 DEF IsCurrent
<1> QED BY <1>1, <1>2, <1>4, HandlerStep

(* The reads: what is taken away is current when it is taken.              *)
LEMMA BeginIsInvisible ==
    ASSUME OneReviewerInv, NEW h \in Handlers, NEW c \in Candidates,
           ~Busy(c), BeginDecision(h, c)
    PROVE  OneReviewer' /\ AllCurrent' /\ UNCHANGED Lifecycle!lifecycleVars
<1> USE DEF OneReviewerInv
<1>1. candidates[c] # None /\ candidates[c] \in Record
  BY DEF BeginDecision, ReviewRead, RejectRead, RegisterRead, AwaitsDecision, RegistryInv, TypeOK
<1>2. StatusOf(c)' = candidates[c].status /\ ReviewOf(c)' = candidates[c].review
  BY <1>1 DEF BeginDecision, ReviewRead, RejectRead, RegisterRead, StatusOf, ReviewOf
<1>3. UNCHANGED <<candidates, capabilities>>
  BY DEF BeginDecision, ReviewRead, RejectRead, RegisterRead
<1>4. candidates[c].status # "registered" =>
        candidates[c].capability = None /\ GapFlagged(candidates[c])
  BY <1>1 DEF RegistryInv, ClaimIsFaithful, GapsAskForReview, GapFlagged
<1>5. CASE ReviewRead(h, c)
  <2>1. PICK edit \in Edits[c] :
          Goto(h, [Idle EXCEPT !.phase = "write", !.candidate = c,
                               !.record = Reviewed(candidates[c], edit)])
    BY <1>5 DEF ReviewRead
  <2>2. edit \in Layer
    BY ConstantsAssumption
  <2>3. candidates[c].status \in Pending
    BY <1>5 DEF ReviewRead, AwaitsDecision
  <2> DEFINE r == Reviewed(candidates[c], edit)
             s == [Idle EXCEPT !.phase = "write", !.candidate = c, !.record = r]
  <2>4. /\ r \in Record
        /\ r.status \in Pending
        /\ r.review = Merge(candidates[c].review, edit)
    BY <1>1, <1>4, <2>2, <2>3, ReviewedRecord DEF Pending
  <2>5. handlers' = [handlers EXCEPT ![h] = s]
    BY <2>1 DEF Goto
  <2> HIDE DEF r
  <2>6. s \in Handler /\ s.phase = "write" /\ s.candidate = c /\ s.record = r
    BY <2>4 DEF Idle, Handler, Phases
  <2> HIDE DEF s
  <2>7. handlers'[h] = s
    BY <2>5 DEF RegistryInv, TypeOK
  <2>8. ReviewIsCurrent(h)'
    BY <1>2, <2>3, <2>4, <2>6, <2>7 DEF ReviewIsCurrent
  <2>9. IsCurrent(h)'
    BY <2>6, <2>7, <2>8 DEF IsCurrent, At
  <2> QED BY <1>3, <2>5, <2>6, <2>9, HandlerStep
<1>6. CASE RejectRead(h, c)
  <2> DEFINE r == Rejected(candidates[c])
             s == [Idle EXCEPT !.phase = "write", !.candidate = c, !.record = r]
  <2>1. /\ r \in Record
        /\ r.status = "rejected"
        /\ r.review = candidates[c].review
    BY <1>1 DEF Rejected, Record, Statuses
  <2>2. handlers' = [handlers EXCEPT ![h] = s]
    BY <1>6 DEF RejectRead, Goto
  <2> HIDE DEF r
  <2>3. s \in Handler /\ s.phase = "write" /\ s.candidate = c /\ s.record = r
    BY <2>1 DEF Idle, Handler, Phases
  <2> HIDE DEF s
  <2>4. handlers'[h] = s
    BY <2>2 DEF RegistryInv, TypeOK
  <2>5. candidates[c].status \in Pending \cup {"rejected"}
    BY <1>1, <1>6 DEF RejectRead, Record, Statuses
  <2>6. RejectionIsCurrent(h)'
    BY <1>2, <2>1, <2>3, <2>4, <2>5 DEF RejectionIsCurrent
  <2>7. IsCurrent(h)'
    BY <2>3, <2>4, <2>6 DEF IsCurrent, At
  <2> QED BY <1>3, <2>2, <2>3, <2>7, HandlerStep
<1>7. CASE RegisterRead(h, c)
  <2> DEFINE r == candidates[c]
             k == KeyOf[c][Resolved(r).name]
             s == [Idle EXCEPT !.phase = "check", !.candidate = c,
                               !.record = r, !.key = k]
  <2>1. r \in Record /\ k \in Keys
    BY <1>1, ResolvedName, ConstantsAssumption
  <2>2. r.status \in Pending
    BY <1>7 DEF RegisterRead, AwaitsDecision
  <2>3. handlers' = [handlers EXCEPT ![h] = s]
    BY <1>7 DEF RegisterRead, Goto
  <2>4. StatusOf(c)' = r.status /\ ReviewOf(c)' = r.review
    BY <1>2
  <2> HIDE DEF r, k
  <2>5. s \in Handler /\ s.phase = "check" /\ s.candidate = c /\ s.record = r
    BY <2>1 DEF Idle, Handler, Phases
  <2> HIDE DEF s
  <2>6. handlers'[h] = s
    BY <2>3 DEF RegistryInv, TypeOK
  <2>7. RegistrationIsCurrent(h)'
    BY <2>2, <2>4, <2>5, <2>6 DEF RegistrationIsCurrent
  <2>8. IsCurrent(h)'
    BY <2>5, <2>6, <2>7 DEF IsCurrent, At
  <2> QED BY <1>3, <2>3, <2>5, <2>8, HandlerStep
<1> QED BY <1>5, <1>6, <1>7 DEF BeginDecision

-----------------------------------------------------------------------------
(* How a stored record shows in the lifecycle.                             *)
LEMMA StoredShows ==
    ASSUME TypeOK, NEW c \in Candidates, NEW r \in Record,
           candidates' = [candidates EXCEPT ![c] = r]
    PROVE  /\ StatusOf(c)' = r.status
           /\ ReviewOf(c)' = r.review
           /\ ClaimOf(c)' = r.capability
           /\ \A d \in Candidates \ {c} :
                /\ StatusOf(d)' = StatusOf(d)
                /\ ReviewOf(d)' = ReviewOf(d)
                /\ ClaimOf(d)' = ClaimOf(d)
<1>1. \A d \in Candidates : candidates'[d] = IF d = c THEN r ELSE candidates[d]
  BY DEF TypeOK
<1> QED BY <1>1, NoneAssumption DEF StatusOf, ReviewOf, ClaimOf

(* Handlers on other candidates do not notice what is stored for c.        *)
LEMMA OthersStayCurrent ==
    ASSUME OneReviewerInv, NEW h \in Handlers, NEW c \in Candidates, NEW r \in Record,
           candidates' = [candidates EXCEPT ![c] = r],
           handlers' = [handlers EXCEPT ![h] = Idle],
           handlers[h].candidate = c
    PROVE  OneReviewer' /\ AllCurrent'
<1> USE DEF OneReviewerInv
<1>1. \A g \in Handlers : handlers'[g] = IF g = h THEN Idle ELSE handlers[g]
  BY DEF RegistryInv, TypeOK
<1>2. Idle.candidate = None
  BY DEF Idle
<1>3. OneReviewer'
  BY <1>1, <1>2 DEF OneReviewer
<1>4. ASSUME NEW g \in Handlers, g # h
      PROVE  IsCurrent(g)'
  <2>1. handlers'[g] = handlers[g] /\ IsCurrent(g) /\ handlers[g].candidate \in Candidates \cup {None}
    BY <1>1, <1>4 DEF AllCurrent, RegistryInv, TypeOK, Handler
  <2>2. handlers[g].candidate # c
    BY <1>4, NoneAssumption DEF OneReviewer
  <2>3. handlers[g].candidate # None =>
          /\ ReviewOf(handlers[g].candidate)' = ReviewOf(handlers[g].candidate)
          /\ StatusOf(handlers[g].candidate)' = StatusOf(handlers[g].candidate)
    BY <2>1, <2>2, StoredShows DEF RegistryInv
  <2> QED BY <2>1, <2>3, StaysCurrent
<1>5. IsCurrent(h)'
  BY <1>1, <1>2 DEF IsCurrent
<1> QED BY <1>3, <1>4, <1>5 DEF AllCurrent

LEMMA ImportRefines ==
    ASSUME OneReviewerInv, NEW c \in Candidates, NEW p \in Payloads[c], Import(c, p)
    PROVE  OneReviewer' /\ AllCurrent' /\ [Lifecycle!Next]_(Lifecycle!lifecycleVars)
<1> USE DEF OneReviewerInv
<1>1. p \in Payload
  BY ConstantsAssumption
<1>2. CASE candidates[c] = None \/ candidates[c].status \in Pending
  <2> DEFINE r == Upsert(c, p)[c]
  <2>1. /\ r \in Record
        /\ r.status \in Pending
        /\ r.review = ReviewOf(c)
        /\ r.capability = ClaimOf(c)
    BY <1>1, <1>2, UpsertRecord DEF RegistryInv
  <2>2. candidates' = [candidates EXCEPT ![c] = r]
    BY <1>2 DEF Import, Upsert, RegistryInv, TypeOK
  <2> HIDE DEF r
  <2>3. StatusOf(c) \in Pending \cup {"absent"}
    BY <1>2 DEF StatusOf
  <2>4. /\ StatusOf(c)' \in Pending
        /\ \A d \in Candidates \ {c} : StatusOf(d)' = StatusOf(d)
        /\ \A d \in Candidates : ReviewOf(d)' = ReviewOf(d) /\ ClaimOf(d)' = ClaimOf(d)
    BY <2>1, <2>2, StoredShows DEF RegistryInv
  <2>5. UNCHANGED <<capabilities, handlers>>
    BY DEF Import
  <2>6. Lifecycle!Discover(c)
    BY <2>3, <2>4, <2>5 DEF Lifecycle!Discover, Lifecycle!PendingStatuses, Pending, KeyAt
  <2>7. ASSUME NEW g \in Handlers
        PROVE  IsCurrent(g)'
    <3>1. handlers'[g] = handlers[g] /\ IsCurrent(g) /\ handlers[g].candidate \in Candidates \cup {None}
      BY <2>5 DEF AllCurrent, RegistryInv, TypeOK, Handler
    <3>2. handlers[g].candidate = c => StatusOf(c) # "absent"
      BY <3>1, NoneAssumption DEF IsCurrent, RejectionIsCurrent, ReviewIsCurrent,
                                  RegistrationIsCurrent, Pending
    <3> QED BY <2>3, <2>4, <3>1, <3>2, StaysCurrent
  <2>8. OneReviewer'
    BY <2>5 DEF OneReviewer
  <2> QED BY <2>6, <2>7, <2>8 DEF Lifecycle!Next, AllCurrent
<1>3. CASE ~(candidates[c] = None \/ candidates[c].status \in Pending)
  <2>1. UNCHANGED <<candidates, capabilities, handlers>>
    BY <1>3 DEF Import, Upsert
  <2> QED BY <2>1 DEF OneReviewer, AllCurrent, IsCurrent, RejectionIsCurrent, ReviewIsCurrent,
            RegistrationIsCurrent, StatusOf, ReviewOf, ClaimOf, KeyAt, At,
            Lifecycle!lifecycleVars
<1> QED BY <1>2, <1>3

(* The write of a review is an amendment, the write of a rejection a       *)
(* dismissal unless the candidate was dismissed before.                    *)
LEMMA UpdateRefines ==
    ASSUME OneReviewerInv, NEW h \in Handlers, UpdateCandidate(h)
    PROVE  OneReviewer' /\ AllCurrent' /\ [Lifecycle!Next]_(Lifecycle!lifecycleVars)
<1> USE DEF OneReviewerInv
<1> PICK c \in Candidates, r \in Record :
      c = handlers[h].candidate /\ r = handlers[h].record
  BY DEF UpdateCandidate, RegistryInv, TypeOK
<1>1. c # None /\ r.capability = None
  BY NoneAssumption DEF RegistryInv, HandlersInv, HoldsUnclaimed
<1>2. /\ candidates' = [candidates EXCEPT ![c] = r]
      /\ handlers' = [handlers EXCEPT ![h] = Idle]
      /\ UNCHANGED <<capabilities, failures>>
  BY DEF UpdateCandidate, RecordToWrite, Finish, Goto
<1>3. RejectionIsCurrent(h) \/ ReviewIsCurrent(h)
  BY <1>1 DEF AllCurrent, IsCurrent, UpdateCandidate
<1>4. StatusOf(c) # "registered" => ClaimOf(c) = None
  BY <1>1 DEF StatusOf, ClaimOf, RegistryInv, ClaimIsFaithful
<1>5. StatusOf(c) \in Pending \cup {"rejected"}
  BY <1>3 DEF RejectionIsCurrent, ReviewIsCurrent
<1>6. /\ StatusOf(c)' = r.status
      /\ ReviewOf(c)' = r.review
      /\ \A d \in Candidates : ClaimOf(d)' = ClaimOf(d)
      /\ \A d \in Candidates \ {c} :
           StatusOf(d)' = StatusOf(d) /\ ReviewOf(d)' = ReviewOf(d)
  BY <1>1, <1>2, <1>4, <1>5, StoredShows DEF RegistryInv, Pending
<1>7. OneReviewer' /\ AllCurrent'
  BY <1>2, OthersStayCurrent
<1>8. CASE RejectionIsCurrent(h)
  <2>1. r.status = "rejected" /\ r.review = ReviewOf(c)
    BY <1>8 DEF RejectionIsCurrent
  <2>2. CASE StatusOf(c) \in Pending
    <3>1. Lifecycle!Dismiss(c)
      BY <1>1, <1>2, <1>6, <2>1, <2>2
         DEF Lifecycle!Dismiss, Lifecycle!PendingStatuses, Pending, KeyAt
    <3> QED BY <1>1, <1>7, <3>1 DEF Lifecycle!Next
  <2>3. CASE StatusOf(c) = "rejected"
    <3>1. UNCHANGED Lifecycle!lifecycleVars
      BY <1>2, <1>6, <2>1, <2>3 DEF Lifecycle!lifecycleVars, KeyAt
    <3> QED BY <1>7, <3>1
  <2> QED BY <1>5, <2>2, <2>3
<1>9. CASE ReviewIsCurrent(h)
  <2>1. r.status \in Pending /\ StatusOf(c) \in Pending
    BY <1>9 DEF ReviewIsCurrent
  <2>2. PICK edit \in Edits[c] : r.review = Merge(ReviewOf(c), edit)
    BY <1>9 DEF ReviewIsCurrent
  <2>3. r.review = Lifecycle!Layered(ReviewOf(c), edit)
    BY <2>2 DEF Merge, Lifecycle!Layered
  <2>4. Lifecycle!Amend(c)
    BY <1>1, <1>2, <1>6, <2>1, <2>2, <2>3
       DEF Lifecycle!Amend, Lifecycle!PendingStatuses, Pending, KeyAt
  <2> QED BY <1>1, <1>7, <2>4 DEF Lifecycle!Next
<1> QED BY <1>3, <1>8, <1>9

(* An insert publishes a key that was free; nothing is promoted yet.       *)
LEMMA InsertRefines ==
    ASSUME OneReviewerInv, NEW h \in Handlers, NEW id \in CapabilityIds,
           InsertCapability(h, id)
    PROVE  OneReviewer' /\ AllCurrent' /\ [Lifecycle!Next]_(Lifecycle!lifecycleVars)
<1> USE DEF OneReviewerInv
<1> DEFINE s == IF handlers[h].candidate = None THEN Idle
                ELSE [handlers[h] EXCEPT !.phase = "mark", !.capability = id]
<1> PICK k \in Keys : k = handlers[h].key
  BY DEF InsertCapability, RegistryInv, TypeOK
<1>1. UNCHANGED candidates /\ handlers' = [handlers EXCEPT ![h] = s]
  BY DEF InsertCapability, Finish, Goto
<1>2. /\ handlers[h] \in Handler
      /\ s.candidate = handlers[h].candidate
      /\ s.candidate # None => s.record = handlers[h].record /\ s.phase = "mark"
  BY DEF RegistryInv, TypeOK, Idle, Handler
<1> HIDE DEF s
<1>3. \A g \in Handlers : handlers'[g] = IF g = h THEN s ELSE handlers[g]
  BY <1>1 DEF RegistryInv, TypeOK
<1>4. OneReviewer'
  BY <1>2, <1>3 DEF OneReviewer
<1>5. \A c \in Candidates \cup {None} :
        StatusOf(c)' = StatusOf(c) /\ ReviewOf(c)' = ReviewOf(c) /\ ClaimOf(c)' = ClaimOf(c)
  BY <1>1 DEF StatusOf, ReviewOf, ClaimOf
<1>6. ASSUME NEW g \in Handlers, g # h
      PROVE  IsCurrent(g)'
  <2>1. handlers'[g] = handlers[g] /\ IsCurrent(g) /\ handlers[g].candidate \in Candidates \cup {None}
    BY <1>3, <1>6 DEF AllCurrent, RegistryInv, TypeOK, Handler
  <2> QED BY <1>5, <2>1, StaysCurrent
<1>7. IsCurrent(h)'
  <2> SUFFICES ASSUME s.candidate # None
               PROVE  IsCurrent(h)'
    BY <1>3 DEF IsCurrent
  <2>1. RegistrationIsCurrent(h)
    BY <1>2 DEF AllCurrent, IsCurrent, InsertCapability, At
  <2>2. RegistrationIsCurrent(h)'
    BY <1>1, <1>2, <1>3, <2>1 DEF RegistrationIsCurrent, StatusOf, ReviewOf
  <2> QED BY <1>2, <1>3, <2>2 DEF IsCurrent, At
<1>8. Lifecycle!Publish(id, k)
  <2>1. /\ KeyAt(id)' = k
        /\ \A i \in CapabilityIds \ {id} : KeyAt(i)' = KeyAt(i)
    <3>1. \A i \in CapabilityIds : capabilities'[i] =
            IF i = id THEN [key |-> k, from |-> OriginOf(handlers[h])] ELSE capabilities[i]
      BY DEF InsertCapability, RegistryInv, TypeOK
    <3>2. [key |-> k, from |-> OriginOf(handlers[h])] # None
      <4>1. OriginOf(handlers[h]) \in Origin \cup {None}
        BY ResolvedName DEF OriginOf, Origin, RegistryInv, TypeOK, Handler
      <4>2. [key |-> k, from |-> OriginOf(handlers[h])] \in Capability
        BY <4>1 DEF Capability
      <4> QED BY <4>2, NoneAssumption
    <3> QED BY <3>1, <3>2 DEF KeyAt
  <2>2. \A i \in CapabilityIds : KeyAt(i) # k
    BY NoneAssumption DEF InsertCapability, IndexRefuses, KeyTaken, Exists, KeyAt
  <2> QED BY <1>5, <2>1, <2>2 DEF Lifecycle!Publish
<1> QED BY <1>4, <1>6, <1>7, <1>8 DEF Lifecycle!Next, AllCurrent

(* MarkRegistered promotes: the candidate is still pending, its review is  *)
(* the one that was registered, and the capability is nobody else's.       *)
LEMMA MarkRefines ==
    ASSUME OneReviewerInv, NEW h \in Handlers, MarkRegistered(h)
    PROVE  OneReviewer' /\ AllCurrent' /\ [Lifecycle!Next]_(Lifecycle!lifecycleVars)
<1> USE DEF OneReviewerInv
<1> PICK c \in Candidates, id \in CapabilityIds, r \in Record :
      c = handlers[h].candidate /\ id = handlers[h].capability /\ r = handlers[h].record
  BY DEF MarkRegistered, RegistryInv, TypeOK
<1> DEFINE new == Registered(r, id)
<1>1. /\ new \in Record
      /\ new.status = "registered"
      /\ new.capability = id
      /\ new.review = r.review
  BY DEF Registered, Record, Statuses
<1>2. /\ candidates' = [candidates EXCEPT ![c] = new]
      /\ handlers' = [handlers EXCEPT ![h] = Idle]
      /\ UNCHANGED capabilities
  BY DEF MarkRegistered, RecordToMark, Finish, Goto
<1> HIDE DEF new
<1>3. OneReviewer' /\ AllCurrent'
  BY <1>1, <1>2, OthersStayCurrent
<1>4. StatusOf(c) \in Pending /\ r.review = ReviewOf(c)
  BY NoneAssumption DEF AllCurrent, IsCurrent, RegistrationIsCurrent, MarkRegistered, At
<1>5. /\ StatusOf(c)' = "registered"
      /\ ReviewOf(c)' = ReviewOf(c)
      /\ ClaimOf(c)' = id
      /\ \A d \in Candidates \ {c} :
           StatusOf(d)' = StatusOf(d) /\ ReviewOf(d)' = ReviewOf(d) /\ ClaimOf(d)' = ClaimOf(d)
  BY <1>1, <1>2, <1>4, StoredShows DEF RegistryInv
<1>6. /\ Exists(id)
      /\ \A d \in Candidates : candidates[d] # None => candidates[d].capability # id
  BY DEF RegistryInv, HandlersInv, HoldsFreshCapability, MarkRegistered
<1>7. KeyAt(id) # None
  BY <1>6, NoneAssumption DEF Exists, KeyAt, RegistryInv, TypeOK, Capability
<1>8. \A d \in Candidates : ClaimOf(d) # id
  BY <1>6, NoneAssumption DEF ClaimOf
<1>9. Lifecycle!Promote(c, id)
  BY <1>2, <1>4, <1>5, <1>7, <1>8
     DEF Lifecycle!Promote, Lifecycle!PendingStatuses, Pending, KeyAt
<1> QED BY <1>3, <1>9 DEF Lifecycle!Next

LEMMA PutRefines ==
    ASSUME OneReviewerInv, NEW id \in CapabilityIds, NEW k \in Keys,
           PutCapability(id, k)
    PROVE  OneReviewer' /\ AllCurrent' /\ [Lifecycle!Next]_(Lifecycle!lifecycleVars)
<1> USE DEF OneReviewerInv
<1>1. UNCHANGED <<candidates, handlers>>
  BY DEF PutCapability
<1>2. OneReviewer' /\ AllCurrent'
  BY <1>1 DEF OneReviewer, AllCurrent, IsCurrent, RejectionIsCurrent, ReviewIsCurrent,
              RegistrationIsCurrent, StatusOf, ReviewOf, At
<1>3. /\ KeyAt(id)' = k
      /\ \A i \in CapabilityIds \ {id} : KeyAt(i)' = KeyAt(i) /\ KeyAt(i) # k
  <2> DEFINE new == [capabilities[id] EXCEPT !.key = k]
  <2>1. new \in Capability /\ new.key = k
    BY DEF PutCapability, Exists, RegistryInv, TypeOK, Capability
  <2>2. capabilities' = [capabilities EXCEPT ![id] = new]
    BY DEF PutCapability
  <2> HIDE DEF new
  <2>3. \A i \in CapabilityIds : capabilities'[i] = IF i = id THEN new ELSE capabilities[i]
    BY <2>2 DEF RegistryInv, TypeOK
  <2> QED BY <2>1, <2>3, NoneAssumption DEF KeyAt, PutCapability, KeyTakenByAnother, Exists
<1>4. \A c \in Candidates :
        StatusOf(c)' = StatusOf(c) /\ ReviewOf(c)' = ReviewOf(c) /\ ClaimOf(c)' = ClaimOf(c)
  BY <1>1 DEF StatusOf, ReviewOf, ClaimOf
<1>5. CASE KeyAt(id) = k
  <2>1. UNCHANGED Lifecycle!lifecycleVars
    BY <1>3, <1>4, <1>5 DEF Lifecycle!lifecycleVars
  <2> QED BY <1>2, <2>1
<1>6. CASE KeyAt(id) # k
  <2>1. Lifecycle!Publish(id, k)
    BY <1>3, <1>4, <1>6 DEF Lifecycle!Publish
  <2> QED BY <1>2, <2>1 DEF Lifecycle!Next
<1> QED BY <1>5, <1>6

LEMMA CheckIsInvisible ==
    ASSUME OneReviewerInv, NEW h \in Handlers, CheckSlug(h)
    PROVE  OneReviewer' /\ AllCurrent' /\ UNCHANGED Lifecycle!lifecycleVars
<1> USE DEF OneReviewerInv
<1>1. UNCHANGED <<candidates, capabilities>>
  BY DEF CheckSlug
<1>2. CASE KeyTaken(handlers[h].key)
  BY <1>1, <1>2, EndIsInvisible DEF CheckSlug
<1>3. CASE ~KeyTaken(handlers[h].key)
  <2> DEFINE s == [handlers[h] EXCEPT !.phase = "insert"]
  <2>1. handlers' = [handlers EXCEPT ![h] = s]
    BY <1>3 DEF CheckSlug, Goto
  <2>2. /\ s \in Handler
        /\ s.phase = "insert"
        /\ s.candidate = handlers[h].candidate
        /\ s.record = handlers[h].record
    BY DEF RegistryInv, TypeOK, Handler, Phases
  <2> HIDE DEF s
  <2>3. handlers'[h] = s
    BY <2>1 DEF RegistryInv, TypeOK
  <2>4. IsCurrent(h)'
    <3> SUFFICES ASSUME s.candidate # None
                 PROVE  IsCurrent(h)'
      BY <2>3 DEF IsCurrent
    <3>1. RegistrationIsCurrent(h)
      BY <2>2 DEF AllCurrent, IsCurrent, CheckSlug, At
    <3>2. RegistrationIsCurrent(h)'
      BY <1>1, <2>2, <2>3, <3>1 DEF RegistrationIsCurrent, StatusOf, ReviewOf
    <3> QED BY <2>2, <2>3, <3>2 DEF IsCurrent, At
  <2> QED BY <1>1, <2>1, <2>2, <2>4, HandlerStep
<1> QED BY <1>2, <1>3

LEMMA PostIsInvisible ==
    ASSUME OneReviewerInv, NEW h \in Handlers, NEW k \in Keys, PostCapability(h, k)
    PROVE  OneReviewer' /\ AllCurrent' /\ UNCHANGED Lifecycle!lifecycleVars
<1> DEFINE s == [Idle EXCEPT !.phase = "check", !.key = k]
<1>1. UNCHANGED <<candidates, capabilities>> /\ handlers' = [handlers EXCEPT ![h] = s]
  BY DEF PostCapability, Goto
<1>2. s \in Handler /\ s.candidate = None
  BY DEF Idle, Handler, Phases
<1> HIDE DEF s
<1>3. handlers'[h] = s
  BY <1>1 DEF OneReviewerInv, RegistryInv, TypeOK
<1>4. IsCurrent(h)'
  BY <1>2, <1>3 DEF IsCurrent
<1> QED BY <1>1, <1>2, <1>4, HandlerStep

LEMMA ProceedRefines ==
    ASSUME OneReviewerInv, Proceed
    PROVE  OneReviewer' /\ AllCurrent' /\ [Lifecycle!Next]_(Lifecycle!lifecycleVars)
<1> DEFINE Goal == OneReviewer' /\ AllCurrent' /\ [Lifecycle!Next]_(Lifecycle!lifecycleVars)
<1>1. CASE \E c \in Candidates : \E p \in Payloads[c] : Import(c, p)
  BY <1>1, ImportRefines
<1>2. CASE \E id \in CapabilityIds, k \in Keys : PutCapability(id, k)
  BY <1>2, PutRefines
<1>3. ASSUME NEW h \in Handlers, \E k \in Keys : PostCapability(h, k)
      PROVE  Goal
  BY <1>3, PostIsInvisible
<1>4. ASSUME NEW h \in Handlers, UpdateCandidate(h)
      PROVE  Goal
  BY <1>4, UpdateRefines
<1>5. ASSUME NEW h \in Handlers, CheckSlug(h)
      PROVE  Goal
  BY <1>5, CheckIsInvisible
<1>6. ASSUME NEW h \in Handlers, InsertConflict(h)
      PROVE  Goal
  BY <1>6, EndIsInvisible DEF InsertConflict
<1>7. ASSUME NEW h \in Handlers, \E id \in CapabilityIds : InsertCapability(h, id)
      PROVE  Goal
  BY <1>7, InsertRefines
<1>8. ASSUME NEW h \in Handlers, MarkRegistered(h)
      PROVE  Goal
  BY <1>8, MarkRefines
<1>9. ASSUME NEW h \in Handlers, Fail(h)
      PROVE  Goal
  BY <1>9, EndIsInvisible DEF Fail
<1> QED BY <1>1, <1>2, <1>3, <1>4, <1>5, <1>6, <1>7, <1>8, <1>9 DEF Proceed

LEMMA InitRefines == Init => OneReviewer /\ AllCurrent /\ Lifecycle!Init
<1> SUFFICES ASSUME Init PROVE OneReviewer /\ AllCurrent /\ Lifecycle!Init
  OBVIOUS
<1>1. Idle.candidate = None
  BY DEF Idle
<1>2. OneReviewer /\ AllCurrent
  BY <1>1 DEF Init, OneReviewer, AllCurrent, IsCurrent
<1>3. Lifecycle!Init
  BY DEF Init, Lifecycle!Init, Lifecycle!Blank, NoEdits, StatusOf, ReviewOf, ClaimOf, KeyAt
<1> QED BY <1>2, <1>3

LEMMA StepRefines ==
    ASSUME OneReviewerInv, [NextOneReviewer]_vars
    PROVE  OneReviewer' /\ AllCurrent' /\ [Lifecycle!Next]_(Lifecycle!lifecycleVars)
<1>1. ASSUME NEW h \in Handlers, NEW c \in Candidates, ~Busy(c), BeginDecision(h, c)
      PROVE  OneReviewer' /\ AllCurrent' /\ UNCHANGED Lifecycle!lifecycleVars
  BY <1>1, BeginIsInvisible
<1>2. CASE UNCHANGED vars
  BY <1>2 DEF OneReviewerInv, OneReviewer, AllCurrent, IsCurrent, RejectionIsCurrent,
         ReviewIsCurrent, RegistrationIsCurrent, StatusOf, ReviewOf, ClaimOf, KeyAt, At,
         vars, Lifecycle!lifecycleVars
<1> QED BY <1>1, <1>2, ProceedRefines DEF NextOneReviewer

LEMMA CurrentUnlessOverlapped == SpecWatched => [](~overlapped => OneReviewer /\ AllCurrent)
<1> DEFINE Held == ~overlapped => OneReviewer /\ AllCurrent
<1>1. Init => Held
  BY InitRefines
<1>2. RegistryInv /\ Held /\ [NextWatched]_watchedVars => Held'
  BY UnlessOverlapped, StepRefines
<1> QED BY WatchedIsSpec, RegistryInvariant, <1>1, <1>2, PTL DEF SpecWatched, InitWatched

(* The central result: until decisions on one candidate overlap, the       *)
(* repository-call interleaving of the program implements the atomic       *)
(* lifecycle.  Decisions are never undone, edits never lost, claims never  *)
(* shared, for any number of handlers, candidates and re-imports.          *)
THEOREM LifecycleImplemented == SpecWatched => ImplementsLifecycle
<1> DEFINE Held == ~overlapped => OneReviewer /\ AllCurrent
           Step == ~overlapped' => [Lifecycle!Next]_(Lifecycle!lifecycleVars)
<1>1. Init => Lifecycle!Init
  BY InitRefines
<1>2. RegistryInv /\ Held /\ [NextWatched]_watchedVars => [Step]_watchedVars
  BY UnlessOverlapped, StepRefines
<1> QED BY WatchedIsSpec, RegistryInvariant, CurrentUnlessOverlapped, <1>1, <1>2, PTL
       DEF SpecWatched, InitWatched, ImplementsLifecycle

(* What the lifecycle gives: no step of it leaves a decision.              *)
LEMMA LifecycleIsFinal ==
    ASSUME [Lifecycle!Next]_(Lifecycle!lifecycleVars), NEW c \in Candidates,
           StatusOf(c) \in {"registered", "rejected"}
    PROVE  StatusOf(c)' = StatusOf(c)
<1> DEFINE view == [d \in Candidates |-> StatusOf(d)]
<1>1. view[c] = StatusOf(c) /\ view'[c] = StatusOf(c)' /\ DOMAIN view = Candidates
  OBVIOUS
<1>2. view[c] \notin Lifecycle!PendingStatuses \cup {"absent"}
  BY DEF Lifecycle!PendingStatuses
<1>3. \/ view' = view
      \/ \E d \in Candidates :
            /\ view[d] \in Lifecycle!PendingStatuses \cup {"absent"}
            /\ \E status : view' = [view EXCEPT ![d] = status]
  BY DEF Lifecycle!Next, Lifecycle!Discover, Lifecycle!Amend, Lifecycle!Dismiss, Lifecycle!Promote,
         Lifecycle!Publish, Lifecycle!lifecycleVars
<1> HIDE DEF view
<1>4. view'[c] = view[c]
  BY <1>1, <1>2, <1>3
<1> QED BY <1>1, <1>4

(* Until decisions on one candidate overlap, rejected and registered are   *)
(* terminal, as domain/enums.go:52-53 has them, whatever imports and other *)
(* decisions run beside.                                                   *)
THEOREM DecisionsAreFinal ==
    SpecWatched => [][~overlapped' => \A c \in Candidates :
                        StatusOf(c) \in {"registered", "rejected"}
                        => StatusOf(c)' = StatusOf(c)]_watchedVars
<1>1. (~overlapped' => [Lifecycle!Next]_(Lifecycle!lifecycleVars)) =>
        (~overlapped' => \A c \in Candidates :
            StatusOf(c) \in {"registered", "rejected"} => StatusOf(c)' = StatusOf(c))
  BY LifecycleIsFinal
<1> QED BY LifecycleImplemented, <1>1, PTL DEF ImplementsLifecycle

-----------------------------------------------------------------------------
(* While nothing has failed, a capability made from a candidate is claimed *)
(* by it or about to be.                                                   *)
MadeFrom(id, c) ==
    /\ Exists(id)
    /\ capabilities[id].from # None
    /\ capabilities[id].from.candidate = c

OwnedBy(id, c) ==
    \/ ClaimOf(c) = id
    \/ \E h \in Handlers : At(h, "mark") /\ handlers[h].capability = id

Owned ==
    failures = 0 =>
        \A id \in CapabilityIds, c \in Candidates : MadeFrom(id, c) => OwnedBy(id, c)

OwnedInv == OneReviewerInv /\ Owned

LEMMA OwnedIsEnough == OwnedInv => OrphansNeedAFailure
<1> SUFFICES ASSUME OwnedInv, failures = 0, NEW id \in CapabilityIds,
                    Exists(id), capabilities[id].from # None
             PROVE  LET c == capabilities[id].from.candidate
                    IN  \/ candidates[c].capability = id
                        \/ \E h \in Handlers : At(h, "mark") /\ handlers[h].capability = id
  BY DEF OrphansNeedAFailure
<1>1. PICK c \in Candidates : c = capabilities[id].from.candidate
  BY DEF OwnedInv, OneReviewerInv, RegistryInv, TypeOK, Exists, Capability, Origin
<1> QED BY <1>1, NoneAssumption DEF OwnedInv, Owned, MadeFrom, OwnedBy, ClaimOf

(* Only a decision that is under way stores a record, and its candidate    *)
(* has no claim yet.                                                       *)
LEMMA UnclaimedWhileDecided ==
    ASSUME OneReviewerInv, NEW h \in Handlers, At(h, "write") \/ At(h, "mark")
    PROVE  ClaimOf(handlers[h].candidate) = None
<1> USE DEF OneReviewerInv
<1>1. handlers[h].candidate \in Candidates /\ handlers[h].candidate # None
  BY NoneAssumption DEF RegistryInv, TypeOK
<1>2. StatusOf(handlers[h].candidate) \in Pending \cup {"rejected"}
  BY <1>1 DEF AllCurrent, IsCurrent, RejectionIsCurrent, ReviewIsCurrent,
              RegistrationIsCurrent, At
<1>3. StatusOf(handlers[h].candidate) # "registered"
  BY <1>2 DEF Pending
<1> QED BY <1>1, <1>3 DEF StatusOf, ClaimOf, RegistryInv, ClaimIsFaithful

(* A step that takes no claim away, no handler from its mark and publishes *)
(* nothing keeps every capability owned.                                   *)
LEMMA StaysOwned ==
    ASSUME OwnedInv, failures' = failures,
           \A c \in Candidates : ClaimOf(c) # None => ClaimOf(c)' = ClaimOf(c),
           \A h \in Handlers : At(h, "mark") => handlers'[h] = handlers[h],
           \A id \in CapabilityIds :
             Exists(id)' => Exists(id) /\ capabilities'[id].from = capabilities[id].from
    PROVE  Owned'
<1> SUFFICES ASSUME failures = 0, NEW id \in CapabilityIds, NEW c \in Candidates,
                    MadeFrom(id, c)'
             PROVE  OwnedBy(id, c)'
  BY DEF Owned
<1>1. OwnedBy(id, c)
  BY DEF OwnedInv, Owned, MadeFrom, Exists
<1>2. CASE ClaimOf(c) = id
  <2>1. ClaimOf(c)' = id
    BY <1>2, NoneAssumption
  <2> QED BY <2>1 DEF OwnedBy
<1>3. CASE \E h \in Handlers : At(h, "mark") /\ handlers[h].capability = id
  BY <1>3 DEF OwnedBy, At
<1> QED BY <1>1, <1>2, <1>3 DEF OwnedBy

(* A handler that is not at its mark and only changes its own state.       *)
LEMMA OwnedWhileHandlerMoves ==
    ASSUME OwnedInv, NEW h \in Handlers, NEW s, ~At(h, "mark"),
           handlers' = [handlers EXCEPT ![h] = s],
           UNCHANGED <<candidates, capabilities, failures>>
    PROVE  Owned'
<1>1. \A g \in Handlers : At(g, "mark") => handlers'[g] = handlers[g]
  BY DEF OwnedInv, OneReviewerInv, RegistryInv, TypeOK
<1>2. \A c \in Candidates : ClaimOf(c)' = ClaimOf(c)
  BY DEF ClaimOf
<1> QED BY <1>1, <1>2, StaysOwned DEF Exists

LEMMA OwnedAfterImport ==
    ASSUME OwnedInv, NEW c \in Candidates, NEW p \in Payloads[c], Import(c, p)
    PROVE  Owned'
<1> USE DEF OwnedInv, OneReviewerInv, RegistryInv
<1>1. UNCHANGED <<capabilities, handlers, failures>>
  BY DEF Import
<1>2. p \in Payload
  BY ConstantsAssumption
<1>3. \A d \in Candidates : ClaimOf(d)' = ClaimOf(d)
  <2>1. CASE candidates[c] = None \/ candidates[c].status \in Pending
    <3> DEFINE r == Upsert(c, p)[c]
    <3>1. r \in Record /\ r.capability = ClaimOf(c)
      BY <1>2, <2>1, UpsertRecord
    <3>2. candidates' = [candidates EXCEPT ![c] = r]
      BY <2>1 DEF Import, Upsert, TypeOK
    <3> HIDE DEF r
    <3> QED BY <3>1, <3>2, StoredShows
  <2>2. CASE ~(candidates[c] = None \/ candidates[c].status \in Pending)
    BY <2>2 DEF Import, Upsert, ClaimOf
  <2> QED BY <2>1, <2>2
<1> QED BY <1>1, <1>3, StaysOwned DEF Exists

LEMMA OwnedAfterUpdate ==
    ASSUME OwnedInv, NEW h \in Handlers, UpdateCandidate(h)
    PROVE  Owned'
<1> USE DEF OwnedInv
<1> PICK c \in Candidates, r \in Record :
      c = handlers[h].candidate /\ r = handlers[h].record
  BY DEF UpdateCandidate, OneReviewerInv, RegistryInv, TypeOK
<1>1. ClaimOf(c) = None
  BY UnclaimedWhileDecided DEF UpdateCandidate
<1>2. /\ candidates' = [candidates EXCEPT ![c] = r]
      /\ handlers' = [handlers EXCEPT ![h] = Idle]
      /\ UNCHANGED <<capabilities, failures>>
  BY DEF UpdateCandidate, RecordToWrite, Finish, Goto
<1>3. \A d \in Candidates : ClaimOf(d) # None => ClaimOf(d)' = ClaimOf(d)
  BY <1>1, <1>2, StoredShows DEF OneReviewerInv, RegistryInv
<1>4. \A g \in Handlers : At(g, "mark") => handlers'[g] = handlers[g]
  BY <1>2 DEF UpdateCandidate, At, OneReviewerInv, RegistryInv, TypeOK
<1> QED BY <1>2, <1>3, <1>4, StaysOwned DEF Exists

(* The handler that inserts is at its mark with the capability at once.    *)
LEMMA OwnedAfterInsert ==
    ASSUME OwnedInv, NEW h \in Handlers, NEW id \in CapabilityIds,
           InsertCapability(h, id)
    PROVE  Owned'
<1> USE DEF OwnedInv, OneReviewerInv, RegistryInv
<1> DEFINE new == [key |-> handlers[h].key, from |-> OriginOf(handlers[h])]
<1>1. /\ \A i \in CapabilityIds : capabilities'[i] = IF i = id THEN new ELSE capabilities[i]
      /\ \A g \in Handlers \ {h} : handlers'[g] = handlers[g]
      /\ UNCHANGED <<candidates, failures>>
      /\ At(h, "insert")
  BY DEF InsertCapability, Finish, Goto, TypeOK
<1>2. SUFFICES ASSUME failures = 0, NEW i \in CapabilityIds, NEW c \in Candidates,
                      MadeFrom(i, c)'
               PROVE  OwnedBy(i, c)'
  BY <1>1 DEF Owned
<1>3. CASE i = id
  <2>1. handlers[h].candidate # None
    BY <1>1, <1>2, <1>3 DEF OriginOf, MadeFrom
  <2>2. handlers'[h] = [handlers[h] EXCEPT !.phase = "mark", !.capability = id]
    BY <2>1 DEF InsertCapability, Goto, TypeOK
  <2>3. At(h, "mark")' /\ handlers'[h].capability = id
    BY <2>2 DEF At, TypeOK, Handler
  <2> QED BY <1>3, <2>3 DEF OwnedBy
<1>4. CASE i # id
  <2>1. OwnedBy(i, c)
    BY <1>1, <1>2, <1>4 DEF Owned, MadeFrom, Exists
  <2>2. \A g \in Handlers : At(g, "mark") => g # h /\ handlers'[g] = handlers[g]
    BY <1>1 DEF At
  <2> QED BY <1>1, <2>1, <2>2 DEF OwnedBy, ClaimOf, At
<1> QED BY <1>3, <1>4

(* The claim is taken as the handler leaves its mark.                      *)
LEMMA OwnedAfterMark ==
    ASSUME OwnedInv, NEW h \in Handlers, MarkRegistered(h)
    PROVE  Owned'
<1> USE DEF OwnedInv
<1> PICK c \in Candidates, id \in CapabilityIds, r \in Record :
      c = handlers[h].candidate /\ id = handlers[h].capability /\ r = handlers[h].record
  BY DEF MarkRegistered, OneReviewerInv, RegistryInv, TypeOK
<1> DEFINE new == Registered(r, id)
<1>1. new \in Record /\ new.capability = id
  BY DEF Registered, Record, Statuses
<1>2. /\ candidates' = [candidates EXCEPT ![c] = new]
      /\ handlers' = [handlers EXCEPT ![h] = Idle]
      /\ UNCHANGED <<capabilities, failures>>
  BY DEF MarkRegistered, RecordToMark, Finish, Goto
<1> HIDE DEF new
<1>3. ClaimOf(c) = None
  <2>1. ClaimOf(handlers[h].candidate) = None
    BY UnclaimedWhileDecided DEF MarkRegistered
  <2> QED BY <2>1
<1>4. /\ ClaimOf(c)' = id
      /\ \A d \in Candidates : ClaimOf(d) # None => ClaimOf(d)' = ClaimOf(d)
  BY <1>1, <1>2, <1>3, StoredShows DEF OneReviewerInv, RegistryInv
<1>5. \A d \in Candidates : MadeFrom(id, d) => d = c
  <2>1. HoldsFreshCapability(h) /\ At(h, "mark")
    BY DEF MarkRegistered, OneReviewerInv, RegistryInv, HandlersInv
  <2>2. capabilities[id].from = [candidate |-> c, name |-> Resolved(r).name]
    BY <2>1 DEF HoldsFreshCapability
  <2> QED BY <2>2 DEF MadeFrom
<1>6. SUFFICES ASSUME failures = 0, NEW i \in CapabilityIds, NEW d \in Candidates,
                      MadeFrom(i, d)
               PROVE  OwnedBy(i, d)'
  BY <1>2 DEF Owned, MadeFrom, Exists
<1>7. CASE i = id
  BY <1>4, <1>5, <1>6, <1>7 DEF OwnedBy
<1>8. CASE i # id
  <2>1. OwnedBy(i, d)
    BY <1>6 DEF Owned
  <2>2. CASE ClaimOf(d) = i
    <3>1. ClaimOf(d)' = i
      BY <1>4, <2>2, NoneAssumption
    <3> QED BY <3>1 DEF OwnedBy
  <2>3. CASE \E g \in Handlers : At(g, "mark") /\ handlers[g].capability = i
    <3>1. PICK g \in Handlers : At(g, "mark") /\ handlers[g].capability = i
      BY <2>3
    <3>2. handlers'[g] = handlers[g]
      BY <1>2, <1>8, <3>1 DEF OneReviewerInv, RegistryInv, TypeOK
    <3> QED BY <3>1, <3>2 DEF OwnedBy, At
  <2> QED BY <2>1, <2>2, <2>3 DEF OwnedBy
<1> QED BY <1>7, <1>8

LEMMA OwnedAfterPut ==
    ASSUME OwnedInv, NEW id \in CapabilityIds, NEW k \in Keys, PutCapability(id, k)
    PROVE  Owned'
<1>1. UNCHANGED <<candidates, handlers, failures>>
  BY DEF PutCapability
<1>2. \A i \in CapabilityIds :
        Exists(i)' => Exists(i) /\ capabilities'[i].from = capabilities[i].from
  BY DEF PutCapability, Exists, OwnedInv, OneReviewerInv, RegistryInv, TypeOK, Capability
<1>3. \A c \in Candidates : ClaimOf(c)' = ClaimOf(c)
  BY <1>1 DEF ClaimOf
<1> QED BY <1>1, <1>2, <1>3, StaysOwned

LEMMA OwnedStep ==
    ASSUME OwnedInv, [NextOneReviewer]_vars
    PROVE  Owned'
<1>1. CASE UNCHANGED vars
  BY <1>1 DEF vars, OwnedInv, Owned, MadeFrom, OwnedBy, Exists, ClaimOf, At
<1>2. ASSUME NEW h \in Handlers, NEW c \in Candidates, BeginDecision(h, c)
      PROVE  Owned'
  <2>1. PICK s : handlers' = [handlers EXCEPT ![h] = s]
    BY <1>2 DEF BeginDecision, ReviewRead, RejectRead, RegisterRead, Goto
  <2>2. ~At(h, "mark") /\ UNCHANGED <<candidates, capabilities, failures>>
    BY <1>2 DEF BeginDecision, ReviewRead, RejectRead, RegisterRead, At
  <2> QED BY <2>1, <2>2, OwnedWhileHandlerMoves
<1>3. ASSUME NEW h \in Handlers,
             (\E k \in Keys : PostCapability(h, k)) \/ CheckSlug(h) \/ InsertConflict(h)
      PROVE  Owned'
  <2>1. PICK s : handlers' = [handlers EXCEPT ![h] = s]
    BY <1>3 DEF PostCapability, CheckSlug, InsertConflict, Finish, Goto
  <2>2. ~At(h, "mark") /\ UNCHANGED <<candidates, capabilities, failures>>
    BY <1>3 DEF PostCapability, CheckSlug, InsertConflict, At
  <2> QED BY <2>1, <2>2, OwnedWhileHandlerMoves
<1>4. ASSUME NEW h \in Handlers, Fail(h)
      PROVE  Owned'
  BY <1>4 DEF Fail, Owned, OwnedInv, OneReviewerInv, RegistryInv, TypeOK
<1>5. CASE \E c \in Candidates : \E p \in Payloads[c] : Import(c, p)
  BY <1>5, OwnedAfterImport
<1>6. CASE \E id \in CapabilityIds, k \in Keys : PutCapability(id, k)
  BY <1>6, OwnedAfterPut
<1>7. ASSUME NEW h \in Handlers, UpdateCandidate(h)
      PROVE  Owned'
  BY <1>7, OwnedAfterUpdate
<1>8. ASSUME NEW h \in Handlers, NEW id \in CapabilityIds, InsertCapability(h, id)
      PROVE  Owned'
  BY <1>8, OwnedAfterInsert
<1>9. ASSUME NEW h \in Handlers, MarkRegistered(h)
      PROVE  Owned'
  BY <1>9, OwnedAfterMark
<1> QED BY <1>1, <1>2, <1>3, <1>4, <1>5, <1>6, <1>7, <1>8, <1>9 DEF NextOneReviewer, Proceed

LEMMA OwnedInit == Init => Owned
BY DEF Init, Owned, MadeFrom, Exists

(* Until decisions on one candidate overlap, a capability made from a      *)
(* candidate is left unclaimed only by a request that died between Create  *)
(* and MarkRegistered (source_ingestion.go:201-207): no race with imports, *)
(* posts, slug changes or other registrations leaves such an orphan.       *)
THEOREM OnlyFailuresOrphan == SpecWatched => []OrphansNeedAFailure
<1> DEFINE Held == ~overlapped => OneReviewer /\ AllCurrent
           OwnedSoFar == ~overlapped => Owned
<1>1. Init => OwnedSoFar
  BY OwnedInit
<1>2. RegistryInv /\ Held /\ OwnedSoFar /\ [NextWatched]_watchedVars => OwnedSoFar'
  BY UnlessOverlapped, OwnedStep DEF OwnedInv
<1>3. RegistryInv /\ Held /\ OwnedSoFar => OrphansNeedAFailure
  BY OwnedIsEnough DEF OwnedInv, OneReviewerInv, OrphansNeedAFailure
<1> QED BY WatchedIsSpec, RegistryInvariant, CurrentUnlessOverlapped, <1>1, <1>2, <1>3, PTL
       DEF SpecWatched, InitWatched

=============================================================================
