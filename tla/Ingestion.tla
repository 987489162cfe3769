------------------------------ MODULE Ingestion ------------------------------
(***************************************************************************)
(* Imports: runImport finds or creates the source an upload belongs to and *)
(* upserts the candidates of the upload one after the other                *)
(* (internal/engine/source_ingestion.go, internal/store/source_repo.go,    *)
(* internal/store/candidate_repo.go).  One action is one repository call;  *)
(* imports interleave between the calls and may end at any of them.        *)
(***************************************************************************)
EXTENDS Naturals, Sequences, FiniteSets

CONSTANTS
    SourceIds,     \* ids of sources
    Names,         \* names of sources
    SourceTypes,   \* dify, mcp, data, manual
    Uploads,       \* documents that clients send
    TypeOf,        \* TypeOf[u]: the type of source that u is imported for
    CandidatesOf,  \* CandidatesOf[u]: what the adapter makes of u, in order
    Handlers,      \* requests that may be under way at once
    MaxDecided,    \* bound on the candidates that are decided
    MaxFailures,   \* bound on the requests that fail
    None           \* no source, no candidate, no upload

(* A candidate has an external id, a type and references [id, type].       *)
Candidates == UNION {{CandidatesOf[u][k] : k \in DOMAIN CandidatesOf[u]} : u \in Uploads}
ExternalIds == {c.id : c \in Candidates}
Source == [name : Names, type : SourceTypes]

ASSUME IngestionAssumption ==
    /\ TypeOf \in [Uploads -> SourceTypes]
    /\ \A u \in Uploads : CandidatesOf[u] \in Seq(Candidates)
    /\ MaxDecided \in Nat /\ MaxFailures \in Nat
    /\ None \notin SourceIds /\ None \notin Names /\ None \notin Uploads
    /\ None \notin Candidates /\ None \notin Source

VARIABLES
    sources,     \* table external_sources
    candidates,  \* table capability_candidates by (source, external id)
    decided,     \* the keys of candidates that are registered or rejected
    phase,       \* the call request h is about to make
    upload,      \* the document it imports
    named,       \* the name of the source it looks for
    source,      \* the source it imports into
    next,        \* the candidate it upserts next
    failures

handlerVars == <<phase, upload, named, source, next>>

(* History, for the properties only: the imports that were answered; the   *)
(* imports refused because of a conflict; the last answered upload of each *)
(* source; the sources with imports that overlapped or ended half way.     *)
VARIABLES answered, refused, latest, disturbed

historyVars == <<answered, refused, latest, disturbed>>
vars == <<sources, candidates, decided, handlerVars, failures, historyVars>>

Init ==
    /\ sources = [s \in SourceIds |-> None]
    /\ candidates = [s \in SourceIds |-> [id \in ExternalIds |-> None]]
    /\ decided = {}
    /\ phase = [h \in Handlers |-> "idle"]
    /\ upload = [h \in Handlers |-> None]
    /\ named = [h \in Handlers |-> None]
    /\ source = [h \in Handlers |-> None]
    /\ next = [h \in Handlers |-> 0]
    /\ failures = 0
    /\ answered = {}
    /\ refused = 0
    /\ latest = [s \in SourceIds |-> None]
    /\ disturbed = {}

Existing(name, type) == {s \in SourceIds : sources[s] = [name |-> name, type |-> type]}

NoIndex(name, type) == FALSE  \* mutant

(* The unique index on (name, type).                                       *)
IndexRefuses(name, type) == Existing(name, type) # {}

Importing(s) == {h \in Handlers : phase[h] = "upsert" /\ source[h] = s}

-----------------------------------------------------------------------------
Finish(h) ==
    /\ phase' = [phase EXCEPT ![h] = "idle"]
    /\ upload' = [upload EXCEPT ![h] = None]
    /\ named' = [named EXCEPT ![h] = None]
    /\ source' = [source EXCEPT ![h] = None]
    /\ next' = [next EXCEPT ![h] = 0]

MoreButTheLast(u, k) == k < Len(CandidatesOf[u])  \* mutant

More(u, k) == k <= Len(CandidatesOf[u])

(* Candidate k of upload u is next, or the import is done.                 *)
Continue(h, u, name, s, k) ==
    \/ /\ More(u, k)
       /\ phase' = [phase EXCEPT ![h] = "upsert"]
       /\ upload' = [upload EXCEPT ![h] = u]
       /\ named' = [named EXCEPT ![h] = name]
       /\ source' = [source EXCEPT ![h] = s]
       /\ next' = [next EXCEPT ![h] = k]
       /\ disturbed' = IF k = 1 /\ Importing(s) # {} THEN disturbed \cup {s} ELSE disturbed
       /\ UNCHANGED <<answered, latest>>
    \/ /\ ~More(u, k)
       /\ Finish(h)
       /\ answered' = answered \cup {[name |-> name, upload |-> u, source |-> s]}
       /\ latest' = [latest EXCEPT ![s] = IF k = 1 THEN @ ELSE u]
       /\ UNCHANGED disturbed

(* resolveSource without a source id: the SELECT of EnsureByName.          *)
EnsureByName(h, u, name) ==
    /\ phase[h] = "idle"
    /\ \/ \E s \in Existing(name, TypeOf[u]) : Continue(h, u, name, s, 1)
       \/ /\ Existing(name, TypeOf[u]) = {}
          /\ phase' = [phase EXCEPT ![h] = "create"]
          /\ upload' = [upload EXCEPT ![h] = u]
          /\ named' = [named EXCEPT ![h] = name]
          /\ UNCHANGED <<source, next, answered, latest, disturbed>>
    /\ UNCHANGED <<sources, candidates, decided, failures, refused>>

(* With a source id: an unknown one, or one of another type, is an error.  *)
GetSource(h, u, s) ==
    /\ phase[h] = "idle"
    /\ sources[s] # None
    /\ sources[s].type = TypeOf[u]
    /\ Continue(h, u, sources[s].name, s, 1)
    /\ UNCHANGED <<sources, candidates, decided, failures, refused>>

(* The INSERT of EnsureByName.                                             *)
CreateSource(h) ==
    /\ phase[h] = "create"
    /\ LET name == named[h]
           type == TypeOf[upload[h]]
       IN  \/ /\ IndexRefuses(name, type)
              /\ Finish(h)
              /\ refused' = 1
              /\ UNCHANGED <<sources, answered, latest, disturbed>>
           \/ /\ ~IndexRefuses(name, type)
              /\ \E s \in SourceIds :
                    /\ sources[s] = None
                    /\ sources' = [sources EXCEPT ![s] = [name |-> name, type |-> type]]
                    /\ Continue(h, upload[h], name, s, 1)
              /\ UNCHANGED refused
    /\ UNCHANGED <<candidates, decided, failures>>

InsertOnly(row, c) == IF row = None THEN c ELSE row  \* mutant
TypeOnly(row, c) == IF row = None THEN c ELSE [row EXCEPT !.type = c.type]  \* mutant

Refreshed(row, c) == c

(* The rows after an upsert of c: a decided candidate stays as it is.      *)
Stored(s, c) ==
    IF <<s, c.id>> \in decided THEN candidates
    ELSE [candidates EXCEPT ![s][c.id] = Refreshed(@, c)]

(* The Upsert of the loop.                                                 *)
Upsert(h) ==
    /\ phase[h] = "upsert"
    /\ candidates' = Stored(source[h], CandidatesOf[upload[h]][next[h]])
    /\ Continue(h, upload[h], named[h], source[h], next[h] + 1)
    /\ UNCHANGED <<sources, decided, failures, refused>>

(* POST /sources.                                                          *)
Create(s, name, type) ==
    /\ sources[s] = None
    /\ ~IndexRefuses(name, type)
    /\ sources' = [sources EXCEPT ![s] = [name |-> name, type |-> type]]
    /\ UNCHANGED <<candidates, decided, handlerVars, failures, historyVars>>

(* A reviewer registers or rejects a candidate: CandidateRegistry.         *)
Decide(s, id) ==
    /\ candidates[s][id] # None
    /\ <<s, id>> \notin decided
    /\ Cardinality(decided) < MaxDecided
    /\ decided' = decided \cup {<<s, id>>}
    /\ UNCHANGED <<sources, candidates, handlerVars, failures, historyVars>>

(* A call fails, the client goes away or the server dies; the last upsert  *)
(* may have committed.                                                     *)
Fail(h) ==
    /\ phase[h] # "idle"
    /\ failures < MaxFailures
    /\ failures' = failures + 1
    /\ disturbed' = IF phase[h] = "upsert" THEN disturbed \cup {source[h]} ELSE disturbed
    /\ \/ UNCHANGED candidates
       \/ /\ phase[h] = "upsert"
          /\ candidates' = Stored(source[h], CandidatesOf[upload[h]][next[h]])
    /\ Finish(h)
    /\ UNCHANGED <<sources, decided, answered, refused, latest>>

Next ==
    \/ \E h \in Handlers :
         \/ \E u \in Uploads :
              \/ \E name \in Names : EnsureByName(h, u, name)
              \/ \E s \in SourceIds : GetSource(h, u, s)
         \/ CreateSource(h)
         \/ Upsert(h)
         \/ Fail(h)
    \/ \E s \in SourceIds :
         \/ \E name \in Names, type \in SourceTypes : Create(s, name, type)
         \/ \E id \in ExternalIds : Decide(s, id)

Spec == Init /\ [][Next]_vars

-----------------------------------------------------------------------------
TypeOK ==
    /\ sources \in [SourceIds -> Source \cup {None}]
    /\ candidates \in [SourceIds -> [ExternalIds -> Candidates \cup {None}]]
    /\ \A s \in SourceIds, id \in ExternalIds :
         candidates[s][id] # None => candidates[s][id].id = id
    /\ decided \subseteq SourceIds \X ExternalIds
    /\ phase \in [Handlers -> {"idle", "create", "upsert"}]
    /\ upload \in [Handlers -> Uploads \cup {None}]
    /\ named \in [Handlers -> Names \cup {None}]
    /\ source \in [Handlers -> SourceIds \cup {None}]
    /\ next \in [Handlers -> Nat]
    /\ failures \in Nat
    /\ answered \subseteq [name : Names, upload : Uploads, source : SourceIds]
    /\ refused \in {0, 1}
    /\ latest \in [SourceIds -> Uploads \cup {None}]
    /\ disturbed \subseteq SourceIds

(* The key of a candidate has no type: two documents, or two assets of one *)
(* document, may claim an id for different types, and the last one has it  *)
(* (store/candidate_repo.go:46).                                           *)
Ambiguous ==
    {id \in ExternalIds : \E c, d \in Candidates : c.id = id /\ d.id = id /\ c.type # d.type}

Unambiguous(id) == id \notin Ambiguous

(* An upload names what a candidate refers to before the candidate.        *)
TargetsFirst ==
    \A u \in Uploads : TypeOf[u] # "manual" =>
        \A k \in DOMAIN CandidatesOf[u] : \A ref \in CandidatesOf[u][k].refs :
            \E j \in 1..(k - 1) :
                CandidatesOf[u][j].id = ref.id /\ CandidatesOf[u][j].type = ref.type

(* Whoever creates it, all imports for one name and type end up in one     *)
(* source, also those that find none and race to insert it                 *)
(* (store/source_repo.go:59-69).                                           *)
ImportsShareASource ==
    \A a, b \in answered :
        a.name = b.name /\ TypeOf[a.upload] = TypeOf[b.upload] => a.source = b.source

(* At any time, so also where an import ended half way or several ran into *)
(* each other, what a stored candidate depends on is stored in the same    *)
(* source ("Tools, knowledge and prompts first: the agent, workflow and    *)
(* skill candidates all declare dependencies on them",                     *)
(* adapters/dify/mapper.go:49).  Hand-written documents may name anything. *)
ReferencesFollowTargets ==
    \A s \in SourceIds, id \in ExternalIds :
        sources[s] # None /\ sources[s].type # "manual" /\ candidates[s][id] # None =>
            \A ref \in candidates[s][id].refs :
                Unambiguous(ref.id) =>
                    /\ ref.id \in ExternalIds
                    /\ candidates[s][ref.id] # None
                    /\ candidates[s][ref.id].type = ref.type

(* However imports overlap, all an answered import found is there for good *)
(* (engine/source_ingestion.go:107-118).                                   *)
AnsweredIsStored ==
    \A a \in answered : \A k \in DOMAIN CandidatesOf[a.upload] :
        LET c == CandidatesOf[a.upload][k]
        IN  /\ candidates[a.source][c.id] # None
            /\ Unambiguous(c.id) => candidates[a.source][c.id].type = c.type

(* Source s shows the first n candidates of u; the last of an id counts.   *)
Shows(s, u, n) ==
    \A k \in 1..n :
        LET c == CandidatesOf[u][k]
        IN  \/ \E j \in (k + 1)..n : CandidatesOf[u][j].id = c.id
            \/ <<s, c.id>> \in decided
            \/ candidates[s][c.id] = c

(* A source whose imports never overlapped nor ended half way shows its    *)
(* last import, but for what was decided ("Re-importing a DSL refreshes    *)
(* the extracted and inferred fields ...", store/candidate_repo.go:18).    *)
LastImportShows ==
    \A s \in SourceIds \ disturbed :
        latest[s] # None /\ Importing(s) = {} =>
            Shows(s, latest[s], Len(CandidatesOf[latest[s]]))

(* "EnsureByName returns the existing source with this name and type,      *)
(* creating it if absent" (store/store.go:79).                             *)
EnsureAnswers == refused = 0
=============================================================================
