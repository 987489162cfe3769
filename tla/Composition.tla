----------------------------- MODULE Composition -----------------------------
(***************************************************************************)
(* From a business goal to a draft: RecommendComposition and its           *)
(* dependency closure (internal/engine/recommendation.go), a plan held by  *)
(* the client, ValidateComposition (validation.go) and GenerateDraft       *)
(* (draft_generator.go).                                                   *)
(*                                                                         *)
(* One action is one repository call with the local computation after it.  *)
(* These requests only read the registry, so one client is enough; what    *)
(* all others do to the registry between two of its calls are the actions  *)
(* under "The registry moves on".  The order in which a loop visits its    *)
(* elements decides nothing here and is left open.                         *)
(***************************************************************************)
EXTENDS Matching

CONSTANTS
    Executable,        \* the agents, workflows and skills among the capabilities
    Goals,             \* the templates of the catalog a goal may trigger
    Replies,           \* what a model may answer to a goal
    MaxLimit,          \* the page that List returns at most
    Permissions,       \* governance terms: permissions, approvals, risk levels;
                       \* a risk is the set of the levels up to it
    Grants,            \* Grants[c]: sets of terms c may be put to carry
    DependencyTypes,   \* uses_tool, uses_knowledge, contains_step, ...
    ProvisionedTypes,  \* those that must be provisioned at composition
    Declared,          \* Declared[c]: the dependencies c may be linked by
    Registries,        \* states the registry may be in at first
    MaxChanges,        \* bound on the changes to the registry
    MaxFailures,       \* bound on the calls that fail
    MaxDrafts,         \* bound on the drafts
    None               \* no capability

Dependency == [target : Capabilities, type : DependencyTypes]

RegistryStatuses == {"absent", "active", "deprecated", "lost"}

Registry == [status  : [Capabilities -> RegistryStatuses],
             permits : [Capabilities -> SUBSET Permissions],
             edges   : [Capabilities -> SUBSET Dependency]]

ASSUME CompositionAssumption ==
    /\ Executable \subseteq Capabilities
    /\ Goals \subseteq SUBSET Catalog
    /\ Replies \subseteq SUBSET (Roles \cup Nonsense)
    /\ MaxLimit \in Nat
    /\ Grants \in [Capabilities -> SUBSET SUBSET Permissions]
    /\ ProvisionedTypes \subseteq DependencyTypes
    /\ Declared \in [Capabilities -> SUBSET Dependency]
    /\ Registries \subseteq Registry
    /\ MaxChanges \in Nat
    /\ MaxFailures \in Nat
    /\ MaxDrafts \in Nat
    /\ None \notin Capabilities

ErrorCodes == {"empty_composition", "capability_missing", "capability_deprecated",
               "dependency_not_composed", "no_workflow_steps", "nothing_executable"}

Plan == [steps      : SUBSET Roles,          \* WorkflowSteps
         missing    : SUBSET Roles,          \* MissingCapabilities
         refs       : SUBSET Capabilities,   \* the Recommended... sections
         unresolved : SUBSET Capabilities,   \* warned about: dependency_unresolved
         governance : SUBSET Permissions]

Draft == [status     : {"draft", "needs_review"},
          refs       : SUBSET Capabilities,
          governance : SUBSET Permissions]

VARIABLES
    status,     \* the registry: table capabilities, by id,
    permits,    \* what each capability carries for governance,
    edges,      \* and the rows of capability_dependencies
    phase,      \* what the client's session is at
    plan,       \* the plan under construction, then in the client's hands
    matched,    \* the capabilities that matched a role
    seen,       \* seen[c]: what the recommendation read of c's governance
    queue,      \* capabilities whose edges the walk has still to list
    current,    \* the capability whose edges it is following
    todo,       \* those of its edges that are left
    unchecked,  \* references the validation has still to look up
    unlisted,   \* capabilities whose edges it has still to list
    present,    \* those it has found
    errors,     \* its findings
    drafts,     \* table business_agent_drafts
    changes, failures

registryVars   == <<status, permits, edges, changes>>
walkVars       == <<matched, seen, queue, current, todo>>
validationVars == <<unchecked, unlisted, present, errors>>

(* History, for the properties only: since the session's last request      *)
(* began, the edges that were there all the time and those that were there *)
(* at some time, and the capabilities that were active at some time; those *)
(* that were active when the recommendation matched; what has had its      *)
(* governance changed since then; what the session did last; whether       *)
(* nothing happened since the recommendation.                              *)
VARIABLES always, ever, active, offered, touched, last, quiet

watchVars   == <<always, ever, active>>
sessionVars == <<phase, plan, walkVars, validationVars, drafts, last>>
vars == <<registryVars, phase, plan, walkVars, validationVars, drafts, failures,
          watchVars, offered, touched, last, quiet>>

-----------------------------------------------------------------------------
Registered(c) == status[c] \in {"active", "deprecated"}

EvenDeprecated == {c \in Capabilities : Registered(c)}  \* mutant

ActiveNow == {c \in Capabilities : status[c] = "active"}

(* List: a page of the active capabilities.  The oldest ones come first;   *)
(* which those are is left open.                                           *)
Pages ==
    IF Cardinality(ActiveNow) <= MaxLimit
    THEN {ActiveNow}
    ELSE {page \in SUBSET ActiveNow : Cardinality(page) = MaxLimit}

Matches(r, page) ==
    LET best == BestMatches(r, page) IN IF best = {} THEN {None} ELSE best

EveryDependency(dep) == TRUE  \* mutant

ProvisionedAtComposition(dep) == dep.type \in ProvisionedTypes

(* deriveGovernance: the union of what the selected capabilities carried   *)
(* when they were read.                                                    *)
MatchedOnly(refs, read) == UNION {read[c] : c \in refs \cap matched}  \* mutant

DeriveGovernance(refs, read) == UNION {read[c] : c \in refs}

ReadyAtOnce(p) == "ready_for_eval"  \* mutant

(* A plan with an error among its warnings is to be reviewed as well; the  *)
(* only one, duplicate_slug, needs slugs that move, which are left out.    *)
DraftStatusFor(p) == IF p.missing # {} THEN "needs_review" ELSE "draft"

NothingRead == [c \in Capabilities |-> {}]

NoPlan == [steps |-> {}, missing |-> {}, refs |-> {}, unresolved |-> {},
           governance |-> {}]

Init ==
    /\ \E registry \in Registries :
         status = registry.status /\ permits = registry.permits /\ edges = registry.edges
    /\ phase = "idle"
    /\ plan = NoPlan
    /\ matched = {} /\ queue = {} /\ todo = {} /\ current = None
    /\ seen = NothingRead
    /\ unchecked = {} /\ unlisted = {} /\ present = {} /\ errors = {}
    /\ drafts = {}
    /\ changes = 0 /\ failures = 0
    /\ always = edges /\ ever = edges /\ active = ActiveNow
    /\ offered = {} /\ touched = {} /\ last = "none" /\ quiet = TRUE

(* A request starts watching the registry.                                 *)
Watch ==
    /\ always' = edges
    /\ ever' = edges
    /\ active' = ActiveNow

-----------------------------------------------------------------------------
(* RecommendComposition.                                                   *)

(* After every call of the walk: on with the loop, or the plan is complete,*)
(* its governance is derived from what was read and the locals are gone.   *)
Continue(c, refs, read, unresolved, waiting, deps) ==
    LET complete == waiting = {} /\ deps = {}
    IN  /\ queue' = waiting
        /\ todo' = deps
        /\ current' = IF complete THEN None ELSE c
        /\ seen' = IF complete THEN NothingRead ELSE read
        /\ phase' = IF complete THEN "held" ELSE "walk"
        /\ plan' = [plan EXCEPT
                      !.refs = refs, !.unresolved = unresolved,
                      !.governance = IF complete THEN DeriveGovernance(refs, read) ELSE {}]

(* The roles that found a match, and the first round of the walk.          *)
Selected(roles, match) ==
    LET served == {r \in roles : match[r] # None}
        chosen == {match[r] : r \in served}
        read   == [c \in Capabilities |-> IF c \in chosen THEN permits[c] ELSE {}]
    IN  /\ matched' = chosen
        /\ queue' = chosen
        /\ todo' = {}
        /\ seen' = IF chosen = {} THEN NothingRead ELSE read
        /\ phase' = IF chosen = {} THEN "held" ELSE "walk"
        /\ plan' = [steps |-> served, missing |-> roles \ served, refs |-> chosen,
                    unresolved |-> {}, governance |-> {}]

(* DecomposeGoal, List, and the matching of every role.                    *)
Recommend ==
    /\ phase \in {"idle", "held"}
    /\ Cardinality(drafts) < MaxDrafts
    /\ \E fired \in Goals, reply \in Replies, page \in Pages :
         LET roles == DecomposeGoal(fired, reply)
         IN  \E match \in [roles -> Capabilities \cup {None}] :
               /\ \A r \in roles : match[r] \in Matches(r, page)
               /\ Selected(roles, match)
    /\ current' = None
    /\ Watch
    /\ offered' = ActiveNow
    /\ touched' = {} /\ last' = "recommend" /\ quiet' = TRUE
    /\ UNCHANGED <<registryVars, validationVars, drafts, failures>>

Unfiltered(c) ==  \* mutant
    /\ phase = "walk" /\ todo = {} /\ c \in queue
    /\ Continue(c, plan.refs, seen, plan.unresolved, queue \ {c},
                {dep \in edges[c] : ProvisionedAtComposition(dep)})
    /\ UNCHANGED <<registryVars, matched, validationVars, drafts, failures,
                   watchVars, offered, touched, last, quiet>>

(* addDependencyClosure: the edges of the next capability in the queue.    *)
ListDependencies(c) ==
    /\ phase = "walk" /\ todo = {} /\ c \in queue
    /\ Continue(c, plan.refs, seen, plan.unresolved, queue \ {c},
                {dep \in edges[c] : ProvisionedAtComposition(dep) /\ dep.target \notin plan.refs})
    /\ UNCHANGED <<registryVars, matched, validationVars, drafts, failures,
                   watchVars, offered, touched, last, quiet>>

(* Get succeeds: the target is added, active or not, and its own edges are *)
(* to be followed.  Other edges to the same target are skipped from now on.*)
NotFollowed(dep) ==  \* mutant
    /\ phase = "walk" /\ dep \in todo /\ Registered(dep.target)
    /\ Continue(current, plan.refs \cup {dep.target},
                [seen EXCEPT ![dep.target] = permits[dep.target]],
                plan.unresolved, queue, {other \in todo : other.target # dep.target})
    /\ UNCHANGED <<registryVars, matched, validationVars, drafts, failures,
                   watchVars, offered, touched, last, quiet>>

AddDependency(dep) ==
    /\ phase = "walk" /\ dep \in todo /\ Registered(dep.target)
    /\ Continue(current, plan.refs \cup {dep.target},
                [seen EXCEPT ![dep.target] = permits[dep.target]],
                plan.unresolved, queue \cup {dep.target},
                {other \in todo : other.target # dep.target})
    /\ UNCHANGED <<registryVars, matched, validationVars, drafts, failures,
                   watchVars, offered, touched, last, quiet>>

(* Get fails, for whatever reason: dependency_unresolved, and on it goes.  *)
SkipDependency(dep) ==
    /\ phase = "walk" /\ dep \in todo
    /\ failures < MaxFailures
    /\ failures' = failures + 1
    /\ Continue(current, plan.refs, seen, plan.unresolved \cup {current}, queue, todo \ {dep})
    /\ quiet' = FALSE
    /\ UNCHANGED <<registryVars, matched, validationVars, drafts,
                   watchVars, offered, touched, last>>

-----------------------------------------------------------------------------
(* The client holds the plan.                                              *)

(* Advanced mode drops a capability from its section, and nothing else.    *)
RemoveRef(c) ==
    /\ phase = "held" /\ c \in plan.refs
    /\ plan' = [plan EXCEPT !.refs = @ \ {c}]
    /\ last' = "edit" /\ quiet' = FALSE
    /\ UNCHANGED <<registryVars, phase, walkVars, validationVars, drafts, failures,
                   watchVars, offered, touched>>

-----------------------------------------------------------------------------
(* ValidateComposition, for POST /compositions/validate and within         *)
(* GenerateDraft alike.                                                    *)
PlanErrors ==
    {code \in {"empty_composition", "no_workflow_steps", "nothing_executable"} :
        \/ code = "empty_composition" /\ plan.refs = {}
        \/ code = "no_workflow_steps" /\ plan.steps = {}
        \/ code = "nothing_executable" /\ plan.refs \cap Executable = {}}

(* After every call of the validation: on with the loops, or the verdict.  *)
Conclude(lookups, found, listings, findings) ==
    /\ unchecked' = lookups
    /\ present' = IF lookups # {} \/ listings # {} THEN found ELSE {}
    /\ unlisted' = listings
    /\ errors' = findings
    /\ phase' = IF lookups # {} \/ listings # {} THEN "check"
                ELSE IF findings = {} THEN "valid" ELSE "held"

Validate ==
    /\ phase = "held"
    /\ Conclude(plan.refs, {}, {}, PlanErrors)
    /\ Watch
    /\ last' = "validate"
    /\ UNCHANGED <<registryVars, plan, walkVars, drafts, failures, offered, touched, quiet>>

ExistenceOnly(c) == IF ~Registered(c) THEN {"capability_missing"} ELSE {}  \* mutant

RefErrors(c) ==
    IF ~Registered(c) THEN {"capability_missing"}
    ELSE IF status[c] # "active" THEN {"capability_deprecated"} ELSE {}

CheckRef(c) ==
    /\ phase = "check" /\ c \in unchecked
    /\ LET found == IF Registered(c) THEN {c} ELSE {}
       IN  Conclude(unchecked \ {c}, present \cup found, unlisted \cup found,
                    errors \cup RefErrors(c))
    /\ UNCHANGED <<registryVars, plan, walkVars, drafts, failures,
                   watchVars, offered, touched, last, quiet>>

ClosedNow(c) ==
    \A dep \in edges[c] : ProvisionedAtComposition(dep) => dep.target \in present

CheckDependencies(c) ==
    /\ phase = "check" /\ unchecked = {} /\ c \in unlisted
    /\ Conclude({}, present, unlisted \ {c},
                errors \cup (IF ClosedNow(c) THEN {} ELSE {"dependency_not_composed"}))
    /\ UNCHANGED <<registryVars, plan, walkVars, drafts, failures,
                   watchVars, offered, touched, last, quiet>>

(* POST /compositions/validate answers; POST /drafts goes on to the insert *)
(* of the draft and its components, one transaction, and the console moves *)
(* on to the draft.                                                        *)
NewDraft == [status |-> DraftStatusFor(plan), refs |-> plan.refs, governance |-> plan.governance]

Forget == plan' = NoPlan /\ matched' = {} /\ last' = "none"

Answer ==
    /\ phase = "valid"
    /\ phase' = "held"
    /\ UNCHANGED <<registryVars, plan, walkVars, validationVars, drafts, failures,
                   watchVars, offered, touched, last, quiet>>

CreateDraft ==
    /\ phase = "valid"
    /\ phase' = "idle"
    /\ drafts' = drafts \cup {NewDraft}
    /\ Forget
    /\ UNCHANGED <<registryVars, seen, queue, current, todo, validationVars, failures,
                   watchVars, offered, touched, quiet>>

(* ListFor, a lookup of the validation or the insert fails, the request    *)
(* dies, or its answer is lost after the commit.  A failed recommendation  *)
(* returns no plan; a plan sent to the server stays with the client.       *)
Abort ==
    /\ queue' = {} /\ todo' = {} /\ current' = None /\ seen' = NothingRead
    /\ unchecked' = {} /\ unlisted' = {} /\ present' = {} /\ errors' = {}
    /\ IF phase = "walk"
       THEN phase' = "idle" /\ Forget
       ELSE /\ phase' = IF phase = "idle" THEN "idle" ELSE "held"
            /\ UNCHANGED <<plan, matched, last>>

Fail ==
    /\ phase \in {"walk", "check", "valid"}
    /\ failures < MaxFailures
    /\ failures' = failures + 1
    /\ \/ drafts' = drafts
       \/ phase = "valid" /\ drafts' = drafts \cup {NewDraft}
    /\ Abort
    /\ quiet' = FALSE
    /\ UNCHANGED <<registryVars, watchVars, offered, touched>>

-----------------------------------------------------------------------------
(* The registry moves on.                                                  *)
Change ==
    /\ changes < MaxChanges
    /\ changes' = changes + 1
    /\ quiet' = FALSE
    /\ always' = [c \in Capabilities |-> always[c] \cap edges'[c]]
    /\ ever' = [c \in Capabilities |-> ever[c] \cup edges'[c]]
    /\ active' = active \cup {c \in Capabilities : status'[c] = "active"}
    /\ UNCHANGED <<failures, offered>>

(* The insert of a capability.                                             *)
Register(c) ==
    /\ status[c] = "absent"
    /\ status' = [status EXCEPT ![c] = "active"]
    /\ UNCHANGED <<permits, edges, touched, sessionVars>>
    /\ Change

(* applyDependencies or RelinkPending replace its edges; overlapping       *)
(* relinks may also drop some (DependencyLinking).                         *)
Store(c, deps) ==
    /\ Registered(c)
    /\ \A dep \in deps : Registered(dep.target)
    /\ edges' = [edges EXCEPT ![c] = deps]
    /\ UNCHANGED <<status, permits, touched, sessionVars>>
    /\ Change

(* PUT /capabilities/{id}.                                                 *)
Put(c, newStatus, terms) ==
    /\ Registered(c)
    /\ status' = [status EXCEPT ![c] = newStatus]
    /\ permits' = [permits EXCEPT ![c] = terms]
    /\ touched' = touched \cup {c}
    /\ UNCHANGED <<edges, sessionVars>>
    /\ Change

(* The server restarts on the in-memory store: what was registered is gone *)
(* for good, since ids are never reused, but a client may hold a plan.     *)
Restart ==
    /\ status' = [c \in Capabilities |-> IF Registered(c) THEN "lost" ELSE status[c]]
    /\ edges' = [c \in Capabilities |-> {}]
    /\ drafts' = {}
    /\ Abort
    /\ UNCHANGED <<permits, touched>>
    /\ Change

-----------------------------------------------------------------------------
(* The calls of a request that is under way.                               *)
Proceed ==
    \/ \E c \in Capabilities :
         \/ ListDependencies(c)
         \/ CheckRef(c)
         \/ CheckDependencies(c)
    \/ \E dep \in Dependency : AddDependency(dep) \/ SkipDependency(dep)
    \/ Answer
    \/ CreateDraft

RegistryMovesOn ==
    \/ \E c \in Capabilities :
         \/ Register(c)
         \/ \E deps \in SUBSET Declared[c] : Store(c, deps)
         \/ \E newStatus \in {"active", "deprecated"}, terms \in Grants[c] :
              Put(c, newStatus, terms)
    \/ Restart

Next ==
    \/ Recommend
    \/ \E c \in Capabilities : RemoveRef(c)
    \/ Validate
    \/ Proceed
    \/ Fail
    \/ RegistryMovesOn

(* A request under way keeps running; nobody has to send one.              *)
Spec == Init /\ [][Next]_vars /\ WF_vars(Proceed)

-----------------------------------------------------------------------------
(* The registry, the session's locals and the drafts hold what the code    *)
(* puts there.                                                             *)
TypeOK ==
    /\ status \in [Capabilities -> RegistryStatuses]
    /\ permits \in [Capabilities -> SUBSET Permissions]
    /\ edges \in [Capabilities -> SUBSET Dependency]
    /\ phase \in {"idle", "walk", "held", "check", "valid"}
    /\ plan \in Plan
    /\ matched \subseteq Capabilities
    /\ seen \in [Capabilities -> SUBSET Permissions]
    /\ queue \subseteq Capabilities
    /\ current \in Capabilities \cup {None}
    /\ todo \subseteq Dependency
    /\ unchecked \subseteq Capabilities
    /\ unlisted \subseteq Capabilities
    /\ present \subseteq Capabilities
    /\ errors \subseteq ErrorCodes
    /\ drafts \subseteq Draft
    /\ changes \in Nat /\ failures \in Nat
    /\ always \in [Capabilities -> SUBSET Dependency]
    /\ ever \in [Capabilities -> SUBSET Dependency]
    /\ active \subseteq Capabilities /\ offered \subseteq Capabilities
    /\ touched \subseteq Capabilities

(* What a capability cannot be provisioned without (domain/enums.go:124).  *)
Needs(deps) == {dep.target : dep \in {d \in deps : d.type \in ProvisionedTypes}}

Recommended == phase = "held" /\ last = "recommend"

(* A recommended plan is closed under the provisioned edges that were      *)
(* there during the whole walk, whatever was linked or unlinked meanwhile; *)
(* only a capability the plan warns about may lack one (README "dependency *)
(* closure", recommendation.go:111-148).                                   *)
PlanIsClosed ==
    Recommended =>
        \A c \in plan.refs \ plan.unresolved : Needs(always[c]) \subseteq plan.refs

(* A recommended plan takes in nothing but what matched a role and what    *)
(* that needs, directly or not, by edges that were there at some time of   *)
(* the walk: it is within every set with those two properties.             *)
PlanHasNoStrangers ==
    Recommended =>
        \A S \in SUBSET Capabilities :
            matched \subseteq S /\ (\A c \in S : Needs(ever[c]) \subseteq S)
            => plan.refs \subseteq S

(* When nothing interferes, validating what was recommended finds every    *)
(* capability and every dependency it asks for; a capability can only be   *)
(* refused as deprecated when the closure brought it in, since matching    *)
(* looks at active ones (recommendation.go:55-58, 128; validation.go).     *)
RecommendationValidates ==
    quiet /\ last = "validate" =>
        /\ errors \cap {"capability_missing", "dependency_not_composed"} = {}
        /\ "capability_deprecated" \in errors =>
              \E c \in plan.refs \ matched : status[c] = "deprecated"

(* Errors block draft generation (validation.go:13-16): whoever reaches    *)
(* the insert holds a plan with something to execute, all of whose         *)
(* capabilities were active at some time of the validation, and which is   *)
(* closed under the edges that were there all that time.                   *)
ValidMeansSound ==
    phase = "valid" =>
        /\ plan.refs \subseteq active
        /\ \A c \in plan.refs : Needs(always[c]) \subseteq plan.refs
        /\ plan.refs \cap Executable # {}
        /\ plan.steps # {}

(* The governance of a plan in use covers every capability of the plan     *)
(* whose own governance has not been changed since the recommendation,     *)
(* those the closure brought in included (recommendation.go:249-277).      *)
GovernanceCovers ==
    phase \in {"held", "check", "valid"} =>
        \A c \in plan.refs \ touched : permits[c] \subseteq plan.governance

(* A recommendation and a validation come to an end, although edges may    *)
(* form cycles and the registry may grow under the walk.                   *)
RequestsEnd ==
    /\ phase = "walk" ~> phase # "walk"
    /\ phase \in {"check", "valid"} ~> phase \in {"idle", "held"}

(* Bounds on the calls that a walk and a validation still have to make.    *)
WalkLeft ==
    (Cardinality(Capabilities \ plan.refs) * (Cardinality(Capabilities) + 1)
        + Cardinality(queue)) * (Cardinality(Dependency) + 1)
    + Cardinality(todo)

CheckLeft == 2 * Cardinality(unchecked) + Cardinality(unlisted)

(* That is because every call leaves the request fewer to make, and nobody *)
(* else gives it more, whatever is linked or registered while it runs: the *)
(* loop never queues a capability twice (recommendation.go:113-146).       *)
CallsRunOut ==
    [][/\ phase = "walk" /\ phase' = "walk" =>
            IF Proceed THEN WalkLeft' < WalkLeft ELSE WalkLeft' = WalkLeft
       /\ phase = "check" /\ phase' = "check" =>
            IF Proceed THEN CheckLeft' < CheckLeft ELSE CheckLeft' = CheckLeft]_vars

(* Matching keeps weak matches out (recommendation.go:23-25) and good ones *)
(* in: whatever matched shares more with one of its steps than some words, *)
(* and a step is reported missing only if no active capability serves it,  *)
(* unless the registry holds more of them than a page; some step there is, *)
(* served or missing (llm/mock_client.go:303-304).                         *)
MatchingIsSound ==
    phase # "idle" =>
        /\ \A c \in matched : \E r \in plan.steps : Evidence(r, c)
        /\ Cardinality(offered) <= MaxLimit =>
              \A r \in plan.missing, c \in offered : Score[r][c] = 0
        /\ plan.steps \cup plan.missing # {}
=============================================================================
