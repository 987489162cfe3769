-------------------------- MODULE DependencyLinking --------------------------
(***************************************************************************)
(* How declared dependency references become edges between registered      *)
(* capabilities: Create/applyDependencies and RelinkPending of             *)
(* internal/registry/capability_service.go, Resolve and Store of           *)
(* internal/registry/dependency_service.go, over the Postgres repositories *)
(* of internal/store.                                                      *)
(*                                                                         *)
(* A reference that cannot be resolved yet is recorded in the capability's *)
(* metadata (unresolved_dependencies, here pending) and retried by every   *)
(* later registration.  Both write it with an update of the whole record   *)
(* as they hold it; content is the number of the PUT that the rest of that *)
(* record comes from, 0 for the insert.                                    *)
(*                                                                         *)
(* One action is one repository call.  The (type, slug) checks around the  *)
(* insert are the business of CandidateRegistry; here every capability is  *)
(* inserted at most once, and keeps its type and its origin.               *)
(***************************************************************************)
EXTENDS Naturals, Sequences

CONSTANTS
    Capabilities,   \* everything that may get registered
    ExternalIds,    \* ids of assets in their source systems
    Systems,        \* source systems
    Types,          \* capability types
    ExternalId,     \* ExternalId[c]: the asset c stands for
    System,         \* System[c]: the source system c came from
    TypeOf,         \* TypeOf[c]: its capability type
    DependsOn,      \* DependsOn[c]: the references c declares
    Entrances,      \* the ways in that are used: "post", "register"
    PageLimit,      \* store.MaxLimit: how many capabilities one List returns
    Handlers,       \* request goroutines
    MaxMishaps,     \* bound on the PUTs and the requests that die, together
    None            \* absent value

(* A DependencyRef: an external id and, perhaps, a target type.            *)
Ref == [external : ExternalIds, type : Types \cup {None}]

ASSUME LinkingAssumption ==
    /\ ExternalId \in [Capabilities -> ExternalIds]
    /\ System \in [Capabilities -> Systems]
    /\ TypeOf \in [Capabilities -> Types]
    /\ DependsOn \in [Capabilities -> SUBSET Ref]
    /\ Entrances \subseteq {"post", "register"}
    /\ PageLimit \in Nat
    /\ MaxMishaps \in Nat
    /\ None \notin Capabilities \cup Types

(* What RelinkPending takes from its List: a capability, its place in the  *)
(* page, the references that were pending on it and its content then.      *)
Snapshot == [place : Nat, capability : Capabilities, refs : SUBSET Ref, content : Nat]

Phases == {"idle", "resolve", "store", "save", "list", "merge"}

Handler == [phase      : Phases,
            via        : {"post", "register"},
            relinking  : BOOLEAN,
            capability : Capabilities \cup {None},
            content    : Nat,
            todo       : SUBSET Ref,
            resolved   : SUBSET Capabilities,
            unresolved : SUBSET Ref,
            rest       : SUBSET Snapshot]

VARIABLES
    registry,     \* the registered capabilities, in the order of created_at
    content,      \* content[c]: the PUT its other columns come from
    pending,      \* pending[c]: metadata_json.unresolved_dependencies
    edges,        \* edges[c]: the rows of capability_dependencies for c
    handlers,     \* what each request goroutine holds
    failures,     \* number of requests that died half way
    puts          \* number of PUT requests

(* History, for the properties only: capabilities whose Create died after  *)
(* the insert; whether a RelinkPending has completed since the last insert;*)
(* whether two registrations were ever under way at once; capabilities     *)
(* whose pending references a PUT has removed; the last PUT of each; those *)
(* whose last PUT came while a request held a copy of their record.        *)
VARIABLES interrupted, relinked, overlapped, wiped, given, raced

putVars == <<content, puts, wiped, given, raced>>
vars == <<registry, pending, edges, handlers, failures, interrupted, relinked, overlapped,
          putVars>>

-----------------------------------------------------------------------------
Idle == [phase |-> "idle", via |-> "post", relinking |-> FALSE, capability |-> None,
         content |-> 0, todo |-> {}, resolved |-> {}, unresolved |-> {}, rest |-> {}]

At(h, phase) == handlers[h].phase = phase

Goto(h, state) == handlers' = [handlers EXCEPT ![h] = state]

Registered == {registry[i] : i \in DOMAIN registry}

(* List: the oldest PageLimit capabilities.                                *)
Page == {i \in DOMAIN registry : i <= PageLimit}

(* FindByExternalID: the oldest capability of the same source system, or   *)
(* else the oldest of any.                                                 *)
FindByExternalID(c, external) ==
    LET all     == {i \in DOMAIN registry : ExternalId[registry[i]] = external}
        Same(i) == System[registry[i]] = System[c]
    IN  IF all = {} THEN None
        ELSE registry[CHOOSE i \in all :
                        \A j \in all : \/ Same(i) /\ ~Same(j)
                                       \/ Same(i) = Same(j) /\ i <= j]

HasType(target, ref) == ref.type # None => TypeOf[target] = ref.type

Satisfies(target, ref) == ExternalId[target] = ref.external /\ HasType(target, ref)

Linked(c, ref) == \E target \in edges[c] : Satisfies(target, ref)

Init ==
    /\ registry = <<>>
    /\ pending = [c \in Capabilities |-> {}]
    /\ edges = [c \in Capabilities |-> {}]
    /\ handlers = [h \in Handlers |-> Idle]
    /\ content = [c \in Capabilities |-> 0]
    /\ failures = 0 /\ puts = 0
    /\ interrupted = {} /\ wiped = {} /\ raced = {}
    /\ relinked = TRUE /\ overlapped = FALSE
    /\ given = content

-----------------------------------------------------------------------------
(* Local steps between two repository calls.                               *)

(* RelinkPending's loop takes the next capability of its snapshot that has *)
(* something pending; after the last one the request ends.                 *)
AllButLast(s) ==  \* mutant
    IF s.rest = {} \/ (\E last \in s.rest : s.rest = {last}) THEN Idle
    ELSE LET next == CHOOSE w \in s.rest : \A v \in s.rest : w.place <= v.place
         IN  [s EXCEPT !.phase = "resolve", !.capability = next.capability,
                       !.content = next.content, !.todo = next.refs,
                       !.resolved = {}, !.unresolved = {}, !.rest = @ \ {next}]

Oldest(rest) == CHOOSE w \in rest : \A v \in rest : w.place <= v.place

ToTheFirst(s) ==  \* mutant
    IF s.rest = {} THEN Idle
    ELSE LET next == Oldest(s.rest)
         IN  [s EXCEPT !.phase = "resolve", !.content = next.content, !.todo = next.refs,
                       !.resolved = {}, !.unresolved = {}, !.rest = @ \ {next}]

NextCapability(s) ==
    IF s.rest = {} THEN Idle
    ELSE LET next == Oldest(s.rest)
         IN  [s EXCEPT !.phase = "resolve", !.capability = next.capability,
                       !.content = next.content, !.todo = next.refs,
                       !.resolved = {}, !.unresolved = {}, !.rest = @ \ {next}]

(* After the insert: applyDependencies returns at once when nothing is     *)
(* declared.  After Create: only RegisterCandidate goes on to relink.      *)
AfterCreate(s) == IF s.via = "register" THEN [s EXCEPT !.phase = "list"] ELSE Idle

AfterInsert(s) == IF s.todo = {} THEN AfterCreate(s) ELSE s

(* Resolve goes over its references one lookup at a time.  Then            *)
(* applyDependencies stores whatever came out, RelinkPending skips a       *)
(* capability for which nothing did.                                       *)
StopEarly(s) ==  \* mutant
    IF s.todo # {} THEN s
    ELSE IF ~s.relinking THEN [s EXCEPT !.phase = "store"]
    ELSE IF s.resolved = {} THEN Idle
    ELSE [s EXCEPT !.phase = "merge"]

AfterResolve(s) ==
    IF s.todo # {} THEN s
    ELSE IF ~s.relinking THEN [s EXCEPT !.phase = "store"]
    ELSE IF s.resolved = {} THEN NextCapability(s)
    ELSE [s EXCEPT !.phase = "merge"]

-----------------------------------------------------------------------------
(* POST /capabilities and RegisterCandidate: the insert of c, with empty   *)
(* metadata.                                                               *)
Insert(h, c, via) ==
    /\ At(h, "idle")
    /\ c \notin Registered
    /\ registry' = Append(registry, c)
    /\ Goto(h, AfterInsert([Idle EXCEPT !.phase = "resolve", !.via = via,
                                        !.capability = c, !.todo = DependsOn[c]]))
    /\ relinked' = FALSE
    /\ overlapped' = (overlapped \/ \E g \in Handlers : ~At(g, "idle"))
    /\ UNCHANGED <<pending, edges, failures, interrupted, putVars>>

MismatchDropped(s, ref, target) ==  \* mutant
    LET rest == [s EXCEPT !.todo = @ \ {ref}]
    IN  IF target = None THEN [rest EXCEPT !.unresolved = @ \cup {ref}]
        ELSE IF target = s.capability \/ ~HasType(target, ref) THEN rest
        ELSE [rest EXCEPT !.resolved = @ \cup {target}]

AnyTypeLinked(s, ref, target) ==  \* mutant
    LET rest == [s EXCEPT !.todo = @ \ {ref}]
    IN  IF target = None THEN [rest EXCEPT !.unresolved = @ \cup {ref}]
        ELSE IF target = s.capability THEN rest
        ELSE [rest EXCEPT !.resolved = @ \cup {target}]

NotFoundLinked(s, ref, target) ==  \* mutant
    [s EXCEPT !.todo = @ \ {ref}, !.resolved = @ \cup {target}]

(* One round of the loop in Resolve.                                       *)
Resolved(s, ref, target) ==
    LET rest == [s EXCEPT !.todo = @ \ {ref}]
    IN  IF target = None \/ (target # s.capability /\ ~HasType(target, ref))
        THEN [rest EXCEPT !.unresolved = @ \cup {ref}]
        ELSE IF target = s.capability THEN rest
        ELSE [rest EXCEPT !.resolved = @ \cup {target}]

Resolve(h) ==
    /\ At(h, "resolve")
    /\ \E ref \in handlers[h].todo :
       \E target \in {FindByExternalID(handlers[h].capability, ref.external)} :
       \E s \in {AfterResolve(Resolved(handlers[h], ref, target))} :
         /\ Goto(h, s)
         /\ relinked' = (relinked \/ s.phase = "idle")
    /\ UNCHANGED <<registry, pending, edges, failures, interrupted, overlapped, putVars>>

(* RelinkPending reads what is stored before it adds to it.                *)
ListFor(h) ==
    /\ At(h, "merge")
    /\ LET s == handlers[h]
       IN  Goto(h, [s EXCEPT !.phase = "store",
                             !.resolved = edges[s.capability] \cup @])
    /\ UNCHANGED <<registry, pending, edges, failures, interrupted, relinked, overlapped,
                   putVars>>

(* Replace, in one transaction.  applyDependencies then updates the        *)
(* metadata only when something is unresolved, RelinkPending always.       *)
Store(h) ==
    /\ At(h, "store")
    /\ LET s == handlers[h]
       IN  /\ edges' = [edges EXCEPT ![s.capability] = s.resolved]
           /\ Goto(h, IF s.unresolved = {} /\ ~s.relinking
                      THEN AfterCreate(s) ELSE [s EXCEPT !.phase = "save"])
    /\ UNCHANGED <<registry, pending, failures, interrupted, relinked, overlapped, putVars>>

(* Update of the whole record: the metadata becomes what this request      *)
(* found unresolved, the rest what it has read before.                     *)
Save(h) ==
    /\ At(h, "save")
    /\ LET s == handlers[h]
           next == IF s.relinking THEN NextCapability(s) ELSE AfterCreate(s)
       IN  /\ pending' = [pending EXCEPT ![s.capability] = s.unresolved]
           /\ content' = [content EXCEPT ![s.capability] = s.content]
           /\ Goto(h, next)
           /\ relinked' = (relinked \/ (s.relinking /\ next.phase = "idle"))
    /\ UNCHANGED <<registry, edges, failures, interrupted, overlapped,
                   puts, wiped, given, raced>>

(* RelinkPending's List: the capabilities of the page that have something  *)
(* pending.                                                                *)
Waits == {[place |-> i, capability |-> registry[i], refs |-> pending[registry[i]],
           content |-> content[registry[i]]] : i \in {j \in Page : pending[registry[j]] # {}}}

List(h) ==
    /\ At(h, "list")
    /\ \E read \in {[handlers[h] EXCEPT !.relinking = TRUE, !.rest = Waits]} :
         \E s \in {NextCapability(read)} :
           /\ Goto(h, s)
           /\ relinked' = (s.phase = "idle")
    /\ UNCHANGED <<registry, pending, edges, failures, interrupted, overlapped, putVars>>

(* A request has a copy of the record of c that it may write back.         *)
Holds(h, c) ==
    /\ ~At(h, "idle") /\ ~At(h, "list")
    /\ handlers[h].capability = c \/ \E w \in handlers[h].rest : w.capability = c

(* PUT /capabilities/{id}: the record is replaced by the body's; its       *)
(* metadata carries no unresolved references.                              *)
Put(c) ==
    /\ c \in Registered
    /\ failures + puts < MaxMishaps
    /\ puts' = puts + 1
    /\ content' = [content EXCEPT ![c] = puts']
    /\ pending' = [pending EXCEPT ![c] = {}]
    /\ given' = [given EXCEPT ![c] = puts']
    /\ wiped' = IF pending[c] # {} THEN wiped \cup {c} ELSE wiped
    /\ raced' = IF \E h \in Handlers : Holds(h, c) THEN raced \cup {c} ELSE raced \ {c}
    /\ UNCHANGED <<registry, edges, handlers, failures, interrupted, relinked, overlapped>>

(* A repository call fails or the server dies: nothing is undone.          *)
Fail(h) ==
    /\ ~At(h, "idle")
    /\ failures + puts < MaxMishaps
    /\ failures' = failures + 1
    /\ Goto(h, Idle)
    /\ interrupted' = IF handlers[h].relinking \/ At(h, "list") THEN interrupted
                      ELSE interrupted \cup {handlers[h].capability}
    /\ UNCHANGED <<registry, pending, edges, relinked, overlapped, putVars>>

-----------------------------------------------------------------------------
Proceed(h) == Resolve(h) \/ ListFor(h) \/ Store(h) \/ Save(h) \/ List(h)

Next ==
    \/ \E h \in Handlers :
         \/ \E c \in Capabilities, via \in Entrances : Insert(h, c, via)
         \/ Proceed(h)
         \/ Fail(h)
    \/ \E c \in Capabilities : Put(c)

(* A request under way keeps running: net/http gives it a goroutine.  (Each *)
(* step of one changes what it holds.)                                     *)
Spec == Init /\ [][Next]_vars /\ \A h \in Handlers : WF_handlers(Proceed(h))

AllIdle == \A h \in Handlers : At(h, "idle")

-----------------------------------------------------------------------------
(* The rows of capabilities, capability_dependencies and the locals of a   *)
(* request in applyDependencies or RelinkPending.                          *)
TypeOK ==
    /\ registry \in Seq(Capabilities)
    /\ pending \in [Capabilities -> SUBSET Ref]
    /\ edges \in [Capabilities -> SUBSET Capabilities]
    /\ handlers \in [Handlers -> Handler]
    /\ content \in [Capabilities -> Nat]
    /\ failures \in Nat /\ puts \in Nat
    /\ interrupted \subseteq Capabilities /\ wiped \subseteq Capabilities
    /\ raced \subseteq Capabilities
    /\ relinked \in BOOLEAN /\ overlapped \in BOOLEAN
    /\ given \in [Capabilities -> Nat]
    /\ \A h \in Handlers : ~At(h, "idle") => handlers[h].capability \in Capabilities

(* Whatever races, crashes and partial relinks happen, an edge is never    *)
(* invented: it leads from a registered capability to another registered   *)
(* one that carries the external id and the type of a declared reference   *)
(* (dependency_service.go:43-51).                                          *)
EdgesAreDeclared ==
    \A c \in Capabilities : \A target \in edges[c] :
        /\ c \in Registered
        /\ target \in Registered
        /\ target # c
        /\ \E ref \in DependsOn[c] : Satisfies(target, ref)

(* Without overlapping registrations no declared reference is lost: it is  *)
(* an edge, or pending, or being applied, or it names the capability       *)
(* itself.  Only a Create that dies between the insert and the end of      *)
(* applyDependencies loses some (capability_service.go:42-47), and a PUT   *)
(* while some are pending (capability_handler.go:157).                     *)
ReferencesAreKept ==
    ~overlapped =>
        \A c \in Registered \ (interrupted \cup wiped) : \A ref \in DependsOn[c] :
            \/ Linked(c, ref)
            \/ ref \in pending[c]
            \/ ExternalId[c] = ref.external
            \/ \E h \in Handlers : Holds(h, c) /\ ~handlers[h].relinking

Resolvable(c, ref) ==
    LET target == FindByExternalID(c, ref.external)
    IN  target \notin {c, None} /\ HasType(target, ref)

(* A registration whose RelinkPending completes repairs the links that     *)
(* posts and interrupted relinks before it left behind: at rest, every     *)
(* capability of the first page has an edge for every reference that       *)
(* FindByExternalID can resolve.                                           *)
RelinkRepairs ==
    AllIdle /\ relinked /\ ~overlapped =>
        \A i \in Page :
            registry[i] \notin interrupted \cup wiped =>
                \A ref \in DependsOn[registry[i]] :
                    Resolvable(registry[i], ref) => Linked(registry[i], ref)

(* What a PUT has set stays until the next one, although applyDependencies *)
(* and every RelinkPending after it write the whole record: a PUT is only  *)
(* undone by a request that held a copy of the record when it came         *)
(* (capability_service.go:79, 133).                                        *)
PutsAreKept == \A c \in Capabilities \ raced : content[c] = given[c]

(* The first page is in order: every capability in it has an edge for every *)
(* reference that can be resolved.                                         *)
PageIsLinked ==
    \A i \in Page : registry[i] \notin wiped =>
        \A ref \in DependsOn[registry[i]] :
            Resolvable(registry[i], ref) => Linked(registry[i], ref)

(* A registration that gets as far as listing what is pending leaves the   *)
(* page in order in the end, unless the request dies or another            *)
(* registration overlaps (a PUT may have removed references for good).     *)
PendingGetsLinked ==
    (\E h \in Handlers : At(h, "list"))
        ~> (PageIsLinked \/ failures > 0 \/ overlapped)

(* RelinkPending is called after each registration, so a Dify app          *)
(* registered before its tools ends up correctly linked once those tools   *)
(* arrive (capability_service.go:89-91): when nothing is under way, no     *)
(* reference is left that could be resolved.                               *)
LinkedOnceToolsArrive ==
    AllIdle =>
        \A c \in Registered : \A ref \in DependsOn[c] :
            Resolvable(c, ref) => Linked(c, ref)
=============================================================================
