# Verification of the agent composer

TLA+ models of the control logic of this repository, the TLC instances that
check them, and theorems about them that TLAPS proves for every instance.
Source paths are relative to the repository's root.

## The system

A Go server (`cmd/composer-server`) ingests AI assets from source systems as
*candidates*, lets a reviewer correct them, promotes them into a registry of
*capabilities* that are linked by *dependencies*, recommends a composition of
capabilities for a business goal, and turns a composition into a *draft*.

| part | source | state it keeps | operations |
|---|---|---|---|
| sources | `internal/registry/source_service.go`, `store/source_repo.go` | table `external_sources` | create, list, find-or-create by name |
| ingestion | `internal/engine/source_ingestion.go`, `internal/adapters/*` | none | import a Dify DSL, manual YAML, MCP or data listing: convert, enrich, upsert each candidate |
| enrichment | `internal/engine/capability_extraction.go`, `internal/llm` | none | infer missing fields, decompose a goal; an LLM with a rule-based fallback |
| candidates | `internal/registry/candidate_service.go`, `store/candidate_repo.go` | table `capability_candidates` | upsert, review, reject, mark registered |
| capabilities | `internal/registry/capability_service.go`, `store/capability_repo.go` | tables `capabilities`, and the unresolved references in `metadata_json` | create, update, list, relink |
| dependencies | `internal/registry/dependency_service.go`, `store/dependency_repo.go` | table `capability_dependencies` | resolve references, replace or list a capability's edges |
| recommendation, validation | `internal/engine/recommendation.go`, `validation.go` | none; the plan travels through the client | recommend, validate |
| drafts | `internal/engine/draft_generator.go`, `registry/draft_service.go`, `api/draft_handler.go` | tables `business_agent_drafts`, `composition_components` | generate, update, export |
| stores | `internal/store` | memory (one RWMutex) or Postgres | one critical section, or one statement or transaction, per call |
| server | `cmd/composer-server`, `store/postgres.go`, `internal/api` | table `schema_migrations`, the connection pool, the requests under way | start, migrate, serve one goroutine per request, shut down |
| CLI | `cmd/agentctl` | none | `seed` and `demo`: import the examples, register everything, recommend, draft |
| console | `web/src` | none on the server | pages over the API |

The parts interact by calls within a request: handler, engine, service,
repository. What makes the system hard is that **a request is a sequence of
repository calls and nothing spans two of them**: no transaction, no version
column, no lock. Two requests interleave at every call, a request can die after
any of them, and services write back whole records they read earlier. The plan
of a composition leaves the server altogether between two calls.

What each part owes its users:

* candidates: a decision (registered, rejected) is final; an accepted edit is
  not lost; a candidate is registered into a capability of its own, with the
  fields it shows; a candidate with a gap asks for review.
* capabilities: `(type, slug)` is unique; registration leaves no half-made
  capability behind.
* dependencies: an edge is one a source declared; no declared reference gets
  lost; a reference is linked once its target is registered.
* recommendation: the plan is closed under provisioned dependencies, its
  governance covers everything it selects, and what it recommends validates.
* drafts: composed of validated capabilities, and the stored document agrees
  with the stored draft.
* enrichment: what a source says stays authoritative (a subtype does not, see below),
  and an endpoint that hangs or answers nonsense degrades the output and nothing else.
* servers: each migration runs once and in order whoever starts together, nobody
  serves a half-migrated database, and a stop lets requests finish.

## Modules

| module | what it is |
|---|---|
| `CandidateRegistry` | candidates and capabilities under concurrent requests, call by call |
| `CandidateLifecycle` | abstract specification: each decision is one atomic step |
| `CandidateRefinement` | the mapping from the first to the second, and the discipline under which it holds |
| `CandidateProofs` | proofs of the safety invariants of `CandidateRegistry`, that it implements `CandidateLifecycle`, and that decisions are final |
| `DependencyLinking` | dependency references, edges and relinking, call by call |
| `DependencyLinkingProofs` | proofs that edges are never invented, puts and references are kept |
| `Matching` | pure: what a goal asks for, and which capability serves it how well |
| `Composition` | on `Matching`: recommendation, dependency closure, validation and draft generation, call by call |
| `CompositionProofs` | proofs of all its safety invariants, of what matching guarantees, and that its loops end |
| `Drafts` | edits of a stored draft and its document, call by call |
| `DraftsProofs` | proofs of all its safety invariants |
| `Ingestion` | imports: find or create the source, upsert candidate by candidate, call by call |
| `DifyMapping` | pure: how one Dify application becomes candidates, and the order of its steps |
| `DifyIngestion` | composes the two: imports of Dify applications beside other uploads |
| `IngestionProofs` | proofs of all safety invariants of `Ingestion` |
| `DifyProofs` | proofs of what `DifyMapping` makes of every application, and of what follows for the tables |
| `Enrichment` | pure: what enrichment adds to an extracted candidate |
| `SeedRun` | on `Enrichment`: agentctl against a server whose model endpoint may hang |
| `SeedRunProofs` | proofs of all its safety invariants |
| `Servers` | servers that start, migrate one database, serve and stop |
| `Deployment` | abstract specification: a migration is one step, a server is there or is not |
| `ServersRefinement` | the mapping from the first to the second |
| `ServersProofs` | proofs of all its safety invariants, and that it implements `Deployment` |
| `MC*` | the instances for TLC; `*.cfg` are the runs |

### CandidateRegistry

State: `candidates` and `capabilities` are the two tables; `handlers[h]` is what
request goroutine `h` holds: the call it is about to make (`phase`), the record
it has read and changed, the key and id of the capability it is creating.
`failures` bounds the requests that die.

Every action is one repository call and the local computation after it.
`ReviewRead`, `RejectRead` and `RegisterRead` are the `Get` a decision starts
with; `UpdateCandidate` is the whole-record `Update` of Review and Reject;
`CheckSlug`, `InsertConflict`, `InsertCapability` are `GetBySlug` and `Create`;
`MarkRegistered` writes the record read at the start. `Import` is one `Upsert`,
which is a single statement (critical section) and so atomic; an import of many
candidates is a sequence of them, and every prefix of it is a behaviour here.
`PutCapability` is the slug change of `PUT /capabilities/{id}`. `Fail` is a
failed call, a client that went away or a crash: the request ends where it is. A
restart of the server is `Fail` for every busy handler.

Abstractions. Fields are reduced to what the code decides on: the name, because
the slug may come from it, and which of the two core fields (description,
intents) are filled in. `extracted` stands for the merge of the extracted and
inferred layers, which are always written together. The (type, slug) a candidate
gets under a name is the constant `KeyOf`; a candidate's type is fixed. Both
enrichers answer (the LLM one falls back on the rules), so the branch that logs
an enrichment error is left out. The name and description columns repeat
`Resolved()` and are not modelled, nor is metadata a reviewer supplies.

`CandidateLifecycle` has the same decisions as atomic steps on the current state
and no handlers. The handlers implement it as long as no two requests hold decisions
on one candidate at the same time (`OneReviewer`). The code does not enforce this, and
no behaviour is excluded for it: `SpecWatched` is `Spec` with the history variable
`overlapped`, which says whether it ever happened, and `ImplementsLifecycle` and
`OrphansNeedAFailure` speak of the steps before. The runs `candidates_terminal` and
`candidates_concurrent` show that the discipline is both needed and enough.

### DependencyLinking

State: `registry` is the list of capabilities by `created_at`; `pending[c]` is
`metadata_json.unresolved_dependencies`; `content[c]` says which `PUT` the other
columns of `c` come from; `edges[c]` are the rows of `capability_dependencies`;
`handlers[h]` holds the locals of a request inside `applyDependencies` or
`RelinkPending`, in `rest` the snapshot that `RelinkPending` took from its `List`.
`interrupted`, `relinked`, `overlapped`, `wiped`, `given` and `raced` are history
variables for the properties; no action's guard reads them.

`Insert` is the insert of `Create`, from `POST /capabilities` (`via = "post"`)
or from `RegisterCandidate` (`"register"`), which alone goes on to `List`, the
first call of `RelinkPending`. `Resolve` is one lookup of the loop in
`DependencyService.Resolve`; `ListFor`, `Store` and `Save` are the calls that
follow. `Save` writes the whole record the request holds, so that it can undo a
`Put`, which replaces the record and drops its pending references. `Fail` is as
above; a `Save` that fails because another capability took the slug is a `Fail` too.

Requests may always overlap. What holds only of requests one after the other says
so by `overlapped`: registrations that `agentctl seed` or a single operator sends.

Abstractions. References are sets: their order, the dependency type and the
edge's config do not decide anything here. Each capability is inserted at most
once, since the race on (type, slug) is in `CandidateRegistry`; a `PUT` that
changes a capability's type, source system or external id is left out, and edges
that others hold on it are not looked at again in the code. Rows have Postgres'
value semantics: the memory store's shared metadata maps, its duplicate edges and
the arbitrary choice of its `FindByExternalID` among several other systems are
left out.

### Matching

Pure definitions. A term stands for a lower-cased string; a role asks for a type,
keywords and intents, a capability offers a type, intents, tags, a domain and the
terms that occur in its text. `DecomposeGoal` is the enrichers': the roles of a
model's usable answer, or the templates of the catalog that the goal triggers, or a
role for the goal as a whole. `Total` is the weighted sum of `scoreCapability`,
multiplied by the role's denominators so that it is a whole number and compares as
the code's does, with `StrongEnough` for `minScore`. `BestMatches` leaves the choice
among equals open: `List` orders them by age. How text is split into words is data:
it decides which terms are shared.

### Composition

State: `status`, `permits` and `edges` are the registry as these requests read
it; `phase` says what the client's session is at: nothing (`idle`), in the loop of
`addDependencyClosure` (`walk`), in possession of a plan (`held`), inside
`ValidateComposition` (`check`), or past it (`valid`). `plan` is the plan; the
other variables up to `errors` are the locals of the two functions, and `drafts`
the table. `always`, `ever`, `active`, `touched`, `last` and `quiet` are history
variables: what was in the registry all the time, or some of the time, since the
session's last request began. No action's guard reads them.

`Recommend` is `DecomposeGoal` and the `List` with the matching that follows, on
the page of at most `MaxLimit` active capabilities. `ListDependencies(c)` is
the `ListFor` of one turn of the loop, `AddDependency(dep)` and
`SkipDependency(dep)` a `Get` that succeeds or fails. `Continue` is what every
call of the walk ends with: on with the loop, or the plan is complete and
`DeriveGovernance` is applied. `RemoveRef` is the console's advanced mode.
`Validate`, `CheckRef(c)` and `CheckDependencies(c)` are the calls of
`ValidateComposition`, for `POST /compositions/validate` (`Answer`) and for
`GenerateDraft` (`CreateDraft`) alike. `Fail` is a call that fails, or an answer
that is lost after the draft's commit. `Register`, `Store`, `Put` and `Restart` are
what everybody else may do to the registry between two of the session's calls.

Recommendation and validation only read the registry, so sessions cannot disturb
each other and one is modelled. Abstractions: any page of the right size may be the
one that `List` returns; a loop's order is left open, because it decides nothing; permissions, approvals and risk levels are
terms of one set, a risk being the set of the levels up to it, so that the
highest risk is a union. Slugs are left out, and with them the `duplicate_slug`
warning, the only one that makes a draft `needs_review` beside the missing
capabilities. Drafts have no ids: a draft made twice is one, as it is on Postgres, where the
second insert meets the unique index on the slug.

### Drafts

State: `drafts[id]` is the row of a draft, with the fields a PUT may set, the
composition and the YAML text; `phase[h]`, `target[h]`, `body[h]` and `record[h]`
are what request `h` is about to call, the draft it edits, what its client sent
and the record it holds. `answered`, `disturbed` and `cutOff` are history
variables: the fields when edits are applied one by one as they are answered, the
drafts with edits that overlapped or ended half way, and those whose last request
ended between its two writes.

`Read` is `DraftService.Update` up to the repository's `Update`: the `Get`, the
checks and the edit. `Update` is that whole-record write, old document included,
and `Save` the second one with the document rendered from what was written.
`Create` is the insert that `Composition` leads up to. `Fail` ends a request at
either write, before it or after its commit (the components are read back then).

Abstractions. The five fields of a `DraftUpdate` are functions from fields to
values, with the values that pass the checks on each; a document is what it was
rendered from, so that rendering tells apart what the YAML tells apart. A PUT
leaves the slug, the plan, its governance and the component rows alone (`nil`
components). Edits that overlap overwrite each other, which no comment promises
against: `EditsSurvive` speaks of the drafts where they did not. Drafts do not
interact, so one id is enough for TLC. The loss of the memory store at a restart
is left out.

`Composition` and `Drafts` meet at the insert and are kept apart: after it no
action of either reads what the other writes.

### Ingestion, DifyMapping, DifyIngestion

State of `Ingestion`: `sources` and `candidates` are the two tables, a candidate
under its natural key (source, external id); `decided` are the keys of registered or
rejected candidates. `phase[h]`, `upload[h]`, `named[h]`, `source[h]` and `next[h]` are
what import `h` is about to call, its document, the name it looks for, the source it
found and the candidate it stores next. `answered`, `refused`, `latest` and
`disturbed` are history variables: the answered imports, whether one met a conflict,
the last answered upload of each source, and the sources with imports that
overlapped or ended half way. No action's guard reads them.

`EnsureByName` is the `SELECT` of an import by name and `CreateSource` its `INSERT`,
which the index on (name, type) may refuse; `GetSource` is an import into a given
source. `Upsert` is one turn of the loop in `runImport`, and `Continue` what follows
every call: the next candidate, or the answer. `Create` is `POST /sources`, `Decide`
a decision of `CandidateRegistry`. `Fail` ends an import anywhere, before or after
its last upsert committed. Requests that change nothing (an unknown source, one
of another type, a document that does not parse) are left out.

`DifyMapping` is `dify.Map` in the code's order: tools, knowledge, a prompt and a
skill for every llm node, the workflow, the agent. `Kept` is a loop that appends the
elements it wants; `Onward` is one turn of the loop of `OrderedSteps`, which follows
the first edge of every node unless it leaves the graph or leads back, and `Walk` as
many turns from the start node as there are nodes, more than which the loop cannot
make. The loops are functions on the natural numbers and positions, not recursive
operators, so that they can be proved about. Titles
are sequences of words, so that a slug is the words in lower case; the cut at
`maxSlugRunes`, the fallback for names of punctuation and blanks around titles are
left out. A candidate carries what its references and steps are and no other
field.

`DifyIngestion` gives `CandidatesOf` its meaning for Dify uploads through the
instance and states the two halves of what `OrderedSteps` promises of a stored
workflow: the order of the edges where they form a single path (`SinglePath`, a way
through the graph that is all of it; it does not speak of the walk), which holds, and
document order where they do not, which does not hold (`imports_looping`). Its
`DifyAssumption` says where the candidates of each kind of upload come from: `Map`,
or an adapter whose candidates refer to nothing (MCP, data), or a hand-written document.

The memory store's `EnsureByName` is one critical section, which the two steps
here include; its `POST /sources` does not check for a second source of one name,
and is left out.

### Enrichment, SeedRun

`Enrichment` abstracts a block of capability fields to who filled each: nobody, the
rules or the model. `RulesFill` is `MockEnricher`, `Merge` and `Inferred` are
`ClientEnricher` (the rules as the base of a usable answer and in place of an
unusable one), `SubtractKnown` and `StatusAfterEnrichment` are what
`enrichCandidates` makes of it. `LetThrough` is what `subtractKnown` does not look at:
the subtype, for which the model is asked, stands there for the owner, schemas and
metadata as well, which it might answer unasked.

State of `SeedRun`: `place`, `doc`, `kind`, `listed` and `skipped` are where
`agentctl` is in its script; `handlers[h]` holds the locals of a request in
`runImport` or `RecommendComposition`: the candidate whose call is under way, those
enriched (`batch`) and how many of them are stored, how long the call and the request
have lasted, and whether its client has gone; `stored` is the table of candidates, and
`driver` which store the server was started with.

`StartRun`, `Send`, `List`, `Register`, `NextType`, `Draft`, `CallFails` and `GiveUp`
are the client; `Replied`, `FallBack`, `Store`, `Fail` and `Answer` the server. An
import makes one call to the endpoint per candidate and stores the first only after
the last call. `Tick` lets time pass, for everybody, and only while the endpoint keeps
all that is under way waiting. `GiveUp` is the client's timeout: the server cancels
the request's context, which ends the endpoint's calls at once (`FallBack`) and stops
Postgres but not the memory store, so that the abandoned import may go on storing
beside the next run's (`Store`).

Abstractions. Registration is one step: what may happen inside it is
`CandidateRegistry`. Values are who filled a field. The second timeout of 60 seconds,
the server's write timeout, is the client's here, since they are equal. The drafts and
the recommendation's own result are `Composition`.

### Servers

State: `reachable`, `bookkeeping` and `recorded` are the database: whether it
answers, whether `schema_migrations` exists, and its committed rows. `phase[s]` is the
statement server `s` is about to run, or `serve`, `drain`, `close`, `off`; `at[s]` the
migration its loop is at; `tries[s]` the pings that failed. `request`, `home` and
`calls` are the requests, the server each is on and the repository calls it has left.
`commits` and `hasty` are history variables.

`Ping` to `CommitMigration` are the statements of `NewPostgres` and `Migrate`, one
action each; `Listen` is `ListenAndServe`. What Postgres does between two of them is
external: `CREATE TABLE IF NOT EXISTS` may lose a race and fail, a transaction waits
for the one that has the version's objects or its row (`Busy`), the primary key
refuses a version recorded meanwhile, a lost session is rolled back, and a commit whose
answer is lost may have happened (`GiveUp`). `Accept`, `Acquire`, `Release`, `Answer`
and `AnswerPoolClosed` are the life of a request: each repository call takes a
connection from the pool and returns it before the next. `Signal`, `Shutdown`,
`Drained`, `OutOfTime` and `Exit` are the end of `run`; `Crash` is any other.

`Deployment` keeps of this the migrations in effect, whether each server is away,
open, draining or closing, and what became of each request. `ServersRefinement` maps
`Servers` to it: a server that starts is away, a request is open from `Accept` to its
end whatever it waits for, and a migration takes effect at its commit.

Abstractions. What a request computes is in the other modules; here it is a number of
calls. A migration's objects commit with its row. A port that is taken is a
`StartFails`. Servers on the in-memory store share nothing and are left out.

## Runs

| run | specification | shows |
|---|---|---|
| `candidates_concurrent` | `SpecWatched`, 2 candidates, 2 handlers, 3 ids, 1 failure | `TypeOK`, `UniqueKeys`, `ClaimIsFaithful`, `ClaimsAreExclusive`, `GapsAskForReview` need no discipline; `ImplementsLifecycle`, `OrphansNeedAFailure` until decisions on one candidate overlap |
| `candidates_terminal` | `SpecWatched`, no failure | violation: two reviewers take a candidate out of a terminal status |
| `links` | `Spec`, 4 capabilities, 2 handlers, 1 put or failure, page of 3 | `TypeOK`, `EdgesAreDeclared`, `ReferencesAreKept`, `RelinkRepairs`, `PutsAreKept`, `PendingGetsLinked` |
| `links_overlapping` | `Spec`, registrations only, no put or failure | violation: two registrations overwrite each other's links |
| `compose_and_validate` | `Spec`, 4 capabilities, 3 roles, 1 change, 1 failure, 1 draft, page of 3 | `TypeOK`, `PlanIsClosed`, `PlanHasNoStrangers`, `RecommendationValidates`, `ValidMeansSound`, `GovernanceCovers`, `MatchingIsSound`, `RequestsEnd` |
| `drafts_concurrent` | `Spec`, 1 draft, 2 handlers, 1 failure | `TypeOK`, `DocumentMatchesAtRest`, `EditsSurvive`, `DocumentCatchesUp` |
| `imports_concurrent` | `Spec`, 3 uploads, 2 sources, 2 handlers, 1 decision, 1 failure | `TypeOK`, `ImportsShareASource`, `ReferencesFollowTargets`, `AnsweredIsStored`, `LastImportShows`, `StepsFollowTheFlow` |
| `imports_first_use` | `Spec`, same instance, no failure | violation: the second to use a new source is refused |
| `imports_looping` | `Spec`, same instance, no failure | violation: steps of a looping application are not in document order |
| `servers_start` | `Spec`, 2 servers, 2 migrations, 2 requests, pool of 1, 1 failure | `TypeOK`, `MigrationsAreExact`, `StopsAreGraceful`, `ImplementsDeployment`, `StartsAndStopsEnd` |
| `seed` | `Spec`, 4 candidates in 2 documents, 2 handlers, 2 runs of agentctl, 1 failure, both stores | `TypeOK`, `EnrichmentIsContained`, `SeedIsComplete`, `SlowEndpointIsSurvived` |
| `seed_long_document` | `Spec`, the same in 1 document, 1 run, no failure | violation: a hung endpoint breaks the demo |

Bounds of the candidate runs. Two candidates whose slugs can collide (`c1`
renamed to `n2` meets `c2`), two requests that race, three ids so that both can
be registered next to a posted capability, and one failure; `c1` can be exported
with and without its intents and a reviewer can supply them, so a candidate can
become complete and incomplete again. Ids and handlers are symmetric: nothing
orders or names them.

Bounds of the linking runs. An app that needs a tool and a dataset; a skill
that carries the tool's external id with the wrong type; a dataset that names
itself. Four capabilities with a page of three put one capability beyond
`MaxLimit`. One mishap, a `PUT` or a death, at any point of two overlapping
requests (`MaxMishaps`); `overlapped` keeps apart what overlapping breaks, so that
the same run has both the serial and the concurrent promises. The system may stop when
everything is registered, hence `CHECK_DEADLOCK FALSE` there; the candidate runs
never stop because imports and puts go on.

Bounds of the composition runs. An agent bound to a tool, a tool and a feed
bound to each other (a cycle), and a helper that is a step of the agent and serves the
whole goal just well enough, for its words and its domain; the feed has words only and
is too weak for its role. The runs start from every registry in which each of them is
absent or active or, for what the closure alone brings in, deprecated. A page of three
leaves one of four active capabilities out. One change and one failure at any point of
the session reach every line of the loops; the proofs cover any number. The session
may stop, hence `CHECK_DEADLOCK FALSE`.

Bounds of the draft run. Two edits of one draft at a time, any number one after
the other: of the status, of name and status, of nothing, and one whose status is
unknown; one failure at either write. The system never stops, because edits go on.

Bounds of the import runs. Two Dify applications and a manual document, for one
name: two sources, because their types differ. One application is drawn in another
order than it runs and has a node on its default title; the other loops, is its own
skill's namesake and shares a tool with the first, so that an id changes its type and
its references between imports. One decision and one failure at any point; a third
import would only repeat what the two do to a source. The system never stops,
because imports go on.

Bounds of the server run. Two servers race through two migrations, so that one may be
overtaken at each statement of each; a pool of one connection and a request of two
calls beside one of one make connections scarce; one failed call or crash at any point.
Two attempts to reach the database. Servers that were told to stop stay away, so the
system may stop.

Bounds of the seed runs. A tool in the first document; a dataset whose text says
nothing, a second tool that would get the first one's key and a flow that comes almost
complete in the second. The endpoint's timeout is one tick and the client's patience
three, as 20 and 60 seconds are: one candidate is survived, three may just use the
patience up, and the four of `LongDocument` exceed it, as the six of the example
application do. Two runs with two handlers have a retry beside an abandoned request;
the handlers are symmetric. Whoever runs `agentctl` may stop, hence `CHECK_DEADLOCK FALSE`.

Fairness. `PendingGetsLinked`, `RequestsEnd` and `DocumentCatchesUp` need weak fairness
of `Proceed`, the next call of a request that is under way. net/http runs a request's
goroutine to its end, and every call either returns or is a `Fail`. Nothing forces a
client to send a request. (`WF_handlers` in `DependencyLinking` is the same: each
`Proceed` changes what its request holds.) `StartsAndStopsEnd` needs weak fairness of a
server's next statement, of the end of a stop and of what a request does once it has
its connection, and strong fairness of `Acquire`: the pool of pgx hands connections out
in the order of the requests for them, so nobody waits while others get one again and
again. Nothing forces anybody to start or stop a server, and the database need not
come up.

## What the violations show

* `candidates_terminal`: A registers a candidate while B reviews it. B read it
  pending and its `Update` puts the pending status back over `registered`
  (`registry/candidate_service.go:79`), although `domain/enums.go:52-53` calls
  both outcomes terminal.
* `links_overlapping`: `RelinkPending` works on a snapshot; two of them overwrite
  each other's edges and pending lists, and nothing is left to retry.
* `imports_first_use`: `EnsureByName` is a `SELECT` and an `INSERT` without `ON
  CONFLICT` (`store/source_repo.go:59-69`). Who loses the race for a new name gets a
  conflict, which the import answers as a parse error, although `store/store.go:79`
  promises the existing source. The memory store keeps the promise.
* `imports_looping`: `OrderedSteps` "falls back to document order if the edges do not
  form a single path" (`adapters/dify/dsl_parser.go:236-238`). The code follows the
  first edge of every node as far as that leads and falls back only if it met no step
  (lines 257-277). The desk, whose edges run d3, d2, d1 and back to d2, is stored as
  [Crm, Desk], and drawn as [Desk, Crm]. At a branch it is the same, and the steps of
  the other branch are left out. What holds is `StepsFollowTheFlow`.
* `seed_long_document`: `enrichCandidates` calls the endpoint for one candidate after
  the other, each for up to 20 seconds, before anything is stored. Past 60 seconds
  `agentctl` and the server's write timeout give up: the demo breaks at the document,
  nothing of it is stored on Postgres, and a retry meets the same. The comments of
  `llm/client.go:40` and `llm/capability_enricher.go:36` promise otherwise. What does
  hold is `SlowEndpointIsSurvived`: no other documents are affected.

Some properties of the passing runs do not deny a hazard but bound it, because the
code has it: `ReferencesAreKept`, `RelinkRepairs`, `GovernanceCovers`, `EditsSurvive`,
`LastImportShows`, `SeedIsComplete` and `EnrichmentIsContained` say exactly which
interleavings, failures or fields may cost something, and that no other does.
`EdgesAreDeclared` says that relinks which overwrite each other at least invent nothing.

Met while modelling, without a run of their own:

* A re-import takes over the status computed from extraction and inference and keeps
  the review layer (`store/candidate_repo.go:54`), so a candidate that a review
  completed (`registry/candidate_service.go:74`) is `needs_review` again.
* `GenerateDraft` copies `plan.Governance` from the request
  (`engine/draft_generator.go:59`), although `domain/composition.go:142` says it is
  derived: after a capability is removed in the console the draft still asks for its
  approvals. It never asks for too little unless a capability was changed
  (`GovernanceCovers`).
* `POST /capabilities` does not relink, so that an app that waits for a posted tool
  waits for the next registration of any candidate.
* `writeImportResult` answers every error of an import as 400 `PARSE_ERROR`, a lost
  database included.
* "Anything the adapter extracted stays authoritative"
  (`engine/capability_extraction.go:12-14`), but a subtype does not: the model is asked
  for one (`llm/prompt_templates.go:12`), `subtractKnown` does not compare it (57-81),
  and `Merge` lets the inferred one win (`domain/capability_candidate.go:34-36`). The
  `seed` run has a tool with an extracted subtype that is overridden in this way.
  `EnrichmentIsContained` therefore states the weaker fact that holds: this happens to
  no field but those of `LetThrough`.
* A re-import with a hung endpoint replaces what the model inferred by what the rules say.
* Of two servers that migrate a new database together one usually fails its start; it
  serves when it is started again.

## Proofs

All for every value of the constants, from the modules' named assumptions
(`ConstantsAssumption`, `NoneAssumption`, `LinkingAssumption`, `MatchingAssumption`,
`CompositionAssumption`, `DraftsAssumption`, `IngestionAssumption`, `DifyAssumption`,
`EnrichmentAssumption`, `SeedRunAssumption`, `ServersAssumption`).

* `CandidateProofs`: `RegistryInv` is `TypeOK`, `UniqueKeys`, `ClaimIsFaithful`,
  `ClaimsAreExclusive` and `GapsAskForReview`, strengthened by what handlers
  hold: a record about to be written claims nothing and asks for review if it has
  a gap (`HoldsUnclaimed`), and a capability about to be claimed was made from
  that record and nobody else holds or claims it (`HoldsFreshCapability`).
  Without these a stale write could break the tables' invariants. The proof has
  one step per action.

  `LifecycleImplemented` is that every step of `SpecWatched` before decisions on one
  candidate overlap is, under the mapping of `CandidateRefinement`, a step of
  `CandidateLifecycle` or none. Such a step keeps to one reviewer per candidate
  (`UnlessOverlapped`), and then what that one holds is still current (`RejectionIsCurrent`, `ReviewIsCurrent`,
  `RegistrationIsCurrent`): imports may refresh the candidate meanwhile but
  change neither its review layer nor its being undecided. From the same invariant
  follows `OrphansNeedAFailure`: what a decision under way will overwrite has no claim
  yet (`UnclaimedWhileDecided`), so a capability once claimed stays claimed (`Owned`).
  `DecisionsAreFinal` is the action property `TerminalIsFinal`, which the run
  `candidates_terminal` violates, for the steps before decisions overlap: the lifecycle
  has it step by step (`LifecycleIsFinal`), and the mapping carries it over.
* `DependencyLinkingProofs`: `LinkingInv` strengthens `EdgesAreDeclared` with
  what pending lists and requests under way hold, and with the order of rows that
  makes the lookup's `CHOOSE` well defined. The argument is that registered
  capabilities stay registered, so a stale snapshot can only miss an edge. `PutsAreKept`
  adds that a copy in a request's hands is current or its capability is raced. For
  `ReferencesAreKept`, `KeptInv` says what the one request under way accounts for
  (`HoldsReferences`): each reference of its capability is still to be looked up, or
  unresolved, or among the targets it is about to store, and after the `Store` an edge;
  its snapshot still has all that is pending on the capabilities that remain. The
  reference that leads back to its own capability keeps doing so, because later rows
  are younger (`SelfStays`). For `RelinkRepairs`, `RepairInv` says that a relink leaves
  settled capabilities behind: of those of the page that are neither its current one
  nor still to come, nothing pending could be resolved (`HoldsRepairs`).
* `CompositionProofs`: every safety invariant of `Composition`, from
  `CompositionInv`. `WalkIsSound` is the closure's loop invariant: a selected
  capability is still queued, or is the current one with edges left to follow, or
  has its lasting needs in the plan; everything selected is in every closed set
  that contains what matched. `CheckIsSound` is the validation's: no findings so far
  means that what was looked up is there, was active and has what it needs.
  `QuietIsCurrent` is what a session knows when nobody interferes. `ContinueIsSound`
  and `ConcludeIsSound` show once what a turn of each loop establishes;
  `ChangeKeepsWalk` shows that others' changes only shrink what was always there and
  enlarge what was ever there. Of `Matching`, `MatchesNeedEvidence` bounds the weighted
  sum by cases of which hits there are, and `BestMatchExists` finds a best match on
  every page on which something serves, by the well-founded order of the scores.
  `RequestsRunOut` is the part of `RequestsEnd` that is not liveness, for finitely many
  capabilities and dependencies: `CallsRunOut`, that every call of a walk or a
  validation lowers a bound on its calls and nobody else raises it. For the walk the
  bound counts, in this order, the capabilities outside the plan, those in the queue and
  the edges left to follow; it needs that edges left to follow lead out of the plan
  (`LeadsOut`).
* `DraftsProofs`: every safety invariant of `Drafts`. A record in a request's
  hands is sound (`HandlersHold`); a stale document has a request about to save it,
  and that is why it need not be the request that made it stale
  (`StaleIsPending`); and where edits do not overlap, the record in hand is the
  answered fields with the edit on top (`EditIsCurrent`).
* `IngestionProofs`: every safety invariant of `Ingestion`. Nothing is taken away
  (`Grows`), so what an import has found and stored (`HandlersHold`) is still there
  when it is answered (`AnsweredHold`); two sources never have the same name and type
  (`TablesHold`), whoever inserted them; an import alone in its source shows the part
  of the upload that it has stored (`ImportShows`). `ContinueStep` and `ContinueShows`
  say once what follows every call. `ReferencesFollow` has the hypothesis
  `TargetsFirst`, that uploads name targets before what refers to them: then the
  prefix that an import has stored holds every target of the next candidate.
* `DifyProofs`: what `Map` makes of every application, and so `TargetsFirst` itself
  (`UploadsNameTargetsFirst`) and `ReferencesAlwaysFollow`, without the hypothesis.
  Lists that name their own targets first stay so when they are joined, provided the
  second one's other targets are in the first (`JoinedNamesTargetsFirst`); the lists
  of `Map` are joined in that order. `StepsAreInOrder` is about the walk: after any
  number of turns it is a way through the graph (no node twice, along edges), and
  where the edges form a single path it is as long as the graph has nodes, because it
  agrees with that path at every position. Of other graphs nothing is proved: the
  code's comment promises document order there, and breaks the promise. `StepsAlwaysFollow` carries it to the
  tables: every stored row comes from an upload of its source's type
  (`RowsAreUploaded`), at any point of any interleaving. Induction over the data is
  done on sets: what is true of 0 and goes from n to n + 1 is a set of numbers
  (`SetInduction`), and a loop is a function given by its recursion (`Recursion`), so
  that no theorem with an operator parameter is needed.
* `ServersProofs`: every safety invariant of `Servers`. Who is past the check of a
  version has all earlier ones recorded (`MigrationInv`), and only the holder of a
  version's open transaction can commit it, which it does not find recorded; a request
  that is under way is on a server that has not left (`Life`). `DeploymentImplemented` is
  the refinement: of all the statements of a start only the commit of a version, with
  all earlier ones in effect, is a step of `Deployment`, and `Listen` opens because by then
  the loop is past the last one.
* `SeedRunProofs`: every safety invariant of `SeedRun`. What a request holds was
  enriched by the rules or the model (`HandlersAreSound`), and of the fields extracted
  only those that `subtractKnown` lets through, a subtype, are inferred over (`Limited`); what it has saved is stored
  (`SavedIsStored`), `agentctl` has at most one request that it waits for
  (`OneRequest`), for the document it is at (`InOrder`); documents behind it are stored
  (`Imported`) and types behind it dealt with (`Dealt`). `InTime` relates the time a
  request has taken to the calls it has made, and `FailedInTime` keeps that for the run
  after the request is gone.

Only model-checked: liveness (`PendingGetsLinked`, `RequestsEnd`, `DocumentCatchesUp`,
`StartsAndStopsEnd`), which is out of the prover's reach; of `RequestsEnd` the bound on
the calls is proved. Every invariant and every refinement that a run checks is proved.

## Plan

1. Abstract specifications for `Ingestion` (an import as one step on the tables, where
   imports do not overlap) and `Drafts` (an edit as one step), as `CandidateLifecycle` and
   `Deployment` are for theirs.
2. The conversions of the manual, MCP and data adapters as pure functions, composed
   with `Ingestion` as `DifyMapping` is.
3. The in-memory store's own behaviour: metadata maps that records share, sources that
   `POST` makes twice, drafts lost at a restart.

Not modelled: rendering of documents, HTTP envelopes and routes, configuration and
prompts, which hold no state and make no decision that the models depend on; the
console, whose pages keep no state of the server's; the Dify API client, which is a
placeholder in the code.
