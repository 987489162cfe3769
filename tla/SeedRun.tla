------------------------------- MODULE SeedRun -------------------------------
(***************************************************************************)
(* agentctl demo against a composer-server whose enricher asks a model:    *)
(* the client's script (cmd/agentctl), the request goroutines that serve   *)
(* it (runImport, RegisterCandidate and RecommendComposition of            *)
(* internal/engine, ClientEnricher of internal/llm), and the endpoint.     *)
(*                                                                         *)
(* An import enriches its candidates one after the other, one call to the  *)
(* endpoint each, before it stores the first.  Time passes only while the  *)
(* endpoint keeps a request waiting: local work and the database take      *)
(* none.  A call is given up after LLMTimeout, a request after Patience    *)
(* (the client's timeout and the server's write timeout, both 60 s).       *)
(***************************************************************************)
EXTENDS Enrichment

CONSTANTS
    Documents,      \* the documents the script imports, in order
    TypeOf,         \* TypeOf[c]: the capability type of a candidate
    Key,            \* Key[c]: the type and slug it would be registered under
    Replies,        \* the sets of fields the model's usable answers fill
    LLMTimeout,     \* cfg.LLM.Timeout, in ticks
    Patience,       \* httpComposer's client timeout, in ticks
    Handlers,       \* request goroutines
    MaxRuns,        \* bound on the runs of agentctl
    MaxFailures     \* bound on the repository calls and requests that fail

(* registerAll: tools and datasets go first.                               *)
Order == <<"tool", "knowledge_data", "prompt_template", "skill", "workflow", "agent", "policy">>

Script == DOMAIN Documents

(* What a request is for: one of the documents, or (0) the goal.           *)
Jobs == {0} \cup Script

ASSUME SeedRunAssumption ==
    /\ Documents \in Seq(Seq(Candidates))
    /\ TypeOf \in [Candidates -> {"tool", "knowledge_data", "prompt_template", "skill",
                                  "workflow", "agent", "policy"}]
    /\ DOMAIN Key = Candidates
    /\ Replies \subseteq SUBSET Fields
    /\ LLMTimeout \in Nat \ {0}
    /\ Patience \in Nat \ {0}
    /\ MaxRuns \in Nat
    /\ MaxFailures \in Nat
    /\ None \notin Handlers

(* A candidate of the store.                                               *)
Record == [inferred : Block, status : PendingStatuses \cup {"registered"}]

ASSUME NoneAssumption == None \notin Record

Handler == [phase   : {"idle", "call", "store", "answer"},
            job     : Jobs,
            next    : Nat,              \* the candidate in the endpoint's hands
            batch   : Seq(Record),      \* those enriched so far
            saved   : Nat,              \* how many of them are stored
            waited  : 0..LLMTimeout,    \* by the current call
            elapsed : 0..Patience,      \* since the request came
            left    : BOOLEAN]          \* the client has gone

Places == {"idle", "import", "list", "register", "recommend", "draft", "done", "failed"}

VARIABLES
    driver,     \* the store of the server: "postgres" or "memory"
    place,      \* where agentctl is in its script
    doc,        \* the document it is importing
    kind,       \* the place in Order of the type it is registering
    listed,     \* the pending candidates of that type it still has to register
    skipped,    \* those it has skipped in this run
    serving,    \* the goroutine that serves its request, if one does
    handlers,   \* what each request goroutine holds
    stored,     \* stored[c]: the row of capability_candidates, if any
    runs,       \* number of runs of agentctl
    failures    \* number of failures

ctlVars == <<place, doc, kind, listed, skipped, runs>>
vars == <<driver, ctlVars, serving, handlers, stored, failures>>

-----------------------------------------------------------------------------
Idle == [phase |-> "idle", job |-> 0, next |-> 1, batch |-> <<>>, saved |-> 0,
         waited |-> 0, elapsed |-> 0, left |-> FALSE]

At(h, phase) == handlers[h].phase = phase

Goto(h, state) == handlers' = [handlers EXCEPT ![h] = state]

(* How many calls to the endpoint a request makes: one for a goal, one for *)
(* each candidate of a document.                                           *)
Calls(job) == IF job = 0 THEN 1 ELSE Len(Documents[job])

Pending == {c \in Candidates : stored[c] # None /\ stored[c].status # "registered"}

Registered == {c \in Candidates : stored[c] # None /\ stored[c].status = "registered"}

OfType(k) == {c \in Pending : TypeOf[c] = Order[k]}

Init ==
    /\ driver \in {"postgres", "memory"}
    /\ place = "idle" /\ doc = 1 /\ kind = 1 /\ listed = {} /\ skipped = {}
    /\ serving = None
    /\ handlers = [h \in Handlers |-> Idle]
    /\ stored = [c \in Candidates |-> None]
    /\ runs = 0 /\ failures = 0

-----------------------------------------------------------------------------
(* agentctl.                                                               *)

(* demo begins with seed's first document.                                 *)
StartRun ==
    /\ place \in {"idle", "done", "failed"}
    /\ runs < MaxRuns
    /\ runs' = runs + 1
    /\ place' = IF Documents = <<>> THEN "list" ELSE "import"
    /\ doc' = 1 /\ kind' = 1 /\ listed' = {} /\ skipped' = {}
    /\ UNCHANGED <<driver, serving, handlers, stored, failures>>

(* POST /import/... or /compositions/recommend.  The first call to the     *)
(* endpoint is under way at once; a document without candidates has none.  *)
Send(h) ==
    /\ place \in {"import", "recommend"}
    /\ serving = None
    /\ At(h, "idle")
    /\ serving' = h
    /\ LET job == IF place = "import" THEN doc ELSE 0
       IN  Goto(h, [Idle EXCEPT !.job = job,
                                !.phase = IF Calls(job) = 0 THEN "answer" ELSE "call"])
    /\ UNCHANGED <<driver, ctlVars, stored, failures>>

(* registerAll lists the candidates of the next type and registers those   *)
(* that are pending; after the last type the demo asks for a composition.  *)
List ==
    /\ place = "list"
    /\ IF kind > Len(Order)
       THEN place' = "recommend" /\ UNCHANGED <<kind, listed>>
       ELSE place' = "register" /\ listed' = OfType(kind) /\ kind' = kind
    /\ UNCHANGED <<driver, doc, skipped, runs, serving, handlers, stored, failures>>

(* POST /candidates/{id}/register: refused when the candidate is no longer *)
(* pending or its type and slug are taken.  Any error is a skip.           *)
Register(c) ==
    /\ place = "register"
    /\ c \in listed
    /\ listed' = listed \ {c}
    /\ \/ /\ c \in Pending
          /\ \A d \in Registered : Key[d] # Key[c]
          /\ stored' = [stored EXCEPT ![c].status = "registered"]
          /\ UNCHANGED <<skipped, failures>>
       \/ /\ c \notin Pending \/ \E d \in Registered : Key[d] = Key[c]
          /\ skipped' = skipped \cup {c}
          /\ UNCHANGED <<stored, failures>>
       \/ /\ failures < MaxFailures
          /\ failures' = failures + 1
          /\ skipped' = skipped \cup {c}
          /\ UNCHANGED stored
    /\ UNCHANGED <<driver, place, doc, kind, runs, serving, handlers>>

NextType ==
    /\ place = "register"
    /\ listed = {}
    /\ place' = "list"
    /\ kind' = kind + 1
    /\ UNCHANGED <<driver, doc, listed, skipped, runs, serving, handlers, stored, failures>>

(* POST /drafts with the plan that was recommended ends the demo.          *)
Draft ==
    /\ place = "draft"
    /\ place' = "done"
    /\ UNCHANGED <<driver, doc, kind, listed, skipped, runs, serving, handlers, stored, failures>>

(* A list or the draft fails: so does the run.                             *)
CallFails ==
    /\ place \in {"list", "draft"}
    /\ failures < MaxFailures
    /\ failures' = failures + 1
    /\ place' = "failed"
    /\ UNCHANGED <<driver, doc, kind, listed, skipped, runs, serving, handlers, stored>>

(* The client's timeout: the run fails, and the server cancels the context *)
(* of the request.                                                         *)
GiveUp ==
    /\ serving # None
    /\ handlers[serving].elapsed = Patience
    /\ place' = "failed"
    /\ serving' = None
    /\ Goto(serving, [handlers[serving] EXCEPT !.left = TRUE])
    /\ UNCHANGED <<driver, doc, kind, listed, skipped, runs, stored, failures>>

-----------------------------------------------------------------------------
(* The request goroutines.                                                 *)

(* EnrichCandidate or DecomposeGoal returns, with the model's reply or     *)
(* with what the rules say; enrichCandidates goes on to the next.          *)
Returned(s, reply) ==
    IF s.job = 0 THEN [s EXCEPT !.phase = "answer", !.waited = 0]
    ELSE [s EXCEPT !.batch = Append(@, Enriched(Documents[s.job][s.next], reply)),
                   !.waited = 0,
                   !.next = @ + 1,
                   !.phase = IF s.next = Calls(s.job) THEN "store" ELSE "call"]

(* The endpoint answers: something usable, or something that is not.       *)
Replied(h) ==
    /\ At(h, "call")
    /\ ~handlers[h].left
    /\ \E reply \in Replies \cup {None} : Goto(h, Returned(handlers[h], reply))
    /\ UNCHANGED <<driver, ctlVars, serving, stored, failures>>

(* A timed-out call that is simply made again.                             *)
CallAgain(h) ==  \* mutant
    /\ At(h, "call")
    /\ handlers[h].left \/ handlers[h].waited = LLMTimeout
    /\ \/ Goto(h, Returned(handlers[h], None))
       \/ Goto(h, [handlers[h] EXCEPT !.waited = 0])
    /\ UNCHANGED <<driver, ctlVars, serving, stored, failures>>

(* The call is given up, or the context of the request has been cancelled: *)
(* the rules fill in.                                                      *)
FallBack(h) ==
    /\ At(h, "call")
    /\ handlers[h].left \/ handlers[h].waited = LLMTimeout
    /\ Goto(h, Returned(handlers[h], None))
    /\ UNCHANGED <<driver, ctlVars, serving, stored, failures>>

(* Upsert: a registered candidate is kept as it is.                        *)
Upserted(c, new) ==
    IF c \in Registered THEN stored ELSE [stored EXCEPT ![c] = new]

(* A failed Upsert that is only logged: the import goes on.                *)
StoreOrSkip(h) ==  \* mutant
    /\ At(h, "store")
    /\ LET s == handlers[h]
           c == Documents[s.job][s.saved + 1]
           n == [s EXCEPT !.saved = @ + 1,
                          !.phase = IF s.saved + 1 = Len(s.batch) THEN "answer" ELSE "store"]
       IN  /\ Goto(h, n)
           /\ \/ stored' = Upserted(c, s.batch[s.saved + 1]) /\ UNCHANGED failures
              \/ failures < MaxFailures /\ failures' = failures + 1 /\ UNCHANGED stored
    /\ UNCHANGED <<driver, ctlVars, serving>>

(* Once all are enriched they are stored one by one.  The context of a     *)
(* request whose client has gone stops Postgres, not the memory store.     *)
Store(h) ==
    /\ At(h, "store")
    /\ LET s == handlers[h]
       IN  IF s.left /\ driver = "postgres"
           THEN Goto(h, Idle) /\ UNCHANGED stored
           ELSE /\ stored' = Upserted(Documents[s.job][s.saved + 1], s.batch[s.saved + 1])
                /\ Goto(h, [s EXCEPT !.saved = @ + 1,
                                     !.phase = IF s.saved + 1 = Len(s.batch)
                                               THEN "answer" ELSE "store"])
    /\ UNCHANGED <<driver, ctlVars, serving, failures>>

(* A repository call of a request fails: so does the request.              *)
Fail(h) ==
    /\ ~At(h, "idle")
    /\ failures < MaxFailures
    /\ failures' = failures + 1
    /\ Goto(h, Idle)
    /\ IF handlers[h].left THEN UNCHANGED <<place, serving>>
       ELSE place' = "failed" /\ serving' = None
    /\ UNCHANGED <<driver, doc, kind, listed, skipped, runs, stored>>

(* The answer; agentctl goes on with the next document, or with what       *)
(* follows.                                                                *)
Answer(h) ==
    /\ At(h, "answer")
    /\ Goto(h, Idle)
    /\ IF handlers[h].left THEN UNCHANGED <<place, doc, serving>>
       ELSE /\ serving' = None
            /\ IF place = "recommend" THEN place' = "draft" /\ doc' = doc
               ELSE /\ doc' = doc + 1
                    /\ place' = IF doc = Len(Documents) THEN "list" ELSE "import"
    /\ UNCHANGED <<driver, kind, listed, skipped, runs, stored, failures>>

-----------------------------------------------------------------------------
(* Time passes: only while everything that is under way waits for the      *)
(* endpoint, and never past a timeout.                                     *)
NoClientTimeout ==  \* mutant
    /\ serving # None
    /\ \A h \in Handlers :
         ~At(h, "idle") => At(h, "call") /\ ~handlers[h].left /\ handlers[h].elapsed < Patience
    /\ Goto(serving, [handlers[serving] EXCEPT !.waited = @ + 1, !.elapsed = @ + 1])
    /\ UNCHANGED <<driver, ctlVars, serving, stored, failures>>

Tick ==
    /\ serving # None
    /\ \A h \in Handlers :
         ~At(h, "idle") => /\ At(h, "call") /\ ~handlers[h].left
                           /\ handlers[h].waited < LLMTimeout
                           /\ handlers[h].elapsed < Patience
    /\ Goto(serving, [handlers[serving] EXCEPT !.waited = @ + 1, !.elapsed = @ + 1])
    /\ UNCHANGED <<driver, ctlVars, serving, stored, failures>>

Next ==
    \/ StartRun \/ List \/ NextType \/ Draft \/ CallFails \/ GiveUp \/ Tick
    \/ \E c \in Candidates : Register(c)
    \/ \E h \in Handlers :
         \/ Send(h) \/ Replied(h) \/ FallBack(h) \/ Store(h) \/ Fail(h) \/ Answer(h)

Spec == Init /\ [][Next]_vars

-----------------------------------------------------------------------------
(* The locals of agentctl and of runImport, the rows of the store.         *)
TypeOK ==
    /\ driver \in {"postgres", "memory"}
    /\ place \in Places
    /\ doc \in 1..(Len(Documents) + 1)
    /\ kind \in 1..(Len(Order) + 1)
    /\ listed \subseteq Candidates /\ skipped \subseteq Candidates
    /\ serving \in Handlers \cup {None}
    /\ handlers \in [Handlers -> Handler]
    /\ stored \in [Candidates -> Record \cup {None}]
    /\ runs \in Nat /\ failures \in Nat

(* What enrichment may do to a stored candidate, however the endpoint      *)
(* misbehaves and whichever requests were left to themselves.  It does not *)
(* keep all that enrichCandidates says of it, "anything the adapter        *)
(* extracted stays authoritative" (capability_extraction.go:12-14): a      *)
(* model's subtype is let through and wins over the extracted one in Merge *)
(* (capability_candidate.go:34-36).  The departure ends there: no other    *)
(* extracted field is inferred over, and name and dependencies are never   *)
(* inferred at all.  Beside that the candidate is never less complete than *)
(* by the rules alone (capability_enricher.go:79), and marked for review   *)
(* exactly when it has no description or no intents.                       *)
ContainedRecord(c, record) ==
    /\ Filled(record.inferred) \cap Extracted[c] \subseteq LetThrough
    /\ Filled(record.inferred) \cap NeverInferred = {}
    /\ RulesFill(c) \subseteq Extracted[c] \cup Filled(record.inferred)
    /\ record.status # "registered" =>
         (record.status = "needs_review" <=>
            ~({"description", "intents"} \subseteq Extracted[c] \cup Filled(record.inferred)))

EnrichmentIsContained ==
    \A c \in Candidates : stored[c] # None => ContainedRecord(c, stored[c])

(* What agentctl has been told is so: the documents it has got past are    *)
(* stored, and once it recommends, every candidate of the script is        *)
(* registered or was reported as skipped (main.go:182-217).                *)
SeedIsComplete ==
    /\ place \in {"import", "list", "register", "recommend", "draft", "done"} =>
         \A d \in 1..(doc - 1) : \A i \in DOMAIN Documents[d] : stored[Documents[d][i]] # None
    /\ place \in {"recommend", "draft", "done"} =>
         \A d \in Script : \A i \in DOMAIN Documents[d] :
             Documents[d][i] \in Registered \cup skipped

(* A hung endpoint costs a request at most LLMTimeout a call; agentctl     *)
(* only fails for it on a document so long that this exceeds its patience. *)
SlowEndpointIsSurvived ==
    /\ serving # None => handlers[serving].elapsed <= Calls(handlers[serving].job) * LLMTimeout
    /\ place = "failed" /\ failures = 0 =>
         \/ Patience <= LLMTimeout
         \/ doc \in Script /\ Patience <= Calls(doc) * LLMTimeout

(* A hung endpoint must never stall an import or a recommendation          *)
(* (internal/llm/client.go:40); a broken endpoint degrades the output, it  *)
(* never breaks the demo (README.md, Stage 4).                             *)
DemoNeverBreaks == place = "failed" => failures > 0
=============================================================================
