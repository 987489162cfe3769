--------------------------- MODULE SeedRunProofs -----------------------------
(***************************************************************************)
(* For every set of documents, candidates, replies, goroutines and every   *)
(* pair of timeouts: what the store holds is soundly enriched, agentctl    *)
(* leaves nothing out unsaid, and a hung endpoint costs no more than its   *)
(* timeouts.                                                               *)
(*                                                                         *)
(* The invariant says of each goroutine how far it is and how long that    *)
(* can have taken, of the goroutine that serves agentctl that it has what  *)
(* agentctl asked for, and of agentctl which types it has dealt with.      *)
(***************************************************************************)
EXTENDS SeedRun, TLAPS

(* A goroutine holds what it has enriched, soundly, and is where that      *)
(* brings it.                                                              *)
Enriching(s) ==
    /\ s.job = 0 => s.phase \in {"call", "answer"} /\ s.next = 1
    /\ s.job # 0 =>
         /\ s.next = Len(s.batch) + 1
         /\ Len(s.batch) <= Calls(s.job)
         /\ s.phase = "call" => s.next <= Calls(s.job)
         /\ s.phase # "call" => Len(s.batch) = Calls(s.job)
         /\ s.saved <= Len(s.batch)
         /\ s.phase = "store" => s.saved < Len(s.batch)
         /\ s.phase = "answer" => s.saved = Calls(s.job)
         /\ \A i \in 1..Len(s.batch) : ContainedRecord(Documents[s.job][i], s.batch[i])

(* Each call it is done with took LLMTimeout at most.                      *)
InTime(s) ==
    /\ s.phase = "call" => s.elapsed <= (s.next - 1) * LLMTimeout + s.waited
    /\ s.phase # "call" => s.elapsed <= Calls(s.job) * LLMTimeout

HandlersAreSound ==
    \A h \in Handlers : ~At(h, "idle") => Enriching(handlers[h]) /\ InTime(handlers[h])

(* What it counts as saved is in the store.                                *)
SavedIsStored ==
    \A h \in Handlers : ~At(h, "idle") /\ handlers[h].job # 0 =>
        \A i \in 1..handlers[h].saved : stored[Documents[handlers[h].job][i]] # None

(* agentctl waits for one goroutine, which has what it asked for; any      *)
(* other was left.                                                         *)
OneRequest ==
    /\ serving # None =>
         /\ ~At(serving, "idle") /\ ~handlers[serving].left
         /\ place \in {"import", "recommend"}
         /\ handlers[serving].job = IF place = "import" THEN doc ELSE 0
    /\ \A h \in Handlers : ~At(h, "idle") /\ ~handlers[h].left => serving = h

Sequel == {"list", "register", "recommend", "draft", "done"}

InOrder ==
    /\ place = "import" => doc \in Script /\ kind = 1
    /\ place \in Sequel => doc = Len(Documents) + 1
    /\ place = "register" => kind <= Len(Order)
    /\ place \in {"recommend", "draft", "done"} => kind = Len(Order) + 1

Imported ==
    place \in Sequel \cup {"import"} =>
        \A d \in 1..(doc - 1) : \A i \in DOMAIN Documents[d] : stored[Documents[d][i]] # None

(* The candidates of the script whose type agentctl has dealt with.        *)
Dealt ==
    place \in Sequel =>
        \A d \in Script : \A i \in DOMAIN Documents[d] : \A k \in DOMAIN Order :
            LET c == Documents[d][i]
            IN  TypeOf[c] = Order[k] =>
                  /\ k < kind => c \in Registered \cup skipped
                  /\ k = kind /\ place = "register" => c \in Registered \cup skipped \cup listed

FailedInTime ==
    place = "failed" /\ failures = 0 =>
        \/ Patience <= LLMTimeout
        \/ doc \in Script /\ Patience <= Calls(doc) * LLMTimeout

IInv ==
    /\ TypeOK
    /\ HandlersAreSound
    /\ SavedIsStored
    /\ OneRequest
    /\ InOrder
    /\ Imported
    /\ Dealt
    /\ FailedInTime
    /\ EnrichmentIsContained

-----------------------------------------------------------------------------
(* Arithmetic of the timeouts.                                             *)
LEMMA LongerTakesLonger ==
    ASSUME NEW a \in Nat, NEW b \in Nat, NEW t \in Nat, a <= b
    PROVE  a * t <= b * t
<1>1. PICK k \in Nat : b = a + k
  <2>1. b - a \in Nat /\ b = a + (b - a)
    OBVIOUS
  <2> QED
    BY <2>1
<1>2. b * t = a * t + k * t
  BY <1>1
<1>3. k * t \in Nat /\ a * t \in Nat
  OBVIOUS
<1> QED
  BY <1>2, <1>3

LEMMA OneMoreCall ==
    ASSUME NEW n \in Nat \ {0}, NEW t \in Nat
    PROVE  (n - 1) * t + t = n * t /\ (n - 1) * t \in Nat /\ n * t \in Nat
  OBVIOUS

LEMMA CallsAreCounted ==
    ASSUME NEW job \in Jobs
    PROVE  /\ Calls(job) \in Nat
           /\ job # 0 => job \in Script /\ Documents[job] \in Seq(Candidates)
           /\ job # 0 => \A i \in 1..Calls(job) : Documents[job][i] \in Candidates
<1>1. CASE job = 0
  BY <1>1 DEF Calls
<1>2. CASE job # 0
  <2>1. job \in Script
    BY <1>2 DEF Jobs
  <2>2. Documents[job] \in Seq(Candidates)
    BY <2>1, SeedRunAssumption DEF Script
  <2> QED
    BY <1>2, <2>1, <2>2 DEF Calls
<1> QED
  BY <1>1, <1>2

-----------------------------------------------------------------------------
(* Enrichment: whatever the model answers, what the rules fill stays       *)
(* filled, nothing extracted is inferred over but what subtractKnown lets  *)
(* through, and the status follows.                                        *)
Limited(c, block) ==
    /\ Filled(block) \cap Extracted[c] \subseteq LetThrough
    /\ Filled(block) \cap NeverInferred = {}

LEMMA InferredIsBlock ==
    ASSUME NEW c \in Candidates, NEW reply
    PROVE  /\ Inferred(c, reply) \in Block
           /\ Limited(c, Inferred(c, reply))
           /\ RulesFill(c) \subseteq Extracted[c] \cup Filled(Inferred(c, reply))
<1> DEFINE base == IF reply = None THEN FromRules(c) ELSE Merge(FromRules(c), reply)
<1>1. FromRules(c) \in Block /\ \A f \in RulesFill(c) : FromRules(c)[f] = "rules"
  BY DEF FromRules, Block, RulesFill, Fields, Compared
<1>2. base \in Block /\ \A f \in RulesFill(c) : base[f] # "nobody"
  <2>1. CASE reply = None
    BY <1>1, <2>1
  <2>2. CASE reply # None
    <3>1. RulesFill(c) \subseteq Fields
      BY DEF RulesFill, Fields, Compared
    <3> QED
      BY <1>1, <2>2, <3>1 DEF Merge, Block
  <2> QED
    BY <2>1, <2>2
<1>3. Inferred(c, reply) = SubtractKnown(c, base)
  BY DEF Inferred
<1>4. RulesFill(c) \subseteq Compared /\ Compared \cap NeverInferred = {}
  BY DEF RulesFill, Compared, NeverInferred
<1>5. Compared \subseteq Fields
  BY DEF Fields
<1> HIDE DEF base
<1>6. Inferred(c, reply) \in Block
  BY <1>2, <1>3 DEF SubtractKnown, Block
<1>7. Limited(c, Inferred(c, reply))
  <2>1. Filled(Inferred(c, reply)) \cap (NeverInferred \cup (Compared \cap Extracted[c])) = {}
    BY <1>3 DEF SubtractKnown, Filled
  <2>2. Filled(Inferred(c, reply)) \subseteq Compared \cup NeverInferred \cup LetThrough
    BY DEF Filled, Fields
  <2> QED
    BY <2>1, <2>2 DEF Limited
<1>8. RulesFill(c) \subseteq Extracted[c] \cup Filled(Inferred(c, reply))
  BY <1>2, <1>3, <1>4, <1>5 DEF SubtractKnown, Filled
<1> QED
  BY <1>6, <1>7, <1>8

LEMMA EnrichedIsSound ==
    ASSUME NEW c \in Candidates, NEW reply
    PROVE  Enriched(c, reply) \in Record /\ ContainedRecord(c, Enriched(c, reply))
<1> DEFINE block == Inferred(c, reply)
<1> DEFINE status == StatusAfterEnrichment(c, block)
<1>1. Enriched(c, reply) = [inferred |-> block, status |-> status]
  BY DEF Enriched
<1>2. status \in PendingStatuses
  BY DEF StatusAfterEnrichment, PendingStatuses
<1>3. status = "needs_review"
        <=> ~({"description", "intents"} \subseteq Extracted[c] \cup Filled(block))
  BY DEF StatusAfterEnrichment
<1>4. block \in Block
  BY InferredIsBlock
<1> HIDE DEF block, status
<1>5. Enriched(c, reply) \in Record
  BY <1>1, <1>2, <1>4 DEF Record
<1>6. ContainedRecord(c, Enriched(c, reply))
  <2>1. /\ Limited(c, block)
        /\ RulesFill(c) \subseteq Extracted[c] \cup Filled(block)
    BY InferredIsBlock DEF block
  <2> QED
    BY <1>1, <1>3, <2>1 DEF ContainedRecord, Limited
<1> QED
  BY <1>5, <1>6

-----------------------------------------------------------------------------
(* What a step of one goroutine leaves of the invariant.                   *)
LEMMA GotoKeepsSound ==
    ASSUME TypeOK, HandlersAreSound, NEW h \in Handlers, NEW s \in Handler,
           Goto(h, s), s.phase # "idle" => Enriching(s) /\ InTime(s)
    PROVE  /\ handlers' \in [Handlers -> Handler]
           /\ HandlersAreSound'
           /\ handlers'[h] = s
           /\ \A g \in Handlers \ {h} : handlers'[g] = handlers[g]
<1>1. /\ handlers' \in [Handlers -> Handler]
      /\ handlers'[h] = s
      /\ \A g \in Handlers \ {h} : handlers'[g] = handlers[g]
  BY DEF Goto, TypeOK
<1>2. ASSUME NEW g \in Handlers, handlers'[g].phase # "idle"
      PROVE  Enriching(handlers'[g]) /\ InTime(handlers'[g])
  BY <1>1, <1>2 DEF HandlersAreSound, At
<1> QED
  BY <1>1, <1>2 DEF HandlersAreSound, At

LEMMA IdleIsHandler == Idle \in Handler
  BY SeedRunAssumption DEF Idle, Handler, Jobs, Record

LEMMA HandlersKept ==
    ASSUME IInv, UNCHANGED handlers
    PROVE  handlers' \in [Handlers -> Handler] /\ HandlersAreSound'
  BY DEF IInv, TypeOK, HandlersAreSound, At

(* The store only grows, and what is registered stays so.                  *)
Grows ==
    /\ \A c \in Candidates : stored[c] # None => stored'[c] # None
    /\ Registered \subseteq Registered'

LEMMA UnchangedGrows ==
    ASSUME UNCHANGED stored
    PROVE  Grows
  BY DEF Grows, Registered

(* A candidate of the script is one of Candidates.                         *)
LEMMA ScriptHasCandidates ==
    ASSUME NEW d \in Script, NEW i \in DOMAIN Documents[d]
    PROVE  Documents[d][i] \in Candidates
  BY SeedRunAssumption DEF Script

LEMMA ScriptIsCounted ==
    /\ Script = 1..Len(Documents)
    /\ Len(Documents) \in Nat
    /\ \A d \in Script : DOMAIN Documents[d] = 1..Calls(d) /\ Calls(d) \in Nat /\ d # 0
<1>1. Script = 1..Len(Documents) /\ Len(Documents) \in Nat
  BY SeedRunAssumption DEF Script
<1>2. ASSUME NEW d \in Script
      PROVE  DOMAIN Documents[d] = 1..Calls(d) /\ Calls(d) \in Nat /\ d # 0
  <2>1. Documents[d] \in Seq(Candidates) /\ d # 0
    BY <1>1, SeedRunAssumption DEF Script
  <2> QED
    BY <2>1 DEF Calls
<1> QED
  BY <1>1, <1>2

(* SavedIsStored, Imported and Dealt survive a growing store when nothing  *)
(* they count on changes.                                                  *)
LEMMA SavedOf ==
    ASSUME IInv, Grows, NEW h \in Handlers, handlers[h].phase # "idle", handlers[h].job # 0,
           NEW i \in 1..handlers[h].saved
    PROVE  stored'[Documents[handlers[h].job][i]] # None
<1>1. handlers[h] \in Handler /\ Enriching(handlers[h])
  BY DEF IInv, TypeOK, HandlersAreSound, At
<1>2. Documents[handlers[h].job][i] \in Candidates
  <2>1. handlers[h].job \in Jobs /\ handlers[h].saved \in Nat
    BY <1>1 DEF Handler
  <2>2. Len(handlers[h].batch) \in Nat
    BY <1>1 DEF Handler
  <2>3. handlers[h].saved <= Calls(handlers[h].job)
    BY <1>1, <2>1, <2>2, CallsAreCounted DEF Enriching
  <2> QED
    BY <2>1, <2>3, CallsAreCounted
<1> QED
  BY <1>2 DEF IInv, SavedIsStored, At, Grows

LEMMA SavedKept ==
    ASSUME IInv, Grows, UNCHANGED handlers
    PROVE  SavedIsStored'
  BY SavedOf DEF SavedIsStored, At

LEMMA SavedKeptBy ==
    ASSUME IInv, Grows, NEW h \in Handlers,
           \A g \in Handlers \ {h} : handlers'[g] = handlers[g],
           \/ handlers'[h].phase = "idle"
           \/ /\ handlers[h].phase # "idle"
              /\ handlers'[h].job = handlers[h].job /\ handlers'[h].saved = handlers[h].saved
    PROVE  SavedIsStored'
<1> SUFFICES ASSUME NEW g \in Handlers, handlers'[g].phase # "idle", handlers'[g].job # 0,
                    NEW i \in 1..handlers'[g].saved
             PROVE  stored'[Documents[handlers'[g].job][i]] # None
  BY DEF SavedIsStored, At
<1>1. /\ handlers[g].phase # "idle" /\ handlers'[g].job = handlers[g].job
      /\ handlers'[g].saved = handlers[g].saved
  OBVIOUS
<1> QED
  BY <1>1, SavedOf

LEMMA ImportedKept ==
    ASSUME IInv, Grows, UNCHANGED doc, place' \in Sequel \cup {"import"},
           place \in Sequel \cup {"import"}
    PROVE  Imported'
<1> SUFFICES ASSUME NEW d \in 1..(doc - 1), NEW i \in DOMAIN Documents[d]
             PROVE  stored'[Documents[d][i]] # None
  BY DEF Imported
<1>1. d \in Script
  BY ScriptIsCounted DEF IInv, TypeOK
<1>2. stored[Documents[d][i]] # None
  BY DEF IInv, Imported
<1> QED
  BY <1>1, <1>2, ScriptHasCandidates DEF Grows

LEMMA DealtKept ==
    ASSUME IInv, Grows, UNCHANGED <<kind, listed>>, skipped \subseteq skipped',
           place \in Sequel, place' \in Sequel, place' = "register" => place = "register"
    PROVE  Dealt'
<1> SUFFICES ASSUME NEW d \in Script, NEW i \in DOMAIN Documents[d], NEW k \in DOMAIN Order,
                    TypeOf[Documents[d][i]] = Order[k]
             PROVE  LET c == Documents[d][i]
                    IN  /\ k < kind => c \in Registered' \cup skipped'
                        /\ k = kind /\ place' = "register" =>
                             c \in Registered' \cup skipped' \cup listed
  BY DEF Dealt
<1> DEFINE c == Documents[d][i]
<1>1. /\ k < kind => c \in Registered \cup skipped
      /\ k = kind /\ place = "register" => c \in Registered \cup skipped \cup listed
  BY DEF IInv, Dealt
<1>2. Registered \subseteq Registered'
  BY DEF Grows
<1> HIDE DEF c
<1>3. /\ k < kind => c \in Registered' \cup skipped'
      /\ k = kind /\ place' = "register" => c \in Registered' \cup skipped' \cup listed
  BY <1>1, <1>2
<1> QED
  BY <1>3 DEF c

(* OneRequest, when no goroutine and nothing they serve changes.           *)
LEMMA NobodyServes ==
    ASSUME IInv, UNCHANGED <<handlers, serving>>, place \notin {"import", "recommend"}
    PROVE  OneRequest' /\ serving = None
<1>1. serving = None
  BY DEF IInv, OneRequest
<1> QED
  BY <1>1 DEF IInv, OneRequest, At

-----------------------------------------------------------------------------
(* The server starts with an empty store and idle requests.                *)
LEMMA InitSound == Init => IInv
<1> SUFFICES ASSUME Init PROVE IInv
  OBVIOUS
<1>1. TypeOK
  BY IdleIsHandler, ScriptIsCounted DEF Init, TypeOK, Places, Order
<1>2. \A h \in Handlers : At(h, "idle")
  BY DEF Init, At, Idle
<1>3. HandlersAreSound /\ SavedIsStored
  BY <1>2 DEF HandlersAreSound, SavedIsStored
<1>4. OneRequest
  BY <1>2 DEF OneRequest, Init
<1>5. InOrder /\ Imported /\ Dealt /\ FailedInTime /\ EnrichmentIsContained
  BY DEF Init, InOrder, Imported, Dealt, FailedInTime, EnrichmentIsContained, Sequel
<1> QED
  BY <1>1, <1>3, <1>4, <1>5 DEF IInv

-----------------------------------------------------------------------------
(* The steps of agentctl.                                                  *)
LEMMA StartRunSound ==
    ASSUME IInv, StartRun
    PROVE  IInv'
<1>1. /\ place \in {"idle", "done", "failed"} /\ doc' = 1 /\ kind' = 1
      /\ listed' = {} /\ skipped' = {} /\ runs' = runs + 1
      /\ place' = IF Documents = <<>> THEN "list" ELSE "import"
      /\ UNCHANGED <<driver, serving, handlers, stored, failures>>
  BY DEF StartRun
<1>2. TypeOK'
  BY <1>1, ScriptIsCounted DEF IInv, TypeOK, Places, Order
<1>3. HandlersAreSound' /\ SavedIsStored'
  BY <1>1, HandlersKept, UnchangedGrows, SavedKept
<1>4. OneRequest'
  BY <1>1, NobodyServes
<1>5. (Documents = <<>>) = (Len(Documents) = 0)
  BY SeedRunAssumption
<1>6. InOrder'
  BY <1>1, <1>5, ScriptIsCounted DEF InOrder, Sequel, Order
<1>7. Imported'
  BY <1>1 DEF Imported
<1>8. Dealt'
  <2> SUFFICES ASSUME place' \in Sequel, NEW d \in Script PROVE FALSE
    BY DEF Dealt
  <2> QED
    BY <1>1, <1>5, ScriptIsCounted DEF Sequel
<1>9. FailedInTime' /\ EnrichmentIsContained'
  BY <1>1 DEF IInv, FailedInTime, EnrichmentIsContained
<1> QED
  BY <1>2, <1>3, <1>4, <1>6, <1>7, <1>8, <1>9 DEF IInv

LEMMA ListSound ==
    ASSUME IInv, List
    PROVE  IInv'
<1>1. /\ place = "list"
      /\ UNCHANGED <<driver, doc, skipped, runs, serving, handlers, stored, failures>>
      /\ \/ kind > Len(Order) /\ place' = "recommend" /\ UNCHANGED <<kind, listed>>
         \/ kind <= Len(Order) /\ place' = "register" /\ listed' = OfType(kind) /\ kind' = kind
  <2>1. kind \in Nat /\ Len(Order) \in Nat
    BY DEF IInv, TypeOK, Order
  <2> QED
    BY <2>1 DEF List
<1>2. TypeOK'
  BY <1>1 DEF IInv, TypeOK, Places, OfType, Pending
<1>3. HandlersAreSound' /\ SavedIsStored' /\ Grows
  BY <1>1, HandlersKept, UnchangedGrows, SavedKept
<1>4. OneRequest'
  BY <1>1, NobodyServes
<1>5. InOrder'
  BY <1>1 DEF IInv, InOrder, Sequel, TypeOK, Order
<1>6. Imported'
  BY <1>1, <1>3, ImportedKept DEF Sequel
<1>7. Dealt'
  <2>1. CASE place' = "recommend"
    BY <1>1, <1>3, <2>1, DealtKept DEF Sequel
  <2>2. CASE place' = "register"
    <3> SUFFICES ASSUME NEW d \in Script, NEW i \in DOMAIN Documents[d],
                        NEW k \in DOMAIN Order, TypeOf[Documents[d][i]] = Order[k]
                 PROVE  LET c == Documents[d][i]
                        IN  /\ k < kind => c \in Registered \cup skipped
                            /\ k = kind => c \in Registered \cup skipped \cup OfType(kind)
      BY <1>1, <2>2 DEF Dealt, Registered
    <3> DEFINE c == Documents[d][i]
    <3>1. k < kind => c \in Registered \cup skipped
      BY <1>1 DEF IInv, Dealt, Sequel
    <3>2. c \in Candidates /\ stored[c] # None
      BY <1>1, ScriptHasCandidates, ScriptIsCounted DEF IInv, Imported, InOrder, Sequel
    <3>3. TypeOf[c] = Order[k]
      OBVIOUS
    <3> HIDE DEF c
    <3>4. k = kind => c \in Registered \cup OfType(kind)
      BY <3>2, <3>3 DEF Registered, OfType, Pending
    <3> QED
      BY <3>1, <3>4 DEF c
  <2> QED
    BY <1>1, <2>1, <2>2
<1>8. FailedInTime' /\ EnrichmentIsContained'
  BY <1>1 DEF IInv, FailedInTime, EnrichmentIsContained
<1> QED
  BY <1>2, <1>3, <1>4, <1>5, <1>6, <1>7, <1>8 DEF IInv

LEMMA RegisteredRecord ==
    ASSUME NEW r \in Record
    PROVE  /\ [r EXCEPT !.status = "registered"] \in Record
           /\ [r EXCEPT !.status = "registered"].status = "registered"
           /\ [r EXCEPT !.status = "registered"].inferred = r.inferred
  BY DEF Record

LEMMA RegisterSound ==
    ASSUME IInv, NEW c \in Candidates, Register(c)
    PROVE  IInv'
<1>1. /\ place = "register" /\ c \in listed /\ listed' = listed \ {c}
      /\ UNCHANGED <<driver, place, doc, kind, runs, serving, handlers>>
  BY DEF Register
<1>2. \/ /\ c \in Pending /\ stored' = [stored EXCEPT ![c].status = "registered"]
         /\ UNCHANGED <<skipped, failures>>
      \/ skipped' = skipped \cup {c} /\ UNCHANGED stored /\ failures' \in {failures, failures + 1}
  BY DEF Register
<1>3. c \in Pending => stored[c] \in Record /\ stored[c] # None
  BY DEF Pending, IInv, TypeOK
<1>4. /\ stored' \in [Candidates -> Record \cup {None}]
      /\ \A e \in Candidates \ {c} : stored'[e] = stored[e]
      /\ \/ stored'[c] = stored[c]
         \/ c \in Pending /\ stored'[c] = [stored[c] EXCEPT !.status = "registered"]
  <2>1. stored \in [Candidates -> Record \cup {None}]
    BY DEF IInv, TypeOK
  <2>2. c \in Pending => [stored[c] EXCEPT !.status = "registered"] \in Record
    BY <1>3, RegisteredRecord
  <2>3. CASE UNCHANGED stored
    BY <2>1, <2>3
  <2>4. CASE c \in Pending /\ stored' = [stored EXCEPT ![c].status = "registered"]
    <3>1. stored' = [stored EXCEPT ![c] = [stored[c] EXCEPT !.status = "registered"]]
      BY <2>4
    <3> QED
      BY <2>1, <2>2, <2>4, <3>1
  <2> QED
    BY <1>2, <2>3, <2>4
<1>5. c \in Pending => [stored[c] EXCEPT !.status = "registered"] # None
                         /\ [stored[c] EXCEPT !.status = "registered"].status = "registered"
  BY <1>3, RegisteredRecord, NoneAssumption
<1>6. Grows
  BY <1>4, <1>5 DEF Grows, Registered
<1>7. TypeOK'
  BY <1>1, <1>2, <1>4 DEF IInv, TypeOK
<1>8. HandlersAreSound' /\ SavedIsStored'
  BY <1>1, <1>6, HandlersKept, SavedKept
<1>9. OneRequest' /\ InOrder'
  BY <1>1, NobodyServes DEF IInv, InOrder
<1>10. Imported'
  BY <1>1, <1>6, ImportedKept DEF Sequel
<1>11. c \in Registered' \cup skipped'
  BY <1>2, <1>4, <1>5 DEF Registered
<1>12. Dealt'
  <2> SUFFICES ASSUME NEW d \in Script, NEW i \in DOMAIN Documents[d],
                      NEW k \in DOMAIN Order, TypeOf[Documents[d][i]] = Order[k]
               PROVE  LET e == Documents[d][i]
                      IN  /\ k < kind => e \in Registered' \cup skipped'
                          /\ k = kind => e \in Registered' \cup skipped' \cup (listed \ {c})
    BY <1>1 DEF Dealt
  <2> DEFINE e == Documents[d][i]
  <2>1. /\ k < kind => e \in Registered \cup skipped
        /\ k = kind => e \in Registered \cup skipped \cup listed
    BY <1>1 DEF IInv, Dealt, Sequel
  <2>2. Registered \subseteq Registered' /\ skipped \subseteq skipped'
    BY <1>2, <1>6 DEF Grows
  <2> HIDE DEF e
  <2>3. /\ k < kind => e \in Registered' \cup skipped'
        /\ k = kind => e \in Registered' \cup skipped' \cup (listed \ {c})
    BY <1>11, <2>1, <2>2
  <2> QED
    BY <2>3 DEF e
<1>13. FailedInTime'
  BY <1>1 DEF FailedInTime
<1>14. EnrichmentIsContained'
  <2> SUFFICES ASSUME NEW e \in Candidates, stored'[e] # None
               PROVE  ContainedRecord(e, stored'[e])
    BY DEF EnrichmentIsContained
  <2>1. CASE stored'[e] = stored[e]
    BY <2>1 DEF IInv, EnrichmentIsContained
  <2>2. CASE e = c /\ c \in Pending /\ stored'[c] = [stored[c] EXCEPT !.status = "registered"]
    <3>1. stored'[c].inferred = stored[c].inferred /\ stored'[c].status = "registered"
      BY <1>3, <2>2, RegisteredRecord
    <3>2. ContainedRecord(c, stored[c])
      BY <1>3, <2>2 DEF IInv, EnrichmentIsContained
    <3> QED
      BY <2>2, <3>1, <3>2 DEF ContainedRecord
  <2> QED
    BY <1>4, <2>1, <2>2
<1> QED
  BY <1>7, <1>8, <1>9, <1>10, <1>12, <1>13, <1>14 DEF IInv

LEMMA NextTypeSound ==
    ASSUME IInv, NextType
    PROVE  IInv'
<1>1. /\ place = "register" /\ listed = {} /\ place' = "list" /\ kind' = kind + 1
      /\ UNCHANGED <<driver, doc, listed, skipped, runs, serving, handlers, stored, failures>>
  BY DEF NextType
<1>2. TypeOK' /\ InOrder'
  BY <1>1 DEF IInv, TypeOK, InOrder, Places, Order, Sequel
<1>3. HandlersAreSound' /\ SavedIsStored' /\ Grows
  BY <1>1, HandlersKept, UnchangedGrows, SavedKept
<1>4. OneRequest' /\ Imported'
  BY <1>1, <1>3, NobodyServes, ImportedKept DEF Sequel
<1>5. Dealt'
  <2> SUFFICES ASSUME NEW d \in Script, NEW i \in DOMAIN Documents[d],
                      NEW k \in DOMAIN Order, TypeOf[Documents[d][i]] = Order[k],
                      k < kind + 1
               PROVE  Documents[d][i] \in Registered' \cup skipped'
    BY <1>1 DEF Dealt
  <2>1. k < kind \/ k = kind
    BY DEF IInv, TypeOK, Order
  <2>2. Documents[d][i] \in Registered \cup skipped
    BY <1>1, <2>1 DEF IInv, Dealt, Sequel
  <2> QED
    BY <1>1, <2>2 DEF Registered
<1>6. FailedInTime' /\ EnrichmentIsContained'
  BY <1>1 DEF IInv, FailedInTime, EnrichmentIsContained
<1> QED
  BY <1>2, <1>3, <1>4, <1>5, <1>6 DEF IInv

LEMMA DraftSound ==
    ASSUME IInv, Draft
    PROVE  IInv'
<1>1. /\ place = "draft" /\ place' = "done"
      /\ UNCHANGED <<driver, doc, kind, listed, skipped, runs, serving, handlers, stored, failures>>
  BY DEF Draft
<1>2. TypeOK' /\ InOrder'
  BY <1>1 DEF IInv, TypeOK, InOrder, Places, Sequel
<1>3. HandlersAreSound' /\ SavedIsStored' /\ Grows
  BY <1>1, HandlersKept, UnchangedGrows, SavedKept
<1>4. OneRequest' /\ Imported' /\ Dealt'
  BY <1>1, <1>3, NobodyServes, ImportedKept, DealtKept DEF Sequel
<1>5. FailedInTime' /\ EnrichmentIsContained'
  BY <1>1 DEF IInv, FailedInTime, EnrichmentIsContained
<1> QED
  BY <1>2, <1>3, <1>4, <1>5 DEF IInv

LEMMA CallFailsSound ==
    ASSUME IInv, CallFails
    PROVE  IInv'
<1>1. /\ place \in {"list", "draft"} /\ place' = "failed" /\ failures' = failures + 1
      /\ UNCHANGED <<driver, doc, kind, listed, skipped, runs, serving, handlers, stored>>
  BY DEF CallFails
<1>2. TypeOK' /\ InOrder' /\ FailedInTime'
  BY <1>1 DEF IInv, TypeOK, InOrder, Places, Sequel, FailedInTime
<1>3. HandlersAreSound' /\ SavedIsStored'
  BY <1>1, HandlersKept, UnchangedGrows, SavedKept
<1>4. OneRequest'
  BY <1>1, NobodyServes
<1>5. Imported' /\ Dealt' /\ EnrichmentIsContained'
  BY <1>1 DEF IInv, Imported, Dealt, Sequel, EnrichmentIsContained
<1> QED
  BY <1>2, <1>3, <1>4, <1>5 DEF IInv

-----------------------------------------------------------------------------
(* What one goroutine has waited, all its calls together.                  *)
LEMMA WaitIsBounded ==
    ASSUME NEW s \in Handler, s.phase # "idle", Enriching(s), InTime(s)
    PROVE  s.elapsed <= Calls(s.job) * LLMTimeout
<1>1. /\ s.job \in Jobs /\ s.next \in Nat /\ s.waited \in 0..LLMTimeout
      /\ s.elapsed \in Nat /\ Len(s.batch) \in Nat
  BY SeedRunAssumption DEF Handler
<1>2. Calls(s.job) \in Nat
  BY <1>1, CallsAreCounted
<1>3. CASE s.phase # "call"
  BY <1>3 DEF InTime
<1>4. CASE s.phase = "call"
  <2>1. s.next \in Nat \ {0} /\ s.next <= Calls(s.job)
    <3>1. CASE s.job = 0
      BY <3>1 DEF Enriching, Calls
    <3>2. CASE s.job # 0
      BY <1>1, <1>4, <3>2 DEF Enriching
    <3> QED
      BY <3>1, <3>2
  <2>2. s.next * LLMTimeout <= Calls(s.job) * LLMTimeout
    BY <1>2, <2>1, LongerTakesLonger, SeedRunAssumption
  <2>3. s.elapsed <= s.next * LLMTimeout
    <3>1. s.elapsed <= (s.next - 1) * LLMTimeout + s.waited
      BY <1>4 DEF InTime
    <3>2. /\ (s.next - 1) * LLMTimeout + LLMTimeout = s.next * LLMTimeout
          /\ (s.next - 1) * LLMTimeout \in Nat /\ s.next * LLMTimeout \in Nat
      BY <2>1, OneMoreCall, SeedRunAssumption
    <3> QED
      BY <1>1, <3>1, <3>2, SeedRunAssumption
  <2>4. s.next * LLMTimeout \in Nat /\ Calls(s.job) * LLMTimeout \in Nat
    BY <1>2, <2>1, SeedRunAssumption
  <2> QED
    BY <1>1, <2>2, <2>3, <2>4
<1> QED
  BY <1>3, <1>4

LEMMA GiveUpSound ==
    ASSUME IInv, GiveUp
    PROVE  IInv'
<1> DEFINE s == handlers[serving]
           n == [s EXCEPT !.left = TRUE]
<1>1. /\ serving # None /\ s.elapsed = Patience /\ place' = "failed" /\ serving' = None
      /\ Goto(serving, n)
      /\ UNCHANGED <<driver, doc, kind, listed, skipped, runs, stored, failures>>
  BY DEF GiveUp
<1>2. serving \in Handlers /\ s \in Handler
  BY <1>1 DEF IInv, TypeOK
<1>3. /\ s.phase # "idle" /\ Enriching(s) /\ InTime(s)
      /\ place \in {"import", "recommend"} /\ s.job = IF place = "import" THEN doc ELSE 0
  BY <1>1, <1>2 DEF IInv, OneRequest, HandlersAreSound, At
<1>4. /\ n \in Handler /\ n.left /\ n.phase = s.phase
      /\ n.job = s.job /\ n.saved = s.saved /\ Enriching(n) /\ InTime(n)
  BY <1>2, <1>3 DEF Handler, Enriching, InTime
<1> HIDE DEF n
<1>5. /\ handlers' \in [Handlers -> Handler] /\ HandlersAreSound' /\ handlers'[serving] = n
      /\ \A g \in Handlers \ {serving} : handlers'[g] = handlers[g]
  BY <1>1, <1>2, <1>4, GotoKeepsSound DEF IInv
<1>6. TypeOK' /\ InOrder'
  BY <1>1, <1>5 DEF IInv, TypeOK, Places, InOrder, Sequel
<1>7. SavedIsStored'
  BY <1>1, <1>2, <1>3, <1>4, <1>5, UnchangedGrows, SavedKeptBy
<1>8. OneRequest'
  BY <1>1, <1>2, <1>4, <1>5 DEF IInv, OneRequest, At
<1>9. FailedInTime'
  <2>1. Patience <= Calls(s.job) * LLMTimeout
    BY <1>1, <1>2, <1>3, WaitIsBounded
  <2>2. CASE place = "import"
    BY <1>1, <1>3, <2>1, <2>2 DEF FailedInTime, IInv, InOrder
  <2>3. CASE place = "recommend"
    BY <1>1, <1>3, <2>1, <2>3, SeedRunAssumption DEF FailedInTime, Calls
  <2> QED
    BY <1>3, <2>2, <2>3
<1>10. Imported' /\ Dealt' /\ EnrichmentIsContained'
  BY <1>1 DEF IInv, Imported, Dealt, Sequel, EnrichmentIsContained
<1> QED
  BY <1>5, <1>6, <1>7, <1>8, <1>9, <1>10 DEF IInv

-----------------------------------------------------------------------------
(* The steps of the goroutines.                                            *)

(* agentctl does not move.                                                 *)
LEMMA ScriptKept ==
    ASSUME IInv, Grows, UNCHANGED ctlVars
    PROVE  InOrder' /\ Imported' /\ Dealt'
<1>1. InOrder'
  BY DEF IInv, InOrder, ctlVars
<1>2. Imported'
  <2>1. CASE place \in Sequel \cup {"import"}
    BY <2>1, ImportedKept DEF ctlVars
  <2>2. CASE place \notin Sequel \cup {"import"}
    BY <2>2 DEF Imported, ctlVars
  <2> QED
    BY <2>1, <2>2
<1>3. Dealt'
  <2>1. CASE place \in Sequel
    BY <2>1, DealtKept DEF ctlVars
  <2>2. CASE place \notin Sequel
    BY <2>2 DEF Dealt, ctlVars
  <2> QED
    BY <2>1, <2>2
<1> QED
  BY <1>1, <1>2, <1>3

(* One goroutine goes on with its request, agentctl and the store as they  *)
(* were.                                                                   *)
LEMMA GoesOn ==
    ASSUME IInv, NEW h \in Handlers, handlers[h].phase # "idle", NEW n \in Handler,
           Goto(h, n), n.phase # "idle", Enriching(n), InTime(n), n.left = handlers[h].left,
           n.job = handlers[h].job, n.saved = handlers[h].saved,
           UNCHANGED <<driver, ctlVars, serving, stored, failures>>
    PROVE  IInv'
<1>1. /\ handlers' \in [Handlers -> Handler] /\ HandlersAreSound' /\ handlers'[h] = n
      /\ \A g \in Handlers \ {h} : handlers'[g] = handlers[g]
  BY GotoKeepsSound DEF IInv
<1>2. TypeOK'
  BY <1>1 DEF IInv, TypeOK, ctlVars
<1>3. Grows /\ SavedIsStored'
  BY <1>1, UnchangedGrows, SavedKeptBy
<1>4. InOrder' /\ Imported' /\ Dealt'
  BY <1>3, ScriptKept
<1>5. OneRequest'
  <2>1. \A g \in Handlers : /\ (handlers'[g].phase = "idle") = (handlers[g].phase = "idle")
                            /\ handlers'[g].left = handlers[g].left
                            /\ handlers'[g].job = handlers[g].job
    BY <1>1
  <2>2. serving # None => serving \in Handlers
    BY DEF IInv, TypeOK
  <2> QED
    BY <2>1, <2>2 DEF IInv, OneRequest, At, ctlVars
<1>6. FailedInTime' /\ EnrichmentIsContained'
  BY DEF IInv, FailedInTime, EnrichmentIsContained, ctlVars
<1> QED
  BY <1>1, <1>2, <1>3, <1>4, <1>5, <1>6 DEF IInv

LEMMA SpentIsHandler ==
    ASSUME NEW s \in Handler, s.waited < LLMTimeout, s.elapsed < Patience
    PROVE  LET n == [s EXCEPT !.waited = @ + 1, !.elapsed = @ + 1]
           IN  /\ n \in Handler /\ n.phase = s.phase /\ n.left = s.left /\ n.job = s.job
               /\ n.next = s.next /\ n.batch = s.batch /\ n.saved = s.saved
               /\ n.waited = s.waited + 1 /\ n.elapsed = s.elapsed + 1
<1>1. s.waited + 1 \in 0..LLMTimeout /\ s.elapsed + 1 \in 0..Patience
  BY SeedRunAssumption DEF Handler
<1> DEFINE w == s.waited + 1
           e == s.elapsed + 1
           n == [s EXCEPT !.waited = w, !.elapsed = e]
<1> HIDE DEF w, e
<1>2. w \in 0..LLMTimeout /\ e \in 0..Patience
  BY <1>1 DEF w, e
<1>3. /\ n \in Handler /\ n.phase = s.phase /\ n.left = s.left /\ n.job = s.job
      /\ n.next = s.next /\ n.batch = s.batch /\ n.saved = s.saved
      /\ n.waited = w /\ n.elapsed = e
  BY <1>2 DEF Handler
<1> QED
  BY <1>3 DEF w, e

LEMMA TickSound ==
    ASSUME IInv, Tick
    PROVE  IInv'
<1> DEFINE s == handlers[serving]
           n == [s EXCEPT !.waited = @ + 1, !.elapsed = @ + 1]
<1>1. serving \in Handlers /\ serving # None /\ s \in Handler
  BY DEF Tick, IInv, TypeOK
<1>2. s.phase # "idle" /\ Enriching(s) /\ InTime(s)
  BY <1>1 DEF IInv, OneRequest, HandlersAreSound, At
<1>3. s.phase = "call" /\ s.waited < LLMTimeout /\ s.elapsed < Patience
  BY <1>1, <1>2 DEF Tick, At
<1>4. /\ n \in Handler /\ n.phase = s.phase /\ n.left = s.left /\ n.job = s.job
      /\ n.next = s.next /\ n.batch = s.batch /\ n.saved = s.saved
      /\ n.waited = s.waited + 1 /\ n.elapsed = s.elapsed + 1
  BY <1>1, <1>3, SpentIsHandler
<1>5. Goto(serving, n) /\ UNCHANGED <<driver, ctlVars, serving, stored, failures>>
  BY DEF Tick
<1> HIDE DEF n
<1>6. Enriching(n)
  BY <1>2, <1>4 DEF Enriching
<1>7. InTime(n)
  <2>1. s.next \in Nat /\ s.waited \in Nat /\ s.elapsed \in Nat /\ LLMTimeout \in Nat
    BY <1>1, SeedRunAssumption DEF Handler
  <2>2. s.elapsed <= (s.next - 1) * LLMTimeout + s.waited
    BY <1>2, <1>3 DEF InTime
  <2> QED
    BY <1>3, <1>4, <2>1, <2>2 DEF InTime
<1> QED
  BY <1>1, <1>2, <1>4, <1>5, <1>6, <1>7, GoesOn

LEMMA ReturnedIsSound ==
    ASSUME NEW s \in Handler, s.phase = "call", Enriching(s), InTime(s), NEW reply
    PROVE  /\ Returned(s, reply) \in Handler /\ Returned(s, reply).phase # "idle"
           /\ Enriching(Returned(s, reply)) /\ InTime(Returned(s, reply))
           /\ Returned(s, reply).left = s.left /\ Returned(s, reply).job = s.job
           /\ Returned(s, reply).saved = s.saved
<1>1. /\ s.job \in Jobs /\ s.next \in Nat /\ s.elapsed \in Nat /\ LLMTimeout \in Nat
      /\ s.batch \in Seq(Record) /\ Len(s.batch) \in Nat /\ s.saved \in Nat
      /\ s.waited \in 0..LLMTimeout /\ 0 \in 0..LLMTimeout
  BY SeedRunAssumption DEF Handler
<1>2. Calls(s.job) \in Nat
  BY <1>1, CallsAreCounted
<1>3. CASE s.job = 0
  <2> DEFINE n == [s EXCEPT !.phase = "answer", !.waited = 0]
  <2>1. /\ n \in Handler /\ n.phase = "answer" /\ n.left = s.left /\ n.job = s.job
        /\ n.saved = s.saved /\ n.next = s.next /\ n.elapsed = s.elapsed
    BY <1>1 DEF Handler
  <2>2. Returned(s, reply) = n
    BY <1>3 DEF Returned
  <2>3. s.elapsed <= Calls(s.job) * LLMTimeout
    BY WaitIsBounded
  <2> HIDE DEF n
  <2>4. Enriching(n) /\ InTime(n)
    BY <1>3, <2>1, <2>3 DEF Enriching, InTime
  <2> QED
    BY <2>1, <2>2, <2>4
<1>4. CASE s.job # 0
  <2> DEFINE c == Documents[s.job][s.next]
             r == Enriched(c, reply)
             p == IF s.next = Calls(s.job) THEN "store" ELSE "call"
             b == Append(s.batch, r)
             x == s.next + 1
             n == [s EXCEPT !.batch = b, !.waited = 0, !.next = x, !.phase = p]
  <2>1. Returned(s, reply) = n
    BY <1>4 DEF Returned
  <2>2. s.next = Len(s.batch) + 1 /\ s.next <= Calls(s.job) /\ s.saved <= Len(s.batch)
    BY <1>4 DEF Enriching
  <2>3. c \in Candidates
    BY <1>1, <1>2, <1>4, <2>2, CallsAreCounted
  <2>4. r \in Record /\ ContainedRecord(c, r)
    BY <2>3, EnrichedIsSound
  <2>5. p \in {"store", "call"} /\ (p = "store" <=> s.next = Calls(s.job))
    OBVIOUS
  <2> HIDE DEF r, p
  <2>6. /\ b \in Seq(Record) /\ Len(b) = s.next /\ b[s.next] = r
        /\ \A i \in 1..Len(s.batch) : b[i] = s.batch[i]
    BY <1>1, <2>2, <2>4
  <2> x \in Nat
    BY <1>1
  <2> HIDE DEF b, x
  <2>10. /\ n \in Handler /\ n.phase = p /\ n.left = s.left /\ n.job = s.job
         /\ n.saved = s.saved /\ n.next = x /\ n.elapsed = s.elapsed
         /\ n.batch = b /\ n.waited = 0
    BY <1>1, <2>5, <2>6 DEF Handler
  <2> HIDE DEF n
  <2>7. /\ n \in Handler /\ n.phase = p /\ n.left = s.left /\ n.job = s.job
        /\ n.saved = s.saved /\ n.next = s.next + 1 /\ n.elapsed = s.elapsed
        /\ n.batch = b /\ n.waited = 0
    BY <2>10 DEF x
  <2>8. Enriching(n)
    <3>1. ASSUME NEW i \in 1..Len(n.batch)
          PROVE  ContainedRecord(Documents[n.job][i], n.batch[i])
      <4>1. CASE i = s.next
        BY <2>4, <2>6, <2>7, <4>1
      <4>2. CASE i # s.next
        <5>1. i \in 1..Len(s.batch)
          BY <1>1, <2>2, <2>6, <2>7, <4>2
        <5>2. ContainedRecord(Documents[s.job][i], s.batch[i])
          BY <1>4, <5>1 DEF Enriching
        <5> QED
          BY <2>6, <2>7, <5>1, <5>2
      <4> QED
        BY <4>1, <4>2
    <3> QED
      BY <1>1, <1>2, <1>4, <2>2, <2>5, <2>6, <2>7, <3>1 DEF Enriching
  <2>9. InTime(n)
    <3>1. CASE p = "store"
      BY <2>7, <3>1, WaitIsBounded DEF InTime
    <3>2. CASE p = "call"
      <4>1. s.elapsed <= (s.next - 1) * LLMTimeout + s.waited
        BY DEF InTime
      <4>2. s.next \in Nat \ {0}
        BY <1>1, <2>2
      <4>3. /\ (s.next - 1) * LLMTimeout + LLMTimeout = s.next * LLMTimeout
            /\ (s.next - 1) * LLMTimeout \in Nat /\ s.next * LLMTimeout \in Nat
        BY <1>1, <4>2, OneMoreCall
      <4>4. s.elapsed <= s.next * LLMTimeout
        BY <1>1, <4>1, <4>3
      <4>5. (n.next - 1) * LLMTimeout + n.waited = s.next * LLMTimeout
        <5>1. n.next - 1 = s.next
          BY <1>1, <2>7
        <5> QED
          BY <2>7, <4>3, <5>1
      <4> QED
        BY <2>7, <3>2, <4>4, <4>5 DEF InTime
    <3> QED
      BY <2>5, <3>1, <3>2
  <2> QED
    BY <2>1, <2>5, <2>7, <2>8, <2>9
<1> QED
  BY <1>3, <1>4

LEMMA CallEndsSound ==
    ASSUME IInv, NEW h \in Handlers, Replied(h) \/ FallBack(h)
    PROVE  IInv'
<1>1. PICK reply \in Replies \cup {None} : Goto(h, Returned(handlers[h], reply))
  BY DEF Replied, FallBack
<1>2. At(h, "call") /\ UNCHANGED <<driver, ctlVars, serving, stored, failures>>
  BY DEF Replied, FallBack
<1>3. handlers[h] \in Handler /\ Enriching(handlers[h]) /\ InTime(handlers[h])
  BY <1>2 DEF IInv, TypeOK, HandlersAreSound, At
<1> DEFINE n == Returned(handlers[h], reply)
<1>4. /\ n \in Handler /\ n.phase # "idle" /\ Enriching(n) /\ InTime(n)
      /\ n.left = handlers[h].left /\ n.job = handlers[h].job /\ n.saved = handlers[h].saved
  BY <1>2, <1>3, ReturnedIsSound DEF At
<1> HIDE DEF n
<1>5. Goto(h, n)
  BY <1>1 DEF n
<1> QED
  BY <1>2, <1>4, <1>5, GoesOn DEF At

LEMMA SendSound ==
    ASSUME IInv, NEW h \in Handlers, Send(h)
    PROVE  IInv'
<1> DEFINE job == IF place = "import" THEN doc ELSE 0
           p == IF Calls(job) = 0 THEN "answer" ELSE "call"
           n == [Idle EXCEPT !.job = job, !.phase = p]
<1>1. /\ place \in {"import", "recommend"} /\ serving = None /\ serving' = h /\ Goto(h, n)
      /\ handlers[h].phase = "idle"
      /\ UNCHANGED <<driver, ctlVars, stored, failures>>
  BY DEF Send, At
<1>2. job \in Jobs /\ Calls(job) \in Nat
  <2>1. job \in Jobs
    BY <1>1 DEF IInv, InOrder, Jobs
  <2> QED
    BY <2>1, CallsAreCounted
<1>3. h # None
  BY SeedRunAssumption
<1>4. /\ n \in Handler /\ n.phase \in {"answer", "call"} /\ ~n.left /\ n.job = job
      /\ n.next = 1 /\ n.batch = <<>> /\ n.saved = 0 /\ n.waited = 0 /\ n.elapsed = 0
      /\ n.phase = "answer" <=> Calls(job) = 0
  <2>1. p \in {"answer", "call"} /\ (p = "answer" <=> Calls(job) = 0)
    OBVIOUS
  <2> HIDE DEF p, job
  <2>2. /\ n.phase = p /\ n.job = job /\ n.next = 1 /\ n.batch = <<>> /\ n.saved = 0
        /\ n.waited = 0 /\ n.elapsed = 0 /\ n.left = FALSE
    BY DEF Idle
  <2>3. n \in Handler
    <3>1. Idle \in Handler
      BY IdleIsHandler
    <3> QED
      BY <1>2, <2>1, <3>1 DEF Handler
  <2> QED
    BY <2>1, <2>2, <2>3
<1> HIDE DEF n, job
<1>5. Enriching(n)
  BY <1>2, <1>4 DEF Enriching, Calls
<1>6. InTime(n)
  <2>1. Calls(job) * LLMTimeout \in Nat /\ 0 * LLMTimeout = 0
    BY <1>2, SeedRunAssumption
  <2> QED
    BY <1>4, <2>1 DEF InTime
<1>7. /\ handlers' \in [Handlers -> Handler] /\ HandlersAreSound' /\ handlers'[h] = n
      /\ \A g \in Handlers \ {h} : handlers'[g] = handlers[g]
  BY <1>1, <1>4, <1>5, <1>6, GotoKeepsSound DEF IInv
<1>8. TypeOK'
  BY <1>1, <1>7 DEF IInv, TypeOK, ctlVars
<1>9. Grows
  BY <1>1, UnchangedGrows
<1>10. SavedIsStored'
  <2> SUFFICES ASSUME NEW g \in Handlers, handlers'[g].phase # "idle", handlers'[g].job # 0,
                      NEW i \in 1..handlers'[g].saved
               PROVE  stored'[Documents[handlers'[g].job][i]] # None
    BY DEF SavedIsStored, At
  <2>1. g # h
    BY <1>4, <1>7
  <2> QED
    BY <1>7, <1>9, <2>1, SavedOf
<1>11. InOrder' /\ Imported' /\ Dealt'
  BY <1>1, <1>9, ScriptKept
<1>12. OneRequest'
  <2>1. \A g \in Handlers \ {h} : handlers[g].phase # "idle" => handlers[g].left
    BY <1>1, SeedRunAssumption DEF IInv, OneRequest, At
  <2>2. place' = place /\ doc' = doc
    BY <1>1 DEF ctlVars
  <2> QED
    BY <1>1, <1>3, <1>4, <1>7, <2>1, <2>2 DEF OneRequest, At, job
<1>13. FailedInTime' /\ EnrichmentIsContained'
  BY <1>1 DEF IInv, FailedInTime, EnrichmentIsContained, ctlVars
<1> QED
  BY <1>7, <1>8, <1>10, <1>11, <1>12, <1>13 DEF IInv

(* A goroutine is done: nobody waits for it, or agentctl no longer does.   *)
LEMMA DoneSound ==
    ASSUME IInv, NEW h \in Handlers, handlers[h].phase # "idle", Goto(h, Idle),
           IF handlers[h].left THEN UNCHANGED serving ELSE serving' = None,
           handlers[h].left => UNCHANGED <<place, doc>>,
           Grows
    PROVE  /\ handlers' \in [Handlers -> Handler] /\ HandlersAreSound'
           /\ SavedIsStored' /\ OneRequest'
           /\ serving' \in Handlers \cup {None}
           /\ ~handlers[h].left => serving = h
<1>1. /\ handlers' \in [Handlers -> Handler] /\ HandlersAreSound' /\ handlers'[h] = Idle
      /\ \A g \in Handlers \ {h} : handlers'[g] = handlers[g]
  BY IdleIsHandler, GotoKeepsSound DEF IInv, Idle
<1>2. handlers'[h].phase = "idle"
  BY <1>1 DEF Idle
<1>3. SavedIsStored'
  BY <1>1, <1>2, SavedKeptBy
<1>4. serving' \in Handlers \cup {None} /\ serving \in Handlers \cup {None}
  BY DEF IInv, TypeOK
<1>5. ~handlers[h].left => serving = h
  BY DEF IInv, OneRequest, At
<1>6. OneRequest'
  <2>1. CASE handlers[h].left
    <3>1. serving # h
      BY <2>1, SeedRunAssumption DEF IInv, OneRequest
    <3>2. UNCHANGED <<serving, place, doc>>
      BY <2>1
    <3>3. serving # None => handlers'[serving] = handlers[serving]
      BY <1>1, <1>4, <3>1
    <3> QED
      BY <1>1, <1>2, <3>2, <3>3 DEF IInv, OneRequest, At
  <2>2. CASE ~handlers[h].left
    <3>1. \A g \in Handlers \ {h} : handlers[g].phase # "idle" => handlers[g].left
      BY <1>5, <2>2 DEF IInv, OneRequest, At
    <3> QED
      BY <1>1, <1>2, <2>2, <3>1 DEF OneRequest, At
  <2> QED
    BY <2>1, <2>2
<1> QED
  BY <1>1, <1>3, <1>4, <1>5, <1>6

LEMMA FailSound ==
    ASSUME IInv, NEW h \in Handlers, Fail(h)
    PROVE  IInv'
<1>1. /\ handlers[h].phase # "idle" /\ failures' = failures + 1 /\ Goto(h, Idle)
      /\ IF handlers[h].left THEN UNCHANGED <<place, serving>>
         ELSE place' = "failed" /\ serving' = None
      /\ UNCHANGED <<driver, doc, kind, listed, skipped, runs, stored>>
  BY DEF Fail, At
<1>2. Grows
  BY <1>1, UnchangedGrows
<1>3. /\ handlers' \in [Handlers -> Handler] /\ HandlersAreSound'
      /\ SavedIsStored' /\ OneRequest' /\ serving' \in Handlers \cup {None}
  BY <1>1, <1>2, DoneSound
<1>4. TypeOK' /\ FailedInTime'
  BY <1>1, <1>3 DEF IInv, TypeOK, Places, FailedInTime
<1>5. InOrder' /\ Imported' /\ Dealt'
  <2>1. CASE handlers[h].left
    BY <1>1, <1>2, <2>1, ScriptKept DEF ctlVars
  <2>2. CASE ~handlers[h].left
    BY <1>1, <2>2 DEF InOrder, Imported, Dealt, Sequel
  <2> QED
    BY <2>1, <2>2
<1>6. EnrichmentIsContained'
  BY <1>1 DEF IInv, EnrichmentIsContained
<1> QED
  BY <1>3, <1>4, <1>5, <1>6 DEF IInv

LEMMA AnswerSound ==
    ASSUME IInv, NEW h \in Handlers, Answer(h)
    PROVE  IInv'
<1> DEFINE s == handlers[h]
<1>1. /\ s.phase = "answer" /\ Goto(h, Idle)
      /\ IF s.left THEN UNCHANGED <<place, doc, serving>>
         ELSE /\ serving' = None
              /\ IF place = "recommend" THEN place' = "draft" /\ doc' = doc
                 ELSE doc' = doc + 1 /\ place' = IF doc = Len(Documents) THEN "list" ELSE "import"
      /\ UNCHANGED <<driver, kind, listed, skipped, runs, stored, failures>>
  BY DEF Answer, At
<1>2. Grows
  BY <1>1, UnchangedGrows
<1>3. /\ handlers' \in [Handlers -> Handler] /\ HandlersAreSound'
      /\ SavedIsStored' /\ OneRequest' /\ serving' \in Handlers \cup {None}
      /\ ~s.left => serving = h
  BY <1>1, <1>2, DoneSound
<1>4. EnrichmentIsContained'
  BY <1>1 DEF IInv, EnrichmentIsContained
<1>5. CASE s.left
  <2>1. TypeOK' /\ FailedInTime'
    BY <1>1, <1>3, <1>5 DEF IInv, TypeOK, FailedInTime
  <2>2. InOrder' /\ Imported' /\ Dealt'
    BY <1>1, <1>2, <1>5, ScriptKept DEF ctlVars
  <2> QED
    BY <1>3, <1>4, <2>1, <2>2 DEF IInv
<1>6. CASE ~s.left /\ place = "recommend"
  <2>1. TypeOK' /\ FailedInTime' /\ InOrder'
    BY <1>1, <1>3, <1>6 DEF IInv, TypeOK, Places, FailedInTime, InOrder, Sequel
  <2>2. Imported' /\ Dealt'
    BY <1>1, <1>2, <1>6, ImportedKept, DealtKept DEF Sequel
  <2> QED
    BY <1>3, <1>4, <2>1, <2>2 DEF IInv
<1>7. CASE ~s.left /\ place # "recommend"
  <2>1. place = "import" /\ s.job = doc /\ doc \in Script /\ kind = 1
    BY <1>1, <1>3, <1>7, SeedRunAssumption DEF IInv, OneRequest, InOrder
  <2>2. /\ doc' = doc + 1 /\ place' = IF doc = Len(Documents) THEN "list" ELSE "import"
    BY <1>1, <1>7, <2>1
  <2>3. doc \in Nat /\ doc \in 1..Len(Documents) /\ Len(Documents) \in Nat
    BY <2>1, ScriptIsCounted
  <2>4. TypeOK' /\ FailedInTime' /\ InOrder'
    <3>1. doc + 1 \in 1..(Len(Documents) + 1)
      BY <2>3
    <3>2. doc # Len(Documents) => doc + 1 \in Script
      BY <2>3, ScriptIsCounted
    <3> QED
      BY <1>1, <1>3, <2>1, <2>2, <2>3, <3>1, <3>2
         DEF IInv, TypeOK, Places, FailedInTime, InOrder, Sequel
  <2>5. Imported'
    <3> SUFFICES ASSUME NEW d \in 1..(doc' - 1), NEW i \in DOMAIN Documents[d]
                 PROVE  stored'[Documents[d][i]] # None
      BY DEF Imported
    <3>1. d \in Script /\ d \in 1..doc
      BY <2>2, <2>3, ScriptIsCounted
    <3>2. CASE d = doc
      <4>1. s.saved = Calls(doc)
        <5>1. Enriching(s)
          BY <1>1 DEF IInv, HandlersAreSound, At
        <5> QED
          BY <1>1, <2>1, <2>3, <5>1 DEF Enriching
      <4>2. i \in 1..s.saved /\ s.job # 0
        BY <2>1, <2>3, <3>2, <4>1, ScriptIsCounted
      <4> QED
        BY <1>1, <1>2, <2>1, <3>2, <4>2, SavedOf
    <3>3. CASE d # doc
      <4>1. d \in 1..(doc - 1)
        BY <2>3, <3>1, <3>3
      <4>2. stored[Documents[d][i]] # None
        BY <2>1, <4>1 DEF IInv, Imported, Sequel
      <4> QED
        BY <1>1, <4>2
    <3> QED
      BY <3>2, <3>3
  <2>6. Dealt'
    <3>1. kind' = 1 /\ place' # "register"
      BY <1>1, <2>1, <2>2
    <3>2. \A k \in DOMAIN Order : ~(k < 1)
      BY DEF Order
    <3> QED
      BY <3>1, <3>2 DEF Dealt
  <2> QED
    BY <1>3, <1>4, <2>4, <2>5, <2>6 DEF IInv
<1> QED
  BY <1>5, <1>6, <1>7

LEMMA StoreSound ==
    ASSUME IInv, NEW h \in Handlers, Store(h)
    PROVE  IInv'
<1> DEFINE s == handlers[h]
           c == Documents[s.job][s.saved + 1]
           r == s.batch[s.saved + 1]
           p == IF s.saved + 1 = Len(s.batch) THEN "answer" ELSE "store"
           x == s.saved + 1
           n == [s EXCEPT !.saved = x, !.phase = p]
<1>1. /\ s.phase = "store"
      /\ UNCHANGED <<driver, ctlVars, serving, failures>>
      /\ \/ s.left /\ Goto(h, Idle) /\ UNCHANGED stored
         \/ stored' = Upserted(c, r) /\ Goto(h, n)
  BY DEF Store, At
<1>2. s \in Handler /\ Enriching(s) /\ InTime(s)
  BY <1>1 DEF IInv, TypeOK, HandlersAreSound, At
<1>3. CASE s.left /\ Goto(h, Idle) /\ UNCHANGED stored
  <2>1. Grows /\ InOrder' /\ Imported' /\ Dealt'
    BY <1>1, <1>3, UnchangedGrows, ScriptKept
  <2>2. UNCHANGED <<place, doc, serving>>
    BY <1>1 DEF ctlVars
  <2>3. /\ handlers' \in [Handlers -> Handler] /\ HandlersAreSound'
        /\ SavedIsStored' /\ OneRequest' /\ serving' \in Handlers \cup {None}
    BY <1>1, <1>3, <2>1, <2>2, DoneSound
  <2>4. TypeOK' /\ FailedInTime' /\ EnrichmentIsContained'
    BY <1>1, <1>3, <2>3 DEF IInv, TypeOK, FailedInTime, EnrichmentIsContained, ctlVars
  <2> QED
    BY <2>1, <2>3, <2>4 DEF IInv
<1>4. CASE stored' = Upserted(c, r) /\ Goto(h, n)
  <2>1. /\ s.job \in Jobs /\ s.job # 0 /\ s.saved \in Nat /\ Len(s.batch) \in Nat
        /\ s.saved < Len(s.batch) /\ Len(s.batch) = Calls(s.job) /\ s.next = Len(s.batch) + 1
        /\ s.batch \in Seq(Record)
    BY <1>1, <1>2 DEF Handler, Enriching
  <2>2. /\ x \in 1..Len(s.batch) /\ x \in Nat
        /\ p = "answer" => x = Len(s.batch)
        /\ p # "answer" => p = "store" /\ x < Len(s.batch)
    BY <2>1
  <2>3. c \in Candidates /\ r \in Record /\ ContainedRecord(c, r)
    <3>1. c \in Candidates
      BY <2>1, <2>2, CallsAreCounted
    <3>2. r \in Record
      BY <2>1, <2>2
    <3>3. ContainedRecord(c, r)
      BY <1>2, <2>1, <2>2 DEF Enriching
    <3> QED
      BY <3>1, <3>2, <3>3
  <2>4. r # None
    BY <2>3, NoneAssumption
  <2>5. p \in {"answer", "store"}
    OBVIOUS
  <2> HIDE DEF c, r, p, x
  <2>6. /\ n \in Handler /\ n.phase = p /\ n.left = s.left /\ n.job = s.job /\ n.saved = x
        /\ n.batch = s.batch /\ n.next = s.next /\ n.elapsed = s.elapsed
    BY <1>2, <2>2, <2>5 DEF Handler
  <2> HIDE DEF n
  <2>7. Enriching(n) /\ InTime(n)
    <3>1. Enriching(n)
      BY <1>2, <2>1, <2>2, <2>5, <2>6 DEF Enriching
    <3>2. InTime(n)
      BY <1>1, <1>2, <2>5, <2>6 DEF InTime
    <3> QED
      BY <3>1, <3>2
  <2>8. /\ handlers' \in [Handlers -> Handler] /\ HandlersAreSound' /\ handlers'[h] = n
        /\ \A g \in Handlers \ {h} : handlers'[g] = handlers[g]
    BY <1>4, <2>5, <2>6, <2>7, GotoKeepsSound DEF IInv
  <2>9. /\ stored' \in [Candidates -> Record \cup {None}]
        /\ \A e \in Candidates \ {c} : stored'[e] = stored[e]
        /\ stored'[c] = IF c \in Registered THEN stored[c] ELSE r
    BY <1>4, <2>3 DEF Upserted, IInv, TypeOK
  <2>10. stored'[c] # None
    BY <2>4, <2>9 DEF Registered
  <2>11. Grows
    BY <2>9, <2>10 DEF Grows, Registered
  <2>12. InOrder' /\ Imported' /\ Dealt'
    BY <1>1, <2>11, ScriptKept
  <2>13. TypeOK' /\ FailedInTime'
    BY <1>1, <2>8, <2>9 DEF IInv, TypeOK, FailedInTime, ctlVars
  <2>14. EnrichmentIsContained'
    <3> SUFFICES ASSUME NEW e \in Candidates, stored'[e] # None
                 PROVE  ContainedRecord(e, stored'[e])
      BY DEF EnrichmentIsContained
    <3>1. stored'[e] = stored[e] \/ (e = c /\ stored'[e] = r)
      BY <2>9
    <3> QED
      BY <2>3, <3>1 DEF IInv, EnrichmentIsContained
  <2>15. OneRequest'
    <3>1. \A g \in Handlers : /\ (handlers'[g].phase = "idle") = (handlers[g].phase = "idle")
                              /\ handlers'[g].left = handlers[g].left
                              /\ handlers'[g].job = handlers[g].job
      BY <1>1, <2>5, <2>6, <2>8
    <3>2. serving # None => serving \in Handlers
      BY DEF IInv, TypeOK
    <3> QED
      BY <1>1, <3>1, <3>2 DEF IInv, OneRequest, At, ctlVars
  <2>16. SavedIsStored'
    <3> SUFFICES ASSUME NEW g \in Handlers, handlers'[g].phase # "idle", handlers'[g].job # 0,
                        NEW i \in 1..handlers'[g].saved
                 PROVE  stored'[Documents[handlers'[g].job][i]] # None
      BY DEF SavedIsStored, At
    <3>1. CASE g # h
      BY <2>8, <2>11, <3>1, SavedOf
    <3>2. CASE g = h /\ i = x
      BY <2>6, <2>8, <2>10, <3>2 DEF c, x
    <3>3. CASE g = h /\ i # x
      <4>1. i \in 1..s.saved
        BY <2>1, <2>6, <2>8, <3>3 DEF x
      <4> QED
        BY <1>1, <2>1, <2>6, <2>8, <2>11, <3>3, <4>1, SavedOf
    <3> QED
      BY <3>1, <3>2, <3>3
  <2> QED
    BY <2>8, <2>12, <2>13, <2>14, <2>15, <2>16 DEF IInv
<1> QED
  BY <1>1, <1>3, <1>4

LEMMA StutterSound ==
    ASSUME IInv, UNCHANGED vars
    PROVE  IInv'
<1>1. UNCHANGED <<driver, ctlVars, serving, handlers, stored, failures>>
  BY DEF vars
<1>2. HandlersAreSound' /\ SavedIsStored' /\ Grows
  BY <1>1, HandlersKept, UnchangedGrows, SavedKept
<1>3. InOrder' /\ Imported' /\ Dealt'
  BY <1>1, <1>2, ScriptKept
<1>4. TypeOK' /\ OneRequest' /\ FailedInTime' /\ EnrichmentIsContained'
  BY <1>1 DEF IInv, TypeOK, OneRequest, At, FailedInTime, EnrichmentIsContained, ctlVars
<1> QED
  BY <1>2, <1>3, <1>4 DEF IInv

-----------------------------------------------------------------------------
(* The invariant holds of every behaviour of a seed run, whatever the      *)
(* documents, the timeouts and the endpoint.                               *)
THEOREM SeedInvariant == Spec => []IInv
<1>1. IInv /\ [Next]_vars => IInv'
  <2> SUFFICES ASSUME IInv, [Next]_vars PROVE IInv'
    OBVIOUS
  <2>1. CASE StartRun
    BY <2>1, StartRunSound
  <2>2. CASE List
    BY <2>2, ListSound
  <2>3. CASE NextType
    BY <2>3, NextTypeSound
  <2>4. CASE Draft
    BY <2>4, DraftSound
  <2>5. CASE CallFails
    BY <2>5, CallFailsSound
  <2>6. CASE GiveUp
    BY <2>6, GiveUpSound
  <2>7. CASE Tick
    BY <2>7, TickSound
  <2>8. ASSUME NEW c \in Candidates, Register(c) PROVE IInv'
    BY <2>8, RegisterSound
  <2>9. ASSUME NEW h \in Handlers, Send(h) PROVE IInv'
    BY <2>9, SendSound
  <2>10. ASSUME NEW h \in Handlers, Replied(h) \/ FallBack(h) PROVE IInv'
    BY <2>10, CallEndsSound
  <2>11. ASSUME NEW h \in Handlers, Store(h) PROVE IInv'
    BY <2>11, StoreSound
  <2>12. ASSUME NEW h \in Handlers, Fail(h) PROVE IInv'
    BY <2>12, FailSound
  <2>13. ASSUME NEW h \in Handlers, Answer(h) PROVE IInv'
    BY <2>13, AnswerSound
  <2>14. CASE UNCHANGED vars
    BY <2>14, StutterSound
  <2> QED
    BY <2>1, <2>2, <2>3, <2>4, <2>5, <2>6, <2>7, <2>8, <2>9, <2>10, <2>11, <2>12,
       <2>13, <2>14 DEF Next
<1> QED
  BY InitSound, <1>1, PTL DEF Spec

(* The locals of agentctl and of the requests stay what the code makes     *)
(* them.                                                                   *)
THEOREM SeedTypeCorrect == Spec => []TypeOK
<1>1. IInv => TypeOK
  BY DEF IInv
<1> QED
  BY SeedInvariant, <1>1, PTL

(* Whatever the model answers and however requests are abandoned, the only *)
(* extracted field that a stored candidate infers over is one that         *)
(* subtractKnown lets through, a subtype; name and dependencies are never  *)
(* inferred; and no stored candidate holds less than the rules give or     *)
(* misses its review.  That a subtype can be inferred over is against the  *)
(* comment of enrichCandidates (capability_extraction.go:12-14).           *)
THEOREM EnrichmentStaysContained == Spec => []EnrichmentIsContained
<1>1. IInv => EnrichmentIsContained
  BY DEF IInv
<1> QED
  BY SeedInvariant, <1>1, PTL

(* A hung endpoint costs a request LLMTimeout a call at most, and agentctl *)
(* fails for it only on a document with too many candidates.               *)
THEOREM SlowEndpointStaysSurvived == Spec => []SlowEndpointIsSurvived
<1>1. ASSUME IInv PROVE SlowEndpointIsSurvived
  <2>1. ASSUME serving # None
        PROVE  handlers[serving].elapsed <= Calls(handlers[serving].job) * LLMTimeout
    <3>1. /\ handlers[serving] \in Handler /\ handlers[serving].phase # "idle"
          /\ Enriching(handlers[serving]) /\ InTime(handlers[serving])
      BY <1>1, <2>1 DEF IInv, TypeOK, OneRequest, HandlersAreSound, At
    <3> QED
      BY <3>1, WaitIsBounded
  <2> QED
    BY <1>1, <2>1 DEF IInv, FailedInTime, SlowEndpointIsSurvived
<1> QED
  BY SeedInvariant, <1>1, PTL

(* agentctl never goes past a candidate it imported without having         *)
(* registered it or said that it was skipped.                              *)
THEOREM SeedStaysComplete == Spec => []SeedIsComplete
<1>1. ASSUME IInv PROVE SeedIsComplete
  <2>1. place \in {"import", "list", "register", "recommend", "draft", "done"} =>
          \A d \in 1..(doc - 1) : \A i \in DOMAIN Documents[d] : stored[Documents[d][i]] # None
    BY <1>1 DEF IInv, Imported, Sequel
  <2>2. ASSUME place \in {"recommend", "draft", "done"},
               NEW d \in Script, NEW i \in DOMAIN Documents[d]
        PROVE  Documents[d][i] \in Registered \cup skipped
    <3>1. PICK k \in DOMAIN Order : TypeOf[Documents[d][i]] = Order[k]
      <4>1. TypeOf[Documents[d][i]] \in {Order[k] : k \in DOMAIN Order}
        <5>1. Documents[d][i] \in Candidates
          BY ScriptHasCandidates
        <5>2. {Order[k] : k \in DOMAIN Order}
                = {"tool", "knowledge_data", "prompt_template", "skill", "workflow",
                   "agent", "policy"}
          BY DEF Order
        <5> QED
          BY <5>1, <5>2, SeedRunAssumption
      <4> QED
        BY <4>1
    <3>2. k < kind
      BY <1>1, <2>2 DEF IInv, InOrder, Order
    <3> QED
      BY <1>1, <2>2, <3>1, <3>2 DEF IInv, Dealt, Sequel
  <2> QED
    BY <2>1, <2>2 DEF SeedIsComplete
<1> QED
  BY SeedInvariant, <1>1, PTL
=============================================================================
