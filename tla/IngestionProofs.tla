--------------------------- MODULE IngestionProofs ---------------------------
(***************************************************************************)
(* What imports leave behind however they interleave and wherever they     *)
(* end: one source per name and type, everything that was answered, no     *)
(* reference without its target, and the last import where they did not    *)
(* overlap.                                                                *)
(***************************************************************************)
EXTENDS Ingestion, TLAPS

(* Two sources differ in name or type, only sources have candidates, and   *)
(* only candidates are decided.                                            *)
TablesHold ==
    /\ \A s, t \in SourceIds : sources[s] # None /\ sources[s] = sources[t] => s = t
    /\ \A s \in SourceIds, id \in ExternalIds : sources[s] = None => candidates[s][id] = None
    /\ \A s \in SourceIds, id \in ExternalIds :
          <<s, id>> \in decided => candidates[s][id] # None

Named(s, name, u) == sources[s] = [name |-> name, type |-> TypeOf[u]]

(* Source s has the first n candidates of u, or what took their ids.       *)
Has(s, u, n) == \A k \in 1..n : candidates[s][CandidatesOf[u][k].id] # None

(* An import under way has found its source and stored what comes before   *)
(* the next candidate.                                                     *)
HandlerHolds(h) ==
    /\ phase[h] # "idle" => upload[h] \in Uploads /\ named[h] \in Names
    /\ phase[h] = "upsert" =>
          /\ source[h] \in SourceIds
          /\ Named(source[h], named[h], upload[h])
          /\ next[h] \in 1..Len(CandidatesOf[upload[h]])
          /\ Has(source[h], upload[h], next[h] - 1)

HandlersHold == \A h \in Handlers : HandlerHolds(h)

AnsweredHold ==
    \A a \in answered :
        Named(a.source, a.name, a.upload) /\ Has(a.source, a.upload, Len(CandidatesOf[a.upload]))

(* Where imports do not overlap, the one under way shows what it stored.   *)
ImportShows(s) ==
    \A h \in Importing(s) : Importing(s) = {h} /\ Shows(s, upload[h], next[h] - 1)

LatestShows(s) ==
    latest[s] # None /\ Importing(s) = {} => Shows(s, latest[s], Len(CandidatesOf[latest[s]]))

ShowsInv == \A s \in SourceIds \ disturbed : ImportShows(s) /\ LatestShows(s)

-----------------------------------------------------------------------------
LEMMA UploadFacts ==
    ASSUME NEW u \in Uploads
    PROVE  /\ Len(CandidatesOf[u]) \in Nat
           /\ DOMAIN CandidatesOf[u] = 1..Len(CandidatesOf[u])
           /\ \A k \in 1..Len(CandidatesOf[u]) :
                /\ CandidatesOf[u][k] \in Candidates
                /\ CandidatesOf[u][k] # None
                /\ CandidatesOf[u][k].id \in ExternalIds
<1>1. CandidatesOf[u] \in Seq(Candidates)
    BY IngestionAssumption
<1>2. ASSUME NEW k \in 1..Len(CandidatesOf[u]) PROVE CandidatesOf[u][k] \in Candidates
    BY <1>1
<1> QED
    BY <1>1, <1>2, IngestionAssumption DEF ExternalIds

(* What an upsert does to the table.                                       *)
LEMMA StoredFacts ==
    ASSUME TypeOK, NEW s \in SourceIds, NEW c \in Candidates, c # None, c.id \in ExternalIds
    PROVE  /\ Stored(s, c) \in [SourceIds -> [ExternalIds -> Candidates \cup {None}]]
           /\ \A t \in SourceIds, id \in ExternalIds :
                Stored(s, c)[t][id] # None => Stored(s, c)[t][id].id = id
           /\ \A t \in SourceIds, id \in ExternalIds :
                t # s \/ id # c.id => Stored(s, c)[t][id] = candidates[t][id]
           /\ <<s, c.id>> \in decided \/ Stored(s, c)[s][c.id] = c
           /\ <<s, c.id>> \in decided => Stored(s, c) = candidates
    BY DEF Stored, Refreshed, TypeOK

(* Nothing is ever taken away.                                             *)
Grows ==
    /\ \A s \in SourceIds : sources[s] # None => sources'[s] = sources[s]
    /\ \A s \in SourceIds, id \in ExternalIds :
          candidates[s][id] # None => candidates'[s][id] # None

LEMMA HasStays ==
    ASSUME Grows, NEW s \in SourceIds, NEW u \in Uploads, NEW n \in 0..Len(CandidatesOf[u]),
           Has(s, u, n)
    PROVE  Has(s, u, n)'
<1>1. ASSUME NEW k \in 1..n PROVE CandidatesOf[u][k].id \in ExternalIds
    BY UploadFacts
<1> QED
    BY <1>1 DEF Has, Grows

LEMMA NamedStays ==
    ASSUME Grows, NEW s \in SourceIds, NEW name \in Names, NEW u \in Uploads, Named(s, name, u)
    PROVE  Named(s, name, u)'
<1>1. TypeOf[u] \in SourceTypes
    BY IngestionAssumption
<1>2. sources[s] \in Source
    BY <1>1 DEF Named, Source
<1> QED
    BY <1>2, IngestionAssumption DEF Named, Grows

-----------------------------------------------------------------------------
(* The part of TypeOK that Continue and Finish change.                     *)
RequestTypes ==
    /\ phase \in [Handlers -> {"idle", "create", "upsert"}]
    /\ upload \in [Handlers -> Uploads \cup {None}]
    /\ named \in [Handlers -> Names \cup {None}]
    /\ source \in [Handlers -> SourceIds \cup {None}]
    /\ next \in [Handlers -> Nat]
    /\ answered \subseteq [name : Names, upload : Uploads, source : SourceIds]
    /\ latest \in [SourceIds -> Uploads \cup {None}]
    /\ disturbed \subseteq SourceIds

RequestsHold == RequestTypes /\ HandlersHold /\ AnsweredHold

(* A request that a step leaves alone.                                     *)
Idles(h) ==
    /\ phase'[h] = phase[h] /\ upload'[h] = upload[h] /\ named'[h] = named[h]
    /\ source'[h] = source[h] /\ next'[h] = next[h]

LEMMA IdlerHolds ==
    ASSUME RequestTypes, Grows, NEW h \in Handlers, HandlerHolds(h), Idles(h)
    PROVE  HandlerHolds(h)'
<1>1. CASE phase[h] # "upsert"
    BY <1>1 DEF HandlerHolds, Idles
<1>2. CASE phase[h] = "upsert"
  <2>1. PICK s \in SourceIds, u \in Uploads, name \in Names, n \in 1..Len(CandidatesOf[upload[h]]) :
          s = source[h] /\ u = upload[h] /\ name = named[h] /\ n = next[h]
      BY <1>2 DEF HandlerHolds
  <2>2. Named(s, name, u) /\ Has(s, u, n - 1) /\ n - 1 \in 0..Len(CandidatesOf[u])
      BY <1>2, <2>1, UploadFacts DEF HandlerHolds
  <2>3. Named(s, name, u)' /\ Has(s, u, n - 1)'
      BY <2>2, NamedStays, HasStays
  <2> QED
      BY <1>2, <2>1, <2>3 DEF HandlerHolds, Idles, Named, Has
<1> QED
    BY <1>1, <1>2

LEMMA AnsweredHolds ==
    ASSUME RequestTypes, Grows, AnsweredHold, NEW a \in answered
    PROVE  Named(a.source, a.name, a.upload)'
           /\ Has(a.source, a.upload, Len(CandidatesOf[a.upload]))'
<1>1. a.source \in SourceIds /\ a.name \in Names /\ a.upload \in Uploads
    BY DEF RequestTypes
<1>2. Len(CandidatesOf[a.upload]) \in 0..Len(CandidatesOf[a.upload])
    BY <1>1, UploadFacts
<1> QED
    BY <1>1, <1>2, NamedStays, HasStays DEF AnsweredHold

(* A request ends without an answer.                                       *)
LEMMA FinishStep ==
    ASSUME RequestsHold, Grows, NEW h \in Handlers, Finish(h),
           answered' = answered, latest' = latest, disturbed' \subseteq SourceIds
    PROVE  RequestsHold'
<1>1. RequestTypes'
    BY DEF RequestsHold, RequestTypes, Finish
<1>2. ASSUME NEW g \in Handlers PROVE HandlerHolds(g)'
  <2>1. CASE g = h
      BY <2>1 DEF RequestsHold, RequestTypes, Finish, HandlerHolds
  <2>2. CASE g # h
    <3>1. Idles(g)
        BY <2>2 DEF RequestsHold, RequestTypes, Finish, Idles
    <3> QED
        BY <3>1, IdlerHolds DEF RequestsHold, HandlersHold
  <2> QED
      BY <2>1, <2>2
<1>3. AnsweredHold'
    BY AnsweredHolds DEF RequestsHold, AnsweredHold
<1> QED
    BY <1>1, <1>2, <1>3 DEF RequestsHold, HandlersHold

(* A request goes on with candidate k of its upload, or is answered.       *)
LEMMA ContinueStep ==
    ASSUME RequestsHold, Grows, NEW h \in Handlers, NEW u \in Uploads, NEW name \in Names,
           NEW s \in SourceIds, NEW k \in 1..(Len(CandidatesOf[u]) + 1),
           Continue(h, u, name, s, k), Named(s, name, u)', Has(s, u, k - 1)'
    PROVE  RequestsHold'
<1>0. Len(CandidatesOf[u]) \in Nat
    BY UploadFacts
<1>1. RequestTypes'
  <2>0. k \in Nat
      BY <1>0
  <2>1. CASE More(u, k)
    <3>1. /\ phase' = [phase EXCEPT ![h] = "upsert"] /\ upload' = [upload EXCEPT ![h] = u]
          /\ named' = [named EXCEPT ![h] = name] /\ source' = [source EXCEPT ![h] = s]
          /\ next' = [next EXCEPT ![h] = k]
        BY <2>1 DEF Continue
    <3>2. disturbed' \subseteq SourceIds /\ answered' = answered /\ latest' = latest
        BY <2>1 DEF Continue, RequestsHold, RequestTypes
    <3> QED
        BY <2>0, <3>1, <3>2 DEF RequestsHold, RequestTypes
  <2>2. CASE ~More(u, k)
    <3>1. answered' \subseteq [name : Names, upload : Uploads, source : SourceIds]
        BY <2>2 DEF RequestsHold, RequestTypes, Continue
    <3>2. latest' \in [SourceIds -> Uploads \cup {None}] /\ disturbed' = disturbed
        BY <2>2 DEF RequestsHold, RequestTypes, Continue
    <3>3. Finish(h)
        BY <2>2 DEF Continue
    <3>4. /\ phase' \in [Handlers -> {"idle", "create", "upsert"}]
          /\ upload' \in [Handlers -> Uploads \cup {None}]
          /\ named' \in [Handlers -> Names \cup {None}]
          /\ source' \in [Handlers -> SourceIds \cup {None}]
          /\ next' \in [Handlers -> Nat]
        BY <3>3 DEF RequestsHold, RequestTypes, Finish
    <3> QED
        BY <3>1, <3>2, <3>4 DEF RequestsHold, RequestTypes
  <2> QED
      BY <2>1, <2>2
<1>2. ASSUME NEW g \in Handlers PROVE HandlerHolds(g)'
  <2>1. CASE g = h
    <3>1. CASE phase'[h] = "idle"
        BY <2>1, <3>1 DEF HandlerHolds
    <3>2. CASE phase'[h] # "idle"
      <4>1. /\ upload'[h] = u /\ named'[h] = name /\ source'[h] = s /\ next'[h] = k
            /\ k \in 1..Len(CandidatesOf[u])
          BY <1>0, <3>2 DEF RequestsHold, RequestTypes, Continue, Finish, More
      <4> QED
          BY <2>1, <4>1 DEF HandlerHolds, Named, Has
    <3> QED
        BY <3>1, <3>2
  <2>2. CASE g # h
    <3>1. Idles(g)
        BY <2>2 DEF RequestsHold, RequestTypes, Continue, Finish, Idles
    <3> QED
        BY <3>1, IdlerHolds DEF RequestsHold, HandlersHold
  <2> QED
      BY <2>1, <2>2
<1>3. ASSUME NEW a \in answered'
      PROVE  Named(a.source, a.name, a.upload)'
             /\ Has(a.source, a.upload, Len(CandidatesOf[a.upload]))'
  <2>1. CASE a \in answered
      BY <2>1, AnsweredHolds DEF RequestsHold
  <2>2. CASE a \notin answered
    <3>1. a = [name |-> name, upload |-> u, source |-> s] /\ k - 1 = Len(CandidatesOf[u])
        BY <1>0, <2>2 DEF Continue, More
    <3> QED
        BY <3>1
  <2> QED
      BY <2>1, <2>2
<1> QED
    BY <1>1, <1>2, <1>3 DEF RequestsHold, HandlersHold, AnsweredHold

-----------------------------------------------------------------------------
(* The rest of TypeOK.                                                     *)
TableTypes ==
    /\ sources \in [SourceIds -> Source \cup {None}]
    /\ candidates \in [SourceIds -> [ExternalIds -> Candidates \cup {None}]]
    /\ \A s \in SourceIds, id \in ExternalIds :
         candidates[s][id] # None => candidates[s][id].id = id
    /\ decided \subseteq SourceIds \X ExternalIds
    /\ failures \in Nat
    /\ refused \in {0, 1}

LEMMA TypeOKParts == TypeOK <=> TableTypes /\ RequestTypes
    BY DEF TypeOK, TableTypes, RequestTypes

TablesGood == TableTypes /\ TablesHold

LEMMA NewSourceStep ==
    ASSUME TablesGood, NEW s \in SourceIds, NEW name \in Names, NEW type \in SourceTypes,
           sources[s] = None, ~IndexRefuses(name, type),
           sources' = [sources EXCEPT ![s] = [name |-> name, type |-> type]],
           candidates' = candidates, decided' = decided, failures' = failures, refused' = refused
    PROVE  TablesGood' /\ Grows /\ sources'[s] = [name |-> name, type |-> type]
<1> DEFINE new == [name |-> name, type |-> type]
<1>1. new \in Source /\ new # None
    BY IngestionAssumption DEF Source
<1>2. \A t \in SourceIds : sources[t] # new
    BY DEF IndexRefuses, Existing
<1>3. sources' = [sources EXCEPT ![s] = new]
    OBVIOUS
<1> HIDE DEF new
<1>4. TableTypes'
    BY <1>1, <1>3 DEF TablesGood, TableTypes
<1>5. TablesHold'
    BY <1>1, <1>2, <1>3 DEF TablesGood, TableTypes, TablesHold
<1>6. Grows /\ sources'[s] = new
    BY <1>3 DEF TablesGood, TableTypes, Grows
<1> QED
    BY <1>4, <1>5, <1>6 DEF TablesGood, new

LEMMA StoreStep ==
    ASSUME TypeOK, TablesHold, NEW s \in SourceIds, sources[s] # None,
           NEW c \in Candidates, c # None, c.id \in ExternalIds,
           candidates' = Stored(s, c), sources' = sources, decided' = decided,
           failures' \in Nat, refused' = refused
    PROVE  TablesGood' /\ Grows /\ candidates'[s][c.id] # None
<1>1. /\ candidates' \in [SourceIds -> [ExternalIds -> Candidates \cup {None}]]
      /\ \A t \in SourceIds, id \in ExternalIds :
            candidates'[t][id] # None => candidates'[t][id].id = id
      /\ \A t \in SourceIds, id \in ExternalIds :
            t # s \/ id # c.id => candidates'[t][id] = candidates[t][id]
      /\ <<s, c.id>> \in decided \/ candidates'[s][c.id] = c
      /\ <<s, c.id>> \in decided => candidates' = candidates
    BY StoredFacts
<1>2. TableTypes'
    BY <1>1, TypeOKParts DEF TableTypes
<1>3. candidates'[s][c.id] # None
    BY <1>1 DEF TablesHold
<1>4. TablesHold'
    BY <1>1, <1>3 DEF TablesHold
<1>5. Grows
    BY <1>1, <1>3 DEF Grows
<1> QED
    BY <1>2, <1>3, <1>4, <1>5 DEF TablesGood

LEMMA SameTables ==
    ASSUME TablesGood, sources' = sources, candidates' = candidates, decided' = decided,
           failures' \in Nat, refused' \in {0, 1}
    PROVE  TablesGood' /\ Grows
    BY DEF TablesGood, TableTypes, TablesHold, Grows

SafeInv == TablesGood /\ RequestsHold

LEMMA SafeInvTypeOK == SafeInv => TypeOK /\ TablesHold
    BY TypeOKParts DEF SafeInv, TablesGood, RequestsHold

(* What request h is about to store.                                       *)
Current(h) == CandidatesOf[upload[h]][next[h]]

LEMMA CurrentFacts ==
    ASSUME SafeInv, NEW h \in Handlers, phase[h] = "upsert"
    PROVE  /\ upload[h] \in Uploads /\ named[h] \in Names /\ source[h] \in SourceIds
           /\ next[h] \in 1..Len(CandidatesOf[upload[h]])
           /\ Named(source[h], named[h], upload[h]) /\ sources[source[h]] # None
           /\ Has(source[h], upload[h], next[h] - 1)
           /\ Current(h) \in Candidates /\ Current(h) # None /\ Current(h).id \in ExternalIds
<1>1. /\ upload[h] \in Uploads /\ named[h] \in Names /\ source[h] \in SourceIds
      /\ next[h] \in 1..Len(CandidatesOf[upload[h]])
      /\ Named(source[h], named[h], upload[h])
      /\ Has(source[h], upload[h], next[h] - 1)
    BY DEF SafeInv, RequestsHold, HandlersHold, HandlerHolds
<1>2. TypeOf[upload[h]] \in SourceTypes
    BY <1>1, IngestionAssumption
<1>3. sources[source[h]] # None
    BY <1>1, <1>2, IngestionAssumption DEF Named, Source
<1> QED
    BY <1>1, <1>3, UploadFacts DEF Current

LEMMA SafeStep ==
    SafeInv /\ [Next]_vars => SafeInv'
<1> USE DEF vars, handlerVars, historyVars
<1> SUFFICES ASSUME SafeInv, [Next]_vars PROVE SafeInv'
    OBVIOUS
<1>0. /\ TablesGood /\ TypeOK /\ TablesHold /\ RequestsHold
      /\ failures \in Nat /\ refused \in {0, 1} /\ disturbed \subseteq SourceIds
    BY SafeInvTypeOK DEF SafeInv, TypeOK
<1>1. ASSUME NEW h \in Handlers, NEW u \in Uploads, NEW name \in Names, EnsureByName(h, u, name)
      PROVE  SafeInv'
  <2>1. TablesGood' /\ Grows
      BY <1>0, <1>1, SameTables DEF EnsureByName
  <2>2. CASE Existing(name, TypeOf[u]) = {}
    <3>1. RequestTypes'
        BY <1>0, <1>1, <2>2 DEF EnsureByName, RequestsHold, RequestTypes
    <3>2. ASSUME NEW g \in Handlers PROVE HandlerHolds(g)'
      <4>1. CASE g = h
          BY <1>0, <1>1, <2>2, <4>1 DEF EnsureByName, RequestsHold, RequestTypes, HandlerHolds
      <4>2. CASE g # h
        <5>1. Idles(g)
            BY <1>0, <1>1, <2>2, <4>2 DEF EnsureByName, RequestsHold, RequestTypes, Idles
        <5> QED
            BY <1>0, <2>1, <5>1, IdlerHolds DEF RequestsHold, HandlersHold
      <4> QED
          BY <4>1, <4>2
    <3>3. AnsweredHold'
      <4>1. answered' = answered
          BY <1>1, <2>2 DEF EnsureByName
      <4> QED
          BY <1>0, <2>1, <4>1, AnsweredHolds DEF RequestsHold, AnsweredHold
    <3> QED
        BY <2>1, <3>1, <3>2, <3>3 DEF SafeInv, RequestsHold, HandlersHold
  <2>3. ASSUME NEW s \in Existing(name, TypeOf[u]), Continue(h, u, name, s, 1) PROVE SafeInv'
    <3>1. s \in SourceIds /\ Named(s, name, u)'
        BY <1>1 DEF Existing, Named, EnsureByName
    <3>2. Has(s, u, 1 - 1)' /\ 1 \in 1..(Len(CandidatesOf[u]) + 1)
        BY UploadFacts DEF Has
    <3> QED
        BY <1>0, <2>1, <2>3, <3>1, <3>2, ContinueStep DEF SafeInv
  <2> QED
      BY <1>1, <2>2, <2>3 DEF EnsureByName
<1>2. ASSUME NEW h \in Handlers, NEW u \in Uploads, NEW s \in SourceIds, GetSource(h, u, s)
      PROVE  SafeInv'
  <2>1. TablesGood' /\ Grows
      BY <1>0, <1>2, SameTables DEF GetSource
  <2>2. sources[s] \in Source /\ sources[s].type = TypeOf[u] /\ sources' = sources
      BY <1>0, <1>2 DEF GetSource, TypeOK
  <2>3. PICK name \in Names : name = sources[s].name
      BY <2>2 DEF Source
  <2>4. Named(s, name, u)'
      BY <2>2, <2>3 DEF Named, Source
  <2>5. Has(s, u, 1 - 1)' /\ 1 \in 1..(Len(CandidatesOf[u]) + 1)
      BY UploadFacts DEF Has
  <2>6. Continue(h, u, name, s, 1)
      BY <1>2, <2>3 DEF GetSource
  <2> QED
      BY <1>0, <2>1, <2>4, <2>5, <2>6, ContinueStep DEF SafeInv
<1>3. ASSUME NEW h \in Handlers, CreateSource(h) PROVE SafeInv'
  <2>1. PICK u \in Uploads, name \in Names : u = upload[h] /\ name = named[h]
      BY <1>0, <1>3 DEF CreateSource, RequestsHold, HandlersHold, HandlerHolds
  <2>2. TypeOf[u] \in SourceTypes
      BY IngestionAssumption
  <2>3. CASE IndexRefuses(name, TypeOf[u])
    <3>1. /\ Finish(h) /\ refused' \in {0, 1} /\ failures' \in Nat
          /\ sources' = sources /\ candidates' = candidates /\ decided' = decided
          /\ answered' = answered /\ latest' = latest /\ disturbed' \subseteq SourceIds
        BY <1>0, <1>3, <2>1, <2>3 DEF CreateSource
    <3>2. TablesGood' /\ Grows
        BY <1>0, <3>1, SameTables
    <3> QED
        BY <1>0, <3>1, <3>2, FinishStep DEF SafeInv
  <2>4. CASE ~IndexRefuses(name, TypeOf[u])
    <3>1. PICK s \in SourceIds :
            /\ sources[s] = None
            /\ sources' = [sources EXCEPT ![s] = [name |-> name, type |-> TypeOf[u]]]
            /\ Continue(h, u, name, s, 1)
        BY <1>3, <2>1, <2>4 DEF CreateSource
    <3>2. /\ candidates' = candidates /\ decided' = decided
          /\ failures' = failures /\ refused' = refused
        BY <1>3, <2>1, <2>4 DEF CreateSource
    <3>3. TablesGood' /\ Grows /\ Named(s, name, u)'
      <4>1. TablesGood' /\ Grows /\ sources'[s] = [name |-> name, type |-> TypeOf[u]]
          BY <1>0, <2>2, <2>4, <3>1, <3>2, NewSourceStep
      <4> QED
          BY <4>1 DEF Named
    <3>4. Has(s, u, 1 - 1)' /\ 1 \in 1..(Len(CandidatesOf[u]) + 1)
        BY UploadFacts DEF Has
    <3> QED
        BY <1>0, <3>1, <3>3, <3>4, ContinueStep DEF SafeInv
  <2> QED
      BY <2>3, <2>4
<1>4. ASSUME NEW h \in Handlers, phase[h] = "upsert", failures' \in Nat, refused' = refused,
             candidates' = Stored(source[h], Current(h)), sources' = sources, decided' = decided
      PROVE  TablesGood' /\ Grows /\ candidates'[source[h]][Current(h).id] # None
  <2>1. /\ source[h] \in SourceIds /\ sources[source[h]] # None
        /\ Current(h) \in Candidates /\ Current(h) # None /\ Current(h).id \in ExternalIds
      BY <1>4, CurrentFacts
  <2>2. PICK s \in SourceIds, c \in Candidates : s = source[h] /\ c = Current(h)
      BY <2>1
  <2> QED
      BY <1>0, <1>4, <2>1, <2>2, StoreStep
<1>5. ASSUME NEW h \in Handlers, Upsert(h) PROVE SafeInv'
  <2>1. PICK u \in Uploads, name \in Names, s \in SourceIds, n \in 1..Len(CandidatesOf[upload[h]]) :
          u = upload[h] /\ name = named[h] /\ s = source[h] /\ n = next[h]
      BY <1>5, CurrentFacts DEF Upsert
  <2>2. TablesGood' /\ Grows /\ candidates'[s][CandidatesOf[u][n].id] # None
      BY <1>0, <1>4, <1>5, <2>1 DEF Upsert, Current
  <2>3. n - 1 \in 0..Len(CandidatesOf[u]) /\ n + 1 \in 1..(Len(CandidatesOf[u]) + 1)
        /\ (n + 1) - 1 = n
      BY <2>1, UploadFacts
  <2>4. Named(s, name, u)' /\ Has(s, u, n - 1)'
    <3>1. Named(s, name, u) /\ Has(s, u, n - 1)
        BY <1>5, <2>1, CurrentFacts DEF Upsert
    <3> QED
        BY <2>2, <2>3, <3>1, NamedStays, HasStays
  <2>5. Has(s, u, (n + 1) - 1)'
    <3>1. \A k \in 1..n : k \in 1..(n - 1) \/ k = n
        BY <2>3
    <3> QED
        BY <2>2, <2>3, <2>4, <3>1 DEF Has
  <2>6. Continue(h, u, name, s, n + 1)
      BY <1>5, <2>1 DEF Upsert
  <2> QED
      BY <1>0, <2>2, <2>3, <2>4, <2>5, <2>6, ContinueStep DEF SafeInv
<1>6. ASSUME NEW h \in Handlers, Fail(h) PROVE SafeInv'
  <2>1. /\ Finish(h) /\ sources' = sources /\ decided' = decided /\ failures' \in Nat
        /\ refused' = refused /\ answered' = answered /\ latest' = latest
      BY <1>0, <1>6 DEF Fail
  <2>2. disturbed' \subseteq SourceIds
    <3>1. phase[h] = "upsert" => source[h] \in SourceIds
        BY <1>6, CurrentFacts
    <3> QED
        BY <1>0, <1>6, <3>1 DEF Fail
  <2>3. CASE candidates' = candidates
    <3>1. TablesGood' /\ Grows
        BY <1>0, <2>1, <2>3, SameTables
    <3> QED
        BY <1>0, <2>1, <2>2, <3>1, FinishStep DEF SafeInv
  <2>4. CASE phase[h] = "upsert" /\ candidates' = Stored(source[h], Current(h))
    <3>1. TablesGood' /\ Grows
        BY <1>4, <2>1, <2>4
    <3> QED
        BY <1>0, <2>1, <2>2, <3>1, FinishStep DEF SafeInv
  <2> QED
      BY <1>6, <2>3, <2>4 DEF Fail, Current
<1>7. ASSUME Grows, handlerVars' = handlerVars, historyVars' = historyVars PROVE RequestsHold'
  <2>1. RequestTypes'
      BY <1>0, <1>7 DEF RequestsHold, RequestTypes
  <2>2. \A g \in Handlers : HandlerHolds(g)'
    <3>1. \A g \in Handlers : Idles(g)
        BY <1>7 DEF Idles
    <3> QED
        BY <1>0, <1>7, <3>1, IdlerHolds DEF RequestsHold, HandlersHold
  <2>3. AnsweredHold'
    <3>1. answered' = answered
        BY <1>7
    <3> QED
        BY <1>0, <1>7, <3>1, AnsweredHolds DEF RequestsHold, AnsweredHold
  <2> QED
      BY <2>1, <2>2, <2>3 DEF RequestsHold, HandlersHold
<1>8. ASSUME NEW s \in SourceIds, NEW name \in Names, NEW type \in SourceTypes,
             Create(s, name, type)
      PROVE  SafeInv'
  <2>1. TablesGood' /\ Grows
      BY <1>0, <1>8, NewSourceStep DEF Create
  <2> QED
      BY <1>7, <1>8, <2>1 DEF SafeInv, Create
<1>9. ASSUME NEW s \in SourceIds, NEW id \in ExternalIds, Decide(s, id) PROVE SafeInv'
  <2>1. TablesGood' /\ Grows
      BY <1>0, <1>9 DEF Decide, TablesGood, TableTypes, TablesHold, Grows
  <2> QED
      BY <1>7, <1>9, <2>1 DEF SafeInv, Decide
<1>10. CASE UNCHANGED vars
  <2>1. TablesGood' /\ Grows
      BY <1>0, <1>10, SameTables
  <2> QED
      BY <1>7, <1>10, <2>1 DEF SafeInv
<1> QED
    BY <1>1, <1>2, <1>3, <1>5, <1>6, <1>8, <1>9, <1>10 DEF Next

-----------------------------------------------------------------------------
(* A source that a step leaves alone.                                      *)
LEMMA OthersShow ==
    ASSUME NEW s \in SourceIds, ImportShows(s), LatestShows(s),
           Importing(s)' = Importing(s), candidates'[s] = candidates[s], decided \subseteq decided',
           latest'[s] = latest[s],
           \A g \in Importing(s) : upload'[g] = upload[g] /\ next'[g] = next[g]
    PROVE  ImportShows(s)' /\ LatestShows(s)'
<1>1. ASSUME NEW u, NEW n, Shows(s, u, n) PROVE Shows(s, u, n)'
    BY <1>1 DEF Shows
<1>2. ASSUME NEW h \in Importing(s)' PROVE Importing(s)' = {h} /\ Shows(s, upload[h], next[h] - 1)'
  <2>1. Importing(s) = {h} /\ Shows(s, upload[h], next[h] - 1)
      BY <1>2 DEF ImportShows
  <2>2. PICK u, n : u = upload[h] /\ n = next[h] - 1 /\ upload'[h] = u /\ next'[h] - 1 = n
      BY <2>1
  <2>3. Shows(s, u, n)'
      BY <1>1, <2>1, <2>2
  <2> QED
      BY <2>1, <2>2, <2>3 DEF Shows
<1>3. ASSUME latest'[s] # None, Importing(s)' = {}
      PROVE  Shows(s, latest[s], Len(CandidatesOf[latest[s]]))'
  <2>1. PICK u : u = latest[s]
      OBVIOUS
  <2>2. Shows(s, u, Len(CandidatesOf[u]))'
      BY <1>1, <1>3, <2>1 DEF LatestShows
  <2> QED
      BY <2>1, <2>2 DEF Shows
<1> QED
    BY <1>2, <1>3 DEF ImportShows, LatestShows

LEMMA ContinueShows ==
    ASSUME RequestTypes, ShowsInv, NEW h \in Handlers, NEW u \in Uploads, NEW name \in Names,
           NEW s \in SourceIds, NEW k \in 1..(Len(CandidatesOf[u]) + 1),
           Continue(h, u, name, s, k),
           \A t \in SourceIds \ {s} : candidates'[t] = candidates[t],
           decided \subseteq decided',
           \/ k = 1 /\ phase[h] # "upsert" /\ candidates' = candidates
           \/ /\ k > 1 /\ phase[h] = "upsert" /\ source[h] = s
              /\ s \notin disturbed => Shows(s, u, k - 1)'
    PROVE  ShowsInv'
<1>0. Len(CandidatesOf[u]) \in Nat
    BY UploadFacts
<1>1. \A g \in Handlers \ {h} : Idles(g)
    BY DEF RequestTypes, Continue, Finish, Idles
<1>2. \/ /\ More(u, k) /\ phase'[h] = "upsert" /\ source'[h] = s
         /\ upload'[h] = u /\ next'[h] = k /\ latest' = latest
         /\ disturbed' = IF k = 1 /\ Importing(s) # {} THEN disturbed \cup {s} ELSE disturbed
      \/ /\ ~More(u, k) /\ phase'[h] = "idle" /\ disturbed' = disturbed
         /\ latest' = [latest EXCEPT ![s] = IF k = 1 THEN @ ELSE u]
    BY DEF RequestTypes, Continue, Finish
<1>3. disturbed \subseteq disturbed'
    BY <1>2
<1>4. ASSUME NEW t \in SourceIds \ disturbed', t # s PROVE ImportShows(t)' /\ LatestShows(t)'
  <2>1. Importing(t)' = Importing(t) /\ h \notin Importing(t)
      BY <1>1, <1>2, <1>4 DEF Importing, Idles
  <2>2. latest'[t] = latest[t]
      BY <1>2, <1>4 DEF RequestTypes
  <2>3. \A g \in Importing(t) : upload'[g] = upload[g] /\ next'[g] = next[g]
      BY <1>1, <2>1 DEF Importing, Idles
  <2> QED
      BY <1>3, <1>4, <2>1, <2>2, <2>3, OthersShow DEF ShowsInv
<1>5. ASSUME s \notin disturbed' PROVE ImportShows(s)' /\ LatestShows(s)'
  <2>0. ImportShows(s) /\ LatestShows(s)
      BY <1>3, <1>5 DEF ShowsInv
  <2>1. CASE k = 1 /\ More(u, k)
    <3>1. Importing(s) = {}
        BY <1>2, <1>5, <2>1
    <3>2. Importing(s)' = {h}
        BY <1>1, <1>2, <2>1, <3>1 DEF Importing, Idles
    <3>3. Shows(s, upload[h], next[h] - 1)'
        BY <1>2, <2>1 DEF Shows
    <3> QED
        BY <3>2, <3>3 DEF ImportShows, LatestShows
  <2>2. CASE k = 1 /\ ~More(u, k)
    <3>1. Importing(s)' = Importing(s) /\ h \notin Importing(s)
        BY <1>1, <1>2, <2>2 DEF Importing, Idles
    <3>2. latest'[s] = latest[s]
        BY <1>2, <2>2 DEF RequestTypes
    <3>3. \A g \in Importing(s) : upload'[g] = upload[g] /\ next'[g] = next[g]
        BY <1>1, <3>1 DEF Importing, Idles
    <3> QED
        BY <2>0, <2>2, <3>1, <3>2, <3>3, OthersShow
  <2>3. CASE k > 1
    <3>1. Importing(s) = {h}
        BY <2>0, <2>3 DEF ImportShows, Importing
    <3>2. Shows(s, u, k - 1)'
        BY <1>3, <1>5, <2>3
    <3>3. CASE More(u, k)
      <4>1. Importing(s)' = {h}
          BY <1>1, <1>2, <3>1, <3>3 DEF Importing, Idles
      <4>2. Shows(s, upload[h], next[h] - 1)'
          BY <1>2, <3>2, <3>3 DEF Shows
      <4> QED
          BY <4>1, <4>2 DEF ImportShows, LatestShows
    <3>4. CASE ~More(u, k)
      <4>1. Importing(s)' = {}
          BY <1>1, <1>2, <3>1, <3>4 DEF Importing, Idles
      <4>2. latest'[s] = u /\ Len(CandidatesOf[u]) = k - 1
          BY <1>0, <1>2, <2>3, <3>4 DEF RequestTypes, More
      <4>3. Shows(s, latest[s], Len(CandidatesOf[latest[s]]))'
          BY <3>2, <4>2 DEF Shows
      <4> QED
          BY <4>1, <4>3 DEF ImportShows, LatestShows
    <3> QED
        BY <3>3, <3>4
  <2> QED
      BY <2>1, <2>2, <2>3
<1> QED
    BY <1>4, <1>5 DEF ShowsInv

(* The candidate that an import stores is shown, and so are those before   *)
(* it that have another id.                                                *)
LEMMA UpsertShows ==
    ASSUME SafeInv, NEW h \in Handlers, phase[h] = "upsert",
           candidates' = Stored(source[h], Current(h)), decided' = decided,
           NEW u \in Uploads, u = upload[h], NEW s \in SourceIds, s = source[h],
           NEW n \in 1..Len(CandidatesOf[u]), n = next[h]
    PROVE  /\ \A t \in SourceIds \ {s} : candidates'[t] = candidates[t]
           /\ Shows(s, u, n - 1) => Shows(s, u, n)'
<1> DEFINE c == CandidatesOf[u][n]
<1>0. c = Current(h) /\ Len(CandidatesOf[u]) \in Nat /\ TypeOK
    BY UploadFacts, SafeInvTypeOK DEF Current
<1>1. c \in Candidates /\ c # None /\ c.id \in ExternalIds
    BY UploadFacts
<1>2. candidates' = Stored(s, c)
    BY <1>0
<1>3. /\ \A t \in SourceIds, id \in ExternalIds :
            t # s \/ id # c.id => candidates'[t][id] = candidates[t][id]
      /\ <<s, c.id>> \in decided \/ candidates'[s][c.id] = c
  <2> HIDE DEF c
  <2> QED
      BY <1>0, <1>1, <1>2, StoredFacts
<1>4. \A t \in SourceIds \ {s} : candidates'[t] = candidates[t]
    BY <1>0, <1>2 DEF Stored, TypeOK
<1>5. ASSUME Shows(s, u, n - 1), NEW k \in 1..n
      PROVE  \/ \E j \in (k + 1)..n : CandidatesOf[u][j].id = CandidatesOf[u][k].id
             \/ <<s, CandidatesOf[u][k].id>> \in decided'
             \/ candidates'[s][CandidatesOf[u][k].id] = CandidatesOf[u][k]
  <2>1. CASE k = n
      BY <1>3, <2>1
  <2>2. CASE k # n /\ CandidatesOf[u][k].id = c.id
      BY <1>0, <2>2
  <2>3. CASE k # n /\ CandidatesOf[u][k].id # c.id
    <3>1. k \in 1..(n - 1)
        BY <1>0, <2>3
    <3>2. \/ \E j \in (k + 1)..(n - 1) : CandidatesOf[u][j].id = CandidatesOf[u][k].id
          \/ <<s, CandidatesOf[u][k].id>> \in decided
          \/ candidates[s][CandidatesOf[u][k].id] = CandidatesOf[u][k]
        BY <1>5, <3>1 DEF Shows
    <3>3. CandidatesOf[u][k].id \in ExternalIds
        BY <1>0, UploadFacts
    <3>4. candidates'[s][CandidatesOf[u][k].id] = candidates[s][CandidatesOf[u][k].id]
        BY <1>3, <2>3, <3>3
    <3>5. \A j \in (k + 1)..(n - 1) : j \in (k + 1)..n
        BY <1>0
    <3> QED
        BY <3>2, <3>4, <3>5
  <2> QED
      BY <2>1, <2>2, <2>3
<1> QED
    BY <1>4, <1>5 DEF Shows

LEMMA ShowsStep ==
    SafeInv /\ ShowsInv /\ [Next]_vars => ShowsInv'
<1> USE DEF vars, handlerVars, historyVars
<1> SUFFICES ASSUME SafeInv, ShowsInv, [Next]_vars PROVE ShowsInv'
    OBVIOUS
<1>0. TypeOK /\ RequestsHold /\ RequestTypes
    BY SafeInvTypeOK DEF SafeInv, RequestsHold
<1>1. ASSUME disturbed \subseteq disturbed', latest' = latest, decided \subseteq decided',
             NEW busy \in SUBSET Handlers,
             \A g \in busy : Idles(g),
             \A g \in Handlers \ busy : phase'[g] # "upsert",
             \A g \in Handlers \ busy : phase[g] = "upsert" => source[g] \in disturbed',
             \A t \in SourceIds \ disturbed' : candidates'[t] = candidates[t]
      PROVE  ShowsInv'
  <2>1. ASSUME NEW t \in SourceIds \ disturbed' PROVE ImportShows(t)' /\ LatestShows(t)'
    <3>1. Importing(t)' = Importing(t) /\ Importing(t) \subseteq busy
        BY <1>1 DEF Importing, Idles
    <3>2. \A g \in Importing(t) : upload'[g] = upload[g] /\ next'[g] = next[g]
        BY <1>1, <3>1 DEF Idles
    <3> QED
        BY <1>1, <3>1, <3>2, OthersShow DEF ShowsInv
  <2> QED
      BY <2>1 DEF ShowsInv
<1>2. ASSUME NEW h \in Handlers, NEW u \in Uploads, NEW name \in Names, NEW s \in SourceIds,
             phase[h] # "upsert", candidates' = candidates, decided' = decided,
             Continue(h, u, name, s, 1)
      PROVE  ShowsInv'
  <2>1. 1 \in 1..(Len(CandidatesOf[u]) + 1)
      BY UploadFacts
  <2> QED
      BY <1>0, <1>2, <2>1, ContinueShows
<1>3. ASSUME NEW h \in Handlers, NEW u \in Uploads, NEW name \in Names, EnsureByName(h, u, name)
      PROVE  ShowsInv'
  <2>1. CASE Existing(name, TypeOf[u]) = {}
    <3>1. \A g \in Handlers \ {h} : Idles(g)
        BY <1>0, <1>3, <2>1 DEF EnsureByName, RequestTypes, Idles
    <3>2. phase'[h] # "upsert" /\ phase[h] # "upsert"
        BY <1>0, <1>3, <2>1 DEF EnsureByName, RequestTypes
    <3>3. /\ disturbed' = disturbed /\ latest' = latest /\ decided' = decided
          /\ candidates' = candidates
        BY <1>3, <2>1 DEF EnsureByName
    <3> QED
        BY <1>1, <3>1, <3>2, <3>3
  <2>2. CASE \E s \in Existing(name, TypeOf[u]) : Continue(h, u, name, s, 1)
    <3>1. PICK s \in SourceIds : Continue(h, u, name, s, 1)
        BY <2>2 DEF Existing
    <3> QED
        BY <1>2, <1>3, <3>1 DEF EnsureByName
  <2> QED
      BY <1>3, <2>1, <2>2 DEF EnsureByName
<1>4. ASSUME NEW h \in Handlers, NEW u \in Uploads, NEW s \in SourceIds, GetSource(h, u, s)
      PROVE  ShowsInv'
  <2>1. PICK name \in Names : name = sources[s].name
      BY <1>0, <1>4 DEF GetSource, TypeOK, Source
  <2> QED
      BY <1>2, <1>4, <2>1 DEF GetSource
<1>5. ASSUME NEW h \in Handlers, CreateSource(h) PROVE ShowsInv'
  <2>1. PICK u \in Uploads, name \in Names : u = upload[h] /\ name = named[h]
      BY <1>0, <1>5 DEF CreateSource, RequestsHold, HandlersHold, HandlerHolds
  <2>2. CASE Finish(h) /\ UNCHANGED <<sources, answered, latest, disturbed>>
    <3>1. \A g \in Handlers \ {h} : Idles(g)
        BY <1>0, <2>2 DEF Finish, RequestTypes, Idles
    <3>2. phase'[h] # "upsert" /\ phase[h] # "upsert"
        BY <1>0, <1>5, <2>2 DEF CreateSource, Finish, RequestTypes
    <3> QED
        BY <1>1, <1>5, <2>2, <3>1, <3>2 DEF CreateSource
  <2>3. CASE \E s \in SourceIds : Continue(h, u, name, s, 1)
      BY <1>2, <1>5, <2>3 DEF CreateSource
  <2> QED
      BY <1>5, <2>1, <2>2, <2>3 DEF CreateSource
<1>6. ASSUME NEW h \in Handlers, Upsert(h) PROVE ShowsInv'
  <2>1. PICK u \in Uploads, name \in Names, s \in SourceIds, n \in 1..Len(CandidatesOf[upload[h]]) :
          u = upload[h] /\ name = named[h] /\ s = source[h] /\ n = next[h]
      BY <1>6, CurrentFacts DEF Upsert
  <2>2. /\ phase[h] = "upsert" /\ candidates' = Stored(source[h], Current(h))
        /\ decided' = decided /\ Continue(h, u, name, s, n + 1)
      BY <1>6, <2>1 DEF Upsert, Current
  <2>3. /\ \A t \in SourceIds \ {s} : candidates'[t] = candidates[t]
        /\ Shows(s, u, n - 1) => Shows(s, u, n)'
      BY <2>1, <2>2, UpsertShows
  <2>4. s \notin disturbed => Shows(s, u, n - 1)
      BY <2>1, <2>2 DEF ShowsInv, ImportShows, Importing
  <2>5. n + 1 \in 1..(Len(CandidatesOf[u]) + 1) /\ (n + 1) - 1 = n /\ n + 1 > 1
      BY <2>1, UploadFacts
  <2> QED
      BY <1>0, <2>1, <2>2, <2>3, <2>4, <2>5, ContinueShows
<1>7. ASSUME NEW h \in Handlers, Fail(h) PROVE ShowsInv'
  <2>1. \A g \in Handlers \ {h} : Idles(g)
      BY <1>0, <1>7 DEF Fail, Finish, RequestTypes, Idles
  <2>2. phase'[h] # "upsert" /\ (phase[h] = "upsert" => source[h] \in disturbed')
      BY <1>0, <1>7 DEF Fail, Finish, RequestTypes
  <2>3. disturbed \subseteq disturbed' /\ latest' = latest /\ decided' = decided
      BY <1>7 DEF Fail
  <2>4. \A t \in SourceIds \ disturbed' : candidates'[t] = candidates[t]
    <3>1. CASE candidates' = candidates
        BY <3>1
    <3>2. CASE phase[h] = "upsert" /\ candidates' = Stored(source[h], Current(h))
      <4>1. PICK u \in Uploads, s \in SourceIds, n \in 1..Len(CandidatesOf[upload[h]]) :
              u = upload[h] /\ s = source[h] /\ n = next[h]
          BY <3>2, CurrentFacts
      <4> QED
          BY <2>2, <2>3, <3>2, <4>1, UpsertShows
    <3> QED
        BY <1>7, <3>1, <3>2 DEF Fail, Current
  <2> QED
      BY <1>1, <2>1, <2>2, <2>3, <2>4
<1>8. ASSUME handlerVars' = handlerVars, historyVars' = historyVars, candidates' = candidates,
             decided \subseteq decided'
      PROVE  ShowsInv'
  <2>1. \A g \in Handlers : Idles(g)
      BY <1>8 DEF Idles
  <2> QED
      BY <1>1, <1>8, <2>1
<1>9. ASSUME NEW s \in SourceIds, NEW name \in Names, NEW type \in SourceTypes,
             Create(s, name, type)
      PROVE  ShowsInv'
    BY <1>8, <1>9 DEF Create
<1>10. ASSUME NEW s \in SourceIds, NEW id \in ExternalIds, Decide(s, id) PROVE ShowsInv'
    BY <1>8, <1>10 DEF Decide
<1>11. CASE UNCHANGED vars
    BY <1>8, <1>11
<1> QED
    BY <1>3, <1>4, <1>5, <1>6, <1>7, <1>9, <1>10, <1>11 DEF Next

-----------------------------------------------------------------------------
IngestionInv == SafeInv /\ ShowsInv

LEMMA InitInv == Init => IngestionInv
<1> SUFFICES ASSUME Init PROVE IngestionInv
    OBVIOUS
<1>1. TableTypes /\ RequestTypes
    BY DEF Init, TableTypes, RequestTypes
<1>2. TablesHold /\ HandlersHold /\ AnsweredHold
    BY DEF Init, TablesHold, HandlersHold, HandlerHolds, AnsweredHold
<1>3. ShowsInv
    BY DEF Init, ShowsInv, ImportShows, LatestShows, Importing
<1> QED
    BY <1>1, <1>2, <1>3 DEF IngestionInv, SafeInv, TablesGood, RequestsHold

LEMMA InvHolds == Spec => []IngestionInv
<1>1. IngestionInv /\ [Next]_vars => IngestionInv'
    BY SafeStep, ShowsStep DEF IngestionInv
<1> QED
    BY InitInv, <1>1, PTL DEF Spec

(* The tables and the requests of every import stay well typed.            *)
THEOREM TypeCorrect == Spec => []TypeOK
<1>1. IngestionInv => TypeOK
    BY SafeInvTypeOK DEF IngestionInv
<1> QED
    BY InvHolds, <1>1, PTL

(* All imports for one name and type share a source, however they race to  *)
(* create it (store/source_repo.go:59).                                    *)
THEOREM ImportsShare == Spec => []ImportsShareASource
<1>1. IngestionInv => ImportsShareASource
  <2> SUFFICES ASSUME IngestionInv, NEW a \in answered, NEW b \in answered,
                      a.name = b.name, TypeOf[a.upload] = TypeOf[b.upload]
               PROVE  a.source = b.source
      BY DEF ImportsShareASource
  <2>1. /\ a.source \in SourceIds /\ b.source \in SourceIds
        /\ a.name \in Names /\ TypeOf[a.upload] \in SourceTypes
      BY IngestionAssumption DEF IngestionInv, SafeInv, RequestsHold, RequestTypes
  <2>2. /\ sources[a.source] = [name |-> a.name, type |-> TypeOf[a.upload]]
        /\ sources[b.source] = [name |-> a.name, type |-> TypeOf[a.upload]]
      BY DEF IngestionInv, SafeInv, RequestsHold, AnsweredHold, Named
  <2>3. sources[a.source] # None
      BY <2>1, <2>2, IngestionAssumption DEF Source
  <2> QED
      BY <2>1, <2>2, <2>3 DEF IngestionInv, SafeInv, TablesGood, TablesHold
<1> QED
    BY InvHolds, <1>1, PTL

LEMMA OneType ==
    ASSUME NEW c \in Candidates, NEW d \in Candidates, c.id = d.id, Unambiguous(c.id)
    PROVE  c.type = d.type
    BY DEF Unambiguous, Ambiguous, ExternalIds

LEMMA RowFacts ==
    ASSUME TypeOK, NEW s \in SourceIds, NEW id \in ExternalIds, candidates[s][id] # None,
           NEW c \in Candidates, c.id = id, Unambiguous(id)
    PROVE  candidates[s][id].type = c.type
    BY OneType DEF TypeOK

(* Whatever runs beside an answered import and after it, what it found is  *)
(* in the table (engine/source_ingestion.go:107).                          *)
THEOREM AnsweredStays == Spec => []AnsweredIsStored
<1>1. IngestionInv => AnsweredIsStored
  <2> SUFFICES ASSUME IngestionInv, NEW a \in answered, NEW k \in DOMAIN CandidatesOf[a.upload]
               PROVE  LET c == CandidatesOf[a.upload][k]
                      IN  /\ candidates[a.source][c.id] # None
                          /\ Unambiguous(c.id) => candidates[a.source][c.id].type = c.type
      BY DEF AnsweredIsStored
  <2>1. TypeOK /\ a.source \in SourceIds /\ a.upload \in Uploads
      BY SafeInvTypeOK DEF IngestionInv, SafeInv, RequestsHold, RequestTypes
  <2>2. k \in 1..Len(CandidatesOf[a.upload])
      BY <2>1, UploadFacts
  <2>3. /\ CandidatesOf[a.upload][k] \in Candidates
        /\ CandidatesOf[a.upload][k].id \in ExternalIds
      BY <2>1, <2>2, UploadFacts
  <2>4. candidates[a.source][CandidatesOf[a.upload][k].id] # None
      BY <2>2 DEF IngestionInv, SafeInv, RequestsHold, AnsweredHold, Has
  <2> QED
      BY <2>1, <2>3, <2>4, RowFacts
<1> QED
    BY InvHolds, <1>1, PTL

(* Where imports neither overlap nor end half way, the source shows the    *)
(* last one, but for what was decided (store/candidate_repo.go:18).        *)
THEOREM LastImportStays == Spec => []LastImportShows
<1>1. IngestionInv => LastImportShows
    BY DEF IngestionInv, ShowsInv, LatestShows, LastImportShows
<1> QED
    BY InvHolds, <1>1, PTL

-----------------------------------------------------------------------------
(* What a stored candidate refers to is stored in source s.                *)
Target(s, ref) ==
    /\ ref.id \in ExternalIds
    /\ candidates[s][ref.id] # None
    /\ Unambiguous(ref.id) => candidates[s][ref.id].type = ref.type

TargetsHold ==
    \A s \in SourceIds, id \in ExternalIds :
        sources[s] # None /\ sources[s].type # "manual" /\ candidates[s][id] # None =>
            \A ref \in candidates[s][id].refs : Target(s, ref)

LEMMA TargetStays ==
    ASSUME TypeOK, TypeOK', Grows, NEW s \in SourceIds, NEW ref, Target(s, ref)
    PROVE  Target(s, ref)'
<1>1. candidates'[s][ref.id] # None
    BY DEF Target, Grows
<1>2. /\ candidates[s][ref.id] \in Candidates /\ candidates[s][ref.id].id = ref.id
      /\ candidates'[s][ref.id] \in Candidates /\ candidates'[s][ref.id].id = ref.id
    BY <1>1 DEF TypeOK, Target
<1> QED
    BY <1>1, <1>2, OneType DEF Target

(* A row is new only where an import stores it, and its targets precede it. *)
LEMMA TargetsStore ==
    ASSUME SafeInv, SafeInv', Grows, TargetsFirst, TargetsHold,
           NEW h \in Handlers, phase[h] = "upsert", sources' = sources,
           candidates' = Stored(source[h], Current(h))
    PROVE  TargetsHold'
<1>0. TypeOK /\ TypeOK'
  <2>1. TypeOK' <=> TableTypes' /\ RequestTypes'
      BY DEF TypeOK, TableTypes, RequestTypes
  <2> QED
      BY <2>1, SafeInvTypeOK DEF SafeInv, TablesGood, RequestsHold
<1>1. PICK u \in Uploads, name \in Names, s \in SourceIds, n \in 1..Len(CandidatesOf[upload[h]]) :
        u = upload[h] /\ name = named[h] /\ s = source[h] /\ n = next[h]
    BY CurrentFacts
<1>2. Named(s, name, u) /\ Has(s, u, n - 1)
    BY <1>1, CurrentFacts
<1>3. PICK c : c = CandidatesOf[u][n]
    OBVIOUS
<1>4. c \in Candidates /\ c # None /\ c.id \in ExternalIds
    BY <1>1, <1>3, UploadFacts
<1>5. candidates' = Stored(s, c)
    BY <1>1, <1>3 DEF Current
<1>6. ASSUME TypeOf[u] # "manual", NEW ref \in c.refs PROVE Target(s, ref)
  <2>1. PICK j \in 1..(n - 1) :
          CandidatesOf[u][j].id = ref.id /\ CandidatesOf[u][j].type = ref.type
    <3>1. n \in DOMAIN CandidatesOf[u]
        BY <1>1, UploadFacts
    <3> QED
        BY <1>3, <1>6, <3>1 DEF TargetsFirst
  <2>2. j \in 1..Len(CandidatesOf[u])
      BY <1>1, UploadFacts
  <2>3. CandidatesOf[u][j] \in Candidates /\ CandidatesOf[u][j].id \in ExternalIds
      BY <2>2, UploadFacts
  <2>4. candidates[s][ref.id] # None
      BY <1>2, <2>1 DEF Has
  <2> QED
      BY <1>0, <2>1, <2>3, <2>4, RowFacts DEF Target
<1>7. ASSUME NEW t \in SourceIds, NEW id \in ExternalIds,
             sources'[t] # None, sources'[t].type # "manual", candidates'[t][id] # None,
             NEW ref \in candidates'[t][id].refs
      PROVE  Target(t, ref)
  <2>1. CASE candidates'[t][id] = candidates[t][id]
      BY <1>7, <2>1 DEF TargetsHold
  <2>2. CASE candidates'[t][id] # candidates[t][id]
    <3>0. /\ \A r \in SourceIds, i \in ExternalIds :
                r # s \/ i # c.id => Stored(s, c)[r][i] = candidates[r][i]
          /\ <<s, c.id>> \in decided \/ Stored(s, c)[s][c.id] = c
          /\ <<s, c.id>> \in decided => Stored(s, c) = candidates
        BY <1>0, <1>4, StoredFacts
    <3>1. t = s /\ candidates'[t][id] = c
        BY <1>5, <1>7, <2>2, <3>0
    <3>2. TypeOf[u] # "manual"
        BY <1>2, <1>7, <3>1 DEF Named
    <3> QED
        BY <1>6, <1>7, <3>1, <3>2
  <2> QED
      BY <2>1, <2>2
<1> QED
    BY <1>0, <1>7, TargetStays DEF TargetsHold

LEMMA TargetsStep ==
    ASSUME TargetsFirst, SafeInv, TargetsHold, [Next]_vars
    PROVE  TargetsHold'
<1> USE DEF vars, handlerVars, historyVars
<1>0. SafeInv' /\ TypeOK /\ TypeOK' /\ TablesHold
  <2>1. SafeInv'
      BY SafeStep
  <2>2. TypeOK' <=> TableTypes' /\ RequestTypes'
      BY DEF TypeOK, TableTypes, RequestTypes
  <2> QED
      BY <2>1, <2>2, SafeInvTypeOK DEF SafeInv, TablesGood, RequestsHold
<1>1. ASSUME candidates' = candidates, sources' = sources PROVE TargetsHold'
    BY <1>1 DEF TargetsHold, Target
<1>2. ASSUME NEW h \in Handlers, phase[h] = "upsert", sources' = sources, decided' = decided,
             candidates' = Stored(source[h], Current(h))
      PROVE  TargetsHold'
  <2>1. PICK s \in SourceIds, c \in Candidates :
          /\ s = source[h] /\ c = Current(h) /\ c # None /\ c.id \in ExternalIds
      BY <1>2, CurrentFacts
  <2>2. Grows
    <3>0. candidates' = Stored(s, c)
        BY <1>2, <2>1
    <3>1. /\ \A t \in SourceIds, id \in ExternalIds :
                t # s \/ id # c.id => Stored(s, c)[t][id] = candidates[t][id]
          /\ <<s, c.id>> \in decided \/ Stored(s, c)[s][c.id] = c
          /\ <<s, c.id>> \in decided => Stored(s, c) = candidates
        BY <1>0, <2>1, StoredFacts
    <3> QED
        BY <1>2, <2>1, <3>0, <3>1 DEF Grows
  <2> QED
      BY <1>0, <1>2, <2>2, TargetsStore
<1>3. ASSUME NEW s \in SourceIds, sources[s] = None, NEW row,
             sources' = [sources EXCEPT ![s] = row], candidates' = candidates
      PROVE  TargetsHold'
  <2>1. \A t \in SourceIds, id \in ExternalIds :
          candidates[t][id] # None => sources[t] # None /\ sources'[t] = sources[t]
      BY <1>0, <1>3 DEF TablesHold, TypeOK
  <2> QED
      BY <1>3, <2>1 DEF TargetsHold, Target
<1>4. ASSUME NEW h \in Handlers, CreateSource(h) PROVE TargetsHold'
  <2>1. CASE sources' = sources
      BY <1>1, <1>4, <2>1 DEF CreateSource
  <2>2. CASE \E s \in SourceIds :
               /\ sources[s] = None
               /\ sources' = [sources EXCEPT ![s] = [name |-> named[h], type |-> TypeOf[upload[h]]]]
      BY <1>3, <1>4, <2>2 DEF CreateSource
  <2> QED
      BY <1>4, <2>1, <2>2 DEF CreateSource
<1>5. ASSUME NEW h \in Handlers, Upsert(h) PROVE TargetsHold'
    BY <1>2, <1>5 DEF Upsert, Current
<1>6. ASSUME NEW h \in Handlers, Fail(h) PROVE TargetsHold'
    BY <1>1, <1>2, <1>6 DEF Fail, Current
<1>7. ASSUME NEW s \in SourceIds, NEW name \in Names, NEW type \in SourceTypes,
             Create(s, name, type)
      PROVE  TargetsHold'
    BY <1>3, <1>7 DEF Create
<1> QED
  <2>1. CASE UNCHANGED vars
      BY <1>1, <2>1
  <2>2. ASSUME NEW h \in Handlers, NEW u \in Uploads, NEW name \in Names, EnsureByName(h, u, name)
        PROVE  TargetsHold'
      BY <1>1, <2>2 DEF EnsureByName
  <2>3. ASSUME NEW h \in Handlers, NEW u \in Uploads, NEW s \in SourceIds, GetSource(h, u, s)
        PROVE  TargetsHold'
      BY <1>1, <2>3 DEF GetSource
  <2>4. ASSUME NEW s \in SourceIds, NEW id \in ExternalIds, Decide(s, id) PROVE TargetsHold'
      BY <1>1, <2>4 DEF Decide
  <2> QED
      BY <1>4, <1>5, <1>6, <1>7, <2>1, <2>2, <2>3, <2>4 DEF Next

(* If every upload names targets first, as dify.Map does, no stored        *)
(* candidate ever lacks what it depends on, wherever an import ends        *)
(* (adapters/dify/mapper.go:49).                                           *)
THEOREM ReferencesFollow == TargetsFirst /\ Spec => []ReferencesFollowTargets
<1>1. Init => TargetsHold
    BY DEF Init, TargetsHold
<1>2. TargetsFirst /\ IngestionInv /\ TargetsHold /\ [Next]_vars => TargetsHold'
    BY TargetsStep DEF IngestionInv
<1>3. TargetsHold => ReferencesFollowTargets
    BY DEF TargetsHold, Target, ReferencesFollowTargets
<1>4. TargetsFirst => TargetsFirst'
    BY DEF TargetsFirst
<1> QED
    BY InvHolds, <1>1, <1>2, <1>3, <1>4, PTL DEF Spec
=============================================================================
