----------------------- MODULE DependencyLinkingProofs -----------------------
(***************************************************************************)
(* For any number of overlapping requests, puts and failures, an edge is   *)
(* never invented (EdgesAreDeclared), and what a PUT has set is undone     *)
(* only by a request that held a copy of the record (PutsAreKept).         *)
(* Without overlapping registrations no reference is lost                  *)
(* (ReferencesAreKept), and a relink that completes leaves nothing on its  *)
(* page unlinked that can be (RelinkRepairs).  All for every instance.     *)
(***************************************************************************)
EXTENDS DependencyLinking, TLAPS

DeclaredEdge(c, target) ==
    /\ target \in Registered
    /\ target # c
    /\ \E ref \in DependsOn[c] : Satisfies(target, ref)

(* Only declared references are ever pending, and only on a registered     *)
(* capability.                                                             *)
PendingIsDeclared ==
    \A c \in Capabilities :
        /\ pending[c] \subseteq DependsOn[c]
        /\ pending[c] # {} => c \in Registered

(* The lookups order rows by created_at: every set of rows has an oldest.  *)
RowsAreOrdered ==
    \A rows \in SUBSET (DOMAIN registry) :
        rows # {} => \E i \in rows : \A j \in rows : i <= j

(* What a request under way holds stays true whatever is registered,       *)
(* stored or put meanwhile, because registered capabilities stay.          *)
HoldsDeclared(s) ==
    /\ s.capability \in Registered
    /\ s.todo \subseteq DependsOn[s.capability]
    /\ s.unresolved \subseteq DependsOn[s.capability]
    /\ \A target \in s.resolved : DeclaredEdge(s.capability, target)
    /\ \A w \in s.rest :
         /\ w.place \in DOMAIN registry
         /\ w.capability \in Registered
         /\ w.refs \subseteq DependsOn[w.capability]

HandlersHoldDeclared ==
    \A h \in Handlers : ~At(h, "idle") => HoldsDeclared(handlers[h])

LinkingInv ==
    /\ TypeOK
    /\ EdgesAreDeclared
    /\ PendingIsDeclared
    /\ RowsAreOrdered
    /\ HandlersHoldDeclared

-----------------------------------------------------------------------------
(* A lookup finds a registered capability with that external id, or none.  *)
LEMMA FindIsRegistered ==
    ASSUME TypeOK, RowsAreOrdered, NEW c \in Capabilities, NEW e \in ExternalIds,
           FindByExternalID(c, e) # None
    PROVE  /\ FindByExternalID(c, e) \in Registered
           /\ FindByExternalID(c, e) \in Capabilities
           /\ ExternalId[FindByExternalID(c, e)] = e
<1> DEFINE all     == {i \in DOMAIN registry : ExternalId[registry[i]] = e}
           Same(i) == System[registry[i]] = System[c]
           same    == {i \in all : Same(i)}
           First(i) == \A j \in all : \/ Same(i) /\ ~Same(j)
                                      \/ Same(i) = Same(j) /\ i <= j
           row     == CHOOSE i \in all : First(i)
<1>1. all # {} /\ FindByExternalID(c, e) = registry[row]
  BY DEF FindByExternalID
<1>2. \E i \in all : First(i)
  <2>1. CASE same # {}
    <3>1. PICK i \in same : \A j \in same : i <= j
      BY <2>1 DEF RowsAreOrdered
    <3> QED BY <3>1
  <2>2. CASE same = {}
    <3>1. PICK i \in all : \A j \in all : i <= j
      BY <1>1 DEF RowsAreOrdered
    <3>2. \A j \in all : Same(j) = FALSE
      BY <2>2
    <3> QED BY <3>1, <3>2
  <2> QED BY <2>1, <2>2
<1> HIDE DEF First
<1>3. row \in all
  BY <1>2
<1>4. row \in DOMAIN registry /\ ExternalId[registry[row]] = e
  BY <1>3
<1> HIDE DEF row
<1>5. registry[row] \in Capabilities
  BY <1>4 DEF TypeOK
<1> QED BY <1>1, <1>4, <1>5 DEF Registered

LEMMA RegisteredAreCapabilities ==
    ASSUME TypeOK
    PROVE  Registered \subseteq Capabilities
BY DEF TypeOK, Registered

LEMMA IdleIsHandler == Idle \in Handler /\ Idle.phase = "idle"
BY DEF Idle, Handler, Phases

LEMMA OldestWaits ==
    ASSUME RowsAreOrdered, NEW s, HoldsDeclared(s), s.rest # {}
    PROVE  Oldest(s.rest) \in s.rest
<1> DEFINE places == {w.place : w \in s.rest}
<1>1. \E i \in places : \A j \in places : i <= j
  <2>1. places \in SUBSET (DOMAIN registry) /\ places # {}
    BY DEF HoldsDeclared
  <2> HIDE DEF places
  <2> QED BY <2>1 DEF RowsAreOrdered
<1>2. \E w \in s.rest : \A v \in s.rest : w.place <= v.place
  BY <1>1
<1> QED BY <1>2 DEF Oldest

(* RelinkPending goes on with a capability of its snapshot, or ends.       *)
LEMMA NextCapabilityHolds ==
    ASSUME TypeOK, RowsAreOrdered, NEW s \in Handler, HoldsDeclared(s)
    PROVE  /\ NextCapability(s) \in Handler
           /\ NextCapability(s).phase # "idle" => HoldsDeclared(NextCapability(s))
<1>1. CASE s.rest = {}
  BY <1>1, IdleIsHandler DEF NextCapability
<1>2. CASE s.rest # {}
  <2> DEFINE next == Oldest(s.rest)
             new == [s EXCEPT !.phase = "resolve", !.capability = next.capability,
                              !.content = next.content, !.todo = next.refs, !.resolved = {}, !.unresolved = {},
                              !.rest = @ \ {next}]
  <2>3. next \in s.rest
    BY <1>2, OldestWaits
  <2>4. NextCapability(s) = new
    BY <1>2 DEF NextCapability
  <2> HIDE DEF next
  <2>5. /\ next \in Snapshot
        /\ next.capability \in Registered
        /\ next.refs \subseteq DependsOn[next.capability]
        /\ next.capability \in Capabilities
        /\ next.refs \in SUBSET Ref
        /\ next.content \in Nat
    BY <2>3 DEF Handler, HoldsDeclared, Snapshot
  <2>6. /\ new \in Handler
        /\ new.capability = next.capability
        /\ new.todo = next.refs
        /\ new.resolved = {}
        /\ new.unresolved = {}
        /\ new.rest \subseteq s.rest
    BY <2>5 DEF Handler, Phases
  <2> HIDE DEF new
  <2>7. HoldsDeclared(new)
    BY <2>5, <2>6 DEF HoldsDeclared
  <2> QED BY <2>4, <2>6, <2>7
<1> QED BY <1>1, <1>2

(* A request that only moves on keeps the invariant.                       *)
LEMMA HandlerMovesOn ==
    ASSUME LinkingInv, NEW h \in Handlers, NEW s \in Handler,
           s.phase # "idle" => HoldsDeclared(s),
           handlers' = [handlers EXCEPT ![h] = s],
           UNCHANGED <<registry, failures, overlapped, puts, wiped, given, raced>>,
           content' \in [Capabilities -> Nat],
           interrupted' \subseteq Capabilities, relinked' \in BOOLEAN,
           edges' \in [Capabilities -> SUBSET Capabilities],
           \A c \in Capabilities : \A target \in edges'[c] :
               c \in Registered /\ DeclaredEdge(c, target),
           pending' \in [Capabilities -> SUBSET Ref],
           \A c \in Capabilities :
               /\ pending'[c] \subseteq DependsOn[c]
               /\ pending'[c] # {} => c \in Registered
    PROVE  LinkingInv'
<1> USE DEF LinkingInv
<1>1. \A g \in Handlers : handlers'[g] = IF g = h THEN s ELSE handlers[g]
  BY DEF TypeOK
<1>2. \A x : HoldsDeclared(x) => HoldsDeclared(x)'
  BY DEF HoldsDeclared, Registered, DeclaredEdge
<1>3. ASSUME NEW g \in Handlers, ~At(g, "idle")'
      PROVE  HoldsDeclared(handlers[g])'
  BY <1>1, <1>2, <1>3 DEF HandlersHoldDeclared, At
<1>4. TypeOK'
  <2>1. s.phase # "idle" => s.capability \in Capabilities
    BY RegisteredAreCapabilities DEF HoldsDeclared
  <2> QED BY <1>1, <2>1 DEF TypeOK, At
<1>5. EdgesAreDeclared'
  BY DEF EdgesAreDeclared, DeclaredEdge, Registered
<1>6. PendingIsDeclared'
  BY DEF PendingIsDeclared, Registered
<1>7. RowsAreOrdered'
  BY DEF RowsAreOrdered
<1> QED BY <1>3, <1>4, <1>5, <1>6, <1>7 DEF HandlersHoldDeclared

LEMMA TablesDeclared ==
    ASSUME LinkingInv
    PROVE  /\ edges \in [Capabilities -> SUBSET Capabilities]
           /\ \A c \in Capabilities : \A target \in edges[c] :
                c \in Registered /\ DeclaredEdge(c, target)
           /\ pending \in [Capabilities -> SUBSET Ref]
           /\ \A c \in Capabilities :
                /\ pending[c] \subseteq DependsOn[c]
                /\ pending[c] # {} => c \in Registered
           /\ interrupted \subseteq Capabilities
           /\ relinked \in BOOLEAN
           /\ content \in [Capabilities -> Nat]
BY DEF LinkingInv, TypeOK, EdgesAreDeclared, PendingIsDeclared, DeclaredEdge

LEMMA AfterCreateHolds ==
    ASSUME NEW s \in Handler, HoldsDeclared(s)
    PROVE  /\ AfterCreate(s) \in Handler
           /\ AfterCreate(s).phase # "idle" => HoldsDeclared(AfterCreate(s))
<1>1. CASE s.via = "register"
  <2> DEFINE new == [s EXCEPT !.phase = "list"]
  <2>1. /\ new \in Handler
        /\ new.capability = s.capability
        /\ new.todo = s.todo
        /\ new.resolved = s.resolved
        /\ new.unresolved = s.unresolved
        /\ new.rest = s.rest
    BY DEF Handler, Phases
  <2>2. AfterCreate(s) = new
    BY <1>1 DEF AfterCreate
  <2> HIDE DEF new
  <2> QED BY <2>1, <2>2 DEF HoldsDeclared
<1>2. CASE s.via # "register"
  BY <1>2, IdleIsHandler DEF AfterCreate
<1> QED BY <1>1, <1>2

(* The row of c becomes the newest; nobody's references are touched.       *)
LEMMA InsertPreserves ==
    ASSUME LinkingInv, NEW h \in Handlers, NEW c \in Capabilities,
           NEW via \in Entrances, Insert(h, c, via)
    PROVE  LinkingInv'
<1> USE DEF LinkingInv
<1> DEFINE s0 == [Idle EXCEPT !.phase = "resolve", !.via = via,
                              !.capability = c, !.todo = DependsOn[c]]
           s == AfterInsert(s0)
<1>1. registry \in Seq(Capabilities) /\ registry' = Append(registry, c)
  BY DEF TypeOK, Insert
<1>2. /\ registry' \in Seq(Capabilities)
      /\ DOMAIN registry' = 1..(Len(registry) + 1)
      /\ DOMAIN registry = 1..Len(registry)
      /\ Len(registry) \in Nat
      /\ \A i \in DOMAIN registry : registry'[i] = registry[i]
      /\ registry'[Len(registry) + 1] = c
  BY <1>1
<1>3. Registered' = Registered \cup {c}
  BY <1>2 DEF Registered
<1>4. /\ s0 \in Handler
      /\ s0.capability = c
      /\ s0.todo = DependsOn[c]
      /\ s0.resolved = {} /\ s0.unresolved = {} /\ s0.rest = {}
  BY LinkingAssumption DEF Idle, Handler, Phases
<1>5. handlers' = [handlers EXCEPT ![h] = s]
  BY DEF Insert, Goto
<1> HIDE DEF s0
<1>6. s \in Handler /\ (s = s0 \/ s = [s0 EXCEPT !.phase = "list"] \/ s = Idle)
  <2>1. [s0 EXCEPT !.phase = "list"] \in Handler
    BY <1>4 DEF Handler, Phases
  <2> QED BY <1>4, <2>1, IdleIsHandler DEF AfterInsert, AfterCreate
<1> HIDE DEF s
<1>7. /\ s.phase # "idle" => s.capability = c
      /\ s.phase # "idle" => HoldsDeclared(s)'
  <2>1. CASE s = Idle
    BY <2>1, IdleIsHandler
  <2>2. CASE s = s0 \/ s = [s0 EXCEPT !.phase = "list"]
    <3>1. /\ s.capability = c /\ s.todo = DependsOn[c]
          /\ s.resolved = {} /\ s.unresolved = {} /\ s.rest = {}
      BY <1>4, <2>2 DEF Handler
    <3> QED BY <1>3, <3>1 DEF HoldsDeclared
  <2> QED BY <1>6, <2>1, <2>2
<1>8. \A g \in Handlers : handlers'[g] = IF g = h THEN s ELSE handlers[g]
  BY <1>5 DEF TypeOK
<1>9. /\ UNCHANGED <<pending, edges, failures, interrupted, putVars>>
      /\ relinked' \in BOOLEAN /\ overlapped' \in BOOLEAN
  BY DEF Insert, TypeOK
<1>10. TypeOK'
  BY <1>2, <1>5, <1>6, <1>7, <1>8, <1>9 DEF TypeOK, At, putVars
<1>11. EdgesAreDeclared' /\ PendingIsDeclared'
  BY <1>3, <1>9 DEF EdgesAreDeclared, PendingIsDeclared
<1>12. RowsAreOrdered'
  <2> SUFFICES ASSUME NEW rows \in SUBSET (DOMAIN registry'), rows # {}
               PROVE  \E i \in rows : \A j \in rows : i <= j
    BY DEF RowsAreOrdered
  <2> DEFINE old == rows \cap (DOMAIN registry)
  <2>1. CASE old = {}
    BY <1>2, <2>1
  <2>2. CASE old # {}
    <3>1. PICK i \in old : \A j \in old : i <= j
      BY <2>2 DEF RowsAreOrdered
    <3> QED BY <1>2, <3>1
  <2> QED BY <2>1, <2>2
<1>13. \A x : HoldsDeclared(x) => HoldsDeclared(x)'
  <2>1. \A d, target : DeclaredEdge(d, target) => DeclaredEdge(d, target)'
    BY <1>3 DEF DeclaredEdge
  <2> QED BY <1>2, <1>3, <2>1 DEF HoldsDeclared
<1>14. ASSUME NEW g \in Handlers, ~At(g, "idle")'
       PROVE  HoldsDeclared(handlers[g])'
  BY <1>7, <1>8, <1>13, <1>14 DEF HandlersHoldDeclared, At
<1> QED BY <1>10, <1>11, <1>12, <1>14 DEF HandlersHoldDeclared

(* One lookup: what it finds is a declared edge of the right type, or the  *)
(* reference stays unresolved.                                             *)
LEMMA ResolvedHolds ==
    ASSUME LinkingInv, NEW s \in Handler, HoldsDeclared(s), s.capability \in Capabilities,
           NEW ref \in s.todo
    PROVE  LET r == Resolved(s, ref, FindByExternalID(s.capability, ref.external))
           IN  /\ r \in Handler
               /\ HoldsDeclared(r)
               /\ r.capability = s.capability
               /\ r.content = s.content
               /\ r.rest = s.rest
<1> USE DEF LinkingInv
<1> DEFINE target == FindByExternalID(s.capability, ref.external)
           r == Resolved(s, ref, target)
           rest == [s EXCEPT !.todo = @ \ {ref}]
<1>1. ref \in Ref /\ ref \in DependsOn[s.capability]
  BY DEF Handler, HoldsDeclared
<1>2. target # None => target \in Registered /\ target \in Capabilities
                       /\ ExternalId[target] = ref.external
  BY <1>1, FindIsRegistered DEF Ref
<1> HIDE DEF target
<1>3. /\ rest \in Handler
      /\ rest.capability = s.capability /\ rest.content = s.content
      /\ rest.todo \subseteq s.todo
      /\ rest.resolved = s.resolved
      /\ rest.unresolved = s.unresolved
      /\ rest.rest = s.rest
  BY DEF Handler
<1>4. HoldsDeclared(rest)
  BY <1>3 DEF HoldsDeclared
<1>5. \/ r = [rest EXCEPT !.unresolved = @ \cup {ref}]
      \/ r = rest
      \/ /\ r = [rest EXCEPT !.resolved = @ \cup {target}]
         /\ target # None /\ target # s.capability /\ HasType(target, ref)
  BY DEF Resolved
<1> HIDE DEF rest, r
<1>6. CASE r = [rest EXCEPT !.unresolved = @ \cup {ref}]
  <2>1. /\ r \in Handler
        /\ r.capability = s.capability /\ r.content = s.content /\ r.todo = rest.todo
        /\ r.resolved = rest.resolved /\ r.rest = rest.rest
        /\ r.unresolved = rest.unresolved \cup {ref}
    BY <1>1, <1>3, <1>6 DEF Handler
  <2>2. HoldsDeclared(r)
    BY <1>1, <1>3, <1>4, <2>1 DEF HoldsDeclared
  <2> QED BY <1>3, <2>1, <2>2 DEF r, target
<1>7. CASE r = [rest EXCEPT !.resolved = @ \cup {target}]
           /\ target # None /\ target # s.capability /\ HasType(target, ref)
  <2>1. /\ r \in Handler
        /\ r.capability = s.capability /\ r.content = s.content /\ r.todo = rest.todo
        /\ r.resolved = rest.resolved \cup {target} /\ r.rest = rest.rest
        /\ r.unresolved = rest.unresolved
    BY <1>2, <1>3, <1>7 DEF Handler
  <2>2. DeclaredEdge(s.capability, target)
    BY <1>1, <1>2, <1>7 DEF DeclaredEdge, Satisfies
  <2>3. HoldsDeclared(r)
    BY <1>3, <1>4, <2>1, <2>2 DEF HoldsDeclared
  <2> QED BY <1>3, <2>1, <2>3 DEF r, target
<1>8. CASE r = rest
  BY <1>3, <1>4, <1>8 DEF r, target
<1> QED BY <1>5, <1>6, <1>7, <1>8

LEMMA ResolvePreserves ==
    ASSUME LinkingInv, NEW h \in Handlers, Resolve(h)
    PROVE  LinkingInv'
<1> USE DEF LinkingInv
<1> DEFINE s == handlers[h]
<1>1. PICK ref \in s.todo :
        /\ Goto(h, AfterResolve(Resolved(s, ref, FindByExternalID(s.capability, ref.external))))
        /\ relinked' \in BOOLEAN
  BY DEF Resolve, TypeOK
<1>2. s \in Handler /\ HoldsDeclared(s) /\ s.capability \in Capabilities
  BY DEF TypeOK, Resolve, At, HandlersHoldDeclared
<1> DEFINE r == Resolved(s, ref, FindByExternalID(s.capability, ref.external))
<1>5. r \in Handler /\ HoldsDeclared(r)
  BY <1>2, ResolvedHolds
<1> DEFINE n == AfterResolve(r)
<1>6. n \in Handler /\ (n.phase # "idle" => HoldsDeclared(n))
  <2> HIDE DEF r
  <2>1. ASSUME NEW phase \in {"store", "merge"}
        PROVE  [r EXCEPT !.phase = phase] \in Handler /\ HoldsDeclared([r EXCEPT !.phase = phase])
    <3> DEFINE m == [r EXCEPT !.phase = phase]
    <3>1. /\ m \in Handler
          /\ m.capability = r.capability /\ m.todo = r.todo /\ m.resolved = r.resolved
          /\ m.unresolved = r.unresolved /\ m.rest = r.rest
      BY <1>5 DEF Handler, Phases
    <3> HIDE DEF m
    <3>2. HoldsDeclared(m)
      BY <1>5, <3>1 DEF HoldsDeclared
    <3> QED BY <3>1, <3>2 DEF m
  <2>2. NextCapability(r) \in Handler
        /\ (NextCapability(r).phase # "idle" => HoldsDeclared(NextCapability(r)))
    BY <1>5, NextCapabilityHolds
  <2> QED BY <1>5, <2>1, <2>2 DEF AfterResolve
<1>7. handlers' = [handlers EXCEPT ![h] = n]
  BY <1>1 DEF Goto
<1> HIDE DEF n
<1>8. UNCHANGED <<registry, pending, edges, failures, interrupted, overlapped, putVars>>
  BY DEF Resolve
<1> QED BY <1>1, <1>6, <1>7, <1>8, TablesDeclared, HandlerMovesOn DEF putVars

LEMMA ListForPreserves ==
    ASSUME LinkingInv, NEW h \in Handlers, ListFor(h)
    PROVE  LinkingInv'
<1> USE DEF LinkingInv
<1> DEFINE s == handlers[h]
           n == [s EXCEPT !.phase = "store", !.resolved = edges[s.capability] \cup @]
<1>1. s \in Handler /\ HoldsDeclared(s) /\ s.capability \in Capabilities
  BY DEF TypeOK, ListFor, At, HandlersHoldDeclared
<1>2. /\ edges[s.capability] \subseteq Capabilities
      /\ \A target \in edges[s.capability] : DeclaredEdge(s.capability, target)
  BY <1>1, TablesDeclared
<1>3. handlers' = [handlers EXCEPT ![h] = n]
  BY DEF ListFor, Goto
<1> HIDE DEF s
<1>4. /\ n \in Handler
      /\ n.capability = s.capability /\ n.todo = s.todo
      /\ n.resolved = edges[s.capability] \cup s.resolved
      /\ n.unresolved = s.unresolved /\ n.rest = s.rest
  BY <1>1, <1>2 DEF Handler, Phases
<1> HIDE DEF n
<1>5. HoldsDeclared(n)
  BY <1>1, <1>2, <1>4 DEF HoldsDeclared
<1>6. UNCHANGED <<registry, pending, edges, failures, interrupted, relinked, overlapped,
                  putVars>>
  BY DEF ListFor
<1> QED BY <1>3, <1>4, <1>5, <1>6, TablesDeclared, HandlerMovesOn DEF putVars

LEMMA StorePreserves ==
    ASSUME LinkingInv, NEW h \in Handlers, Store(h)
    PROVE  LinkingInv'
<1> USE DEF LinkingInv
<1> DEFINE s == handlers[h]
           save == [s EXCEPT !.phase = "save"]
           n == IF s.unresolved = {} /\ ~s.relinking THEN AfterCreate(s) ELSE save
<1>1. s \in Handler /\ HoldsDeclared(s) /\ s.capability \in Capabilities
  BY DEF TypeOK, Store, At, HandlersHoldDeclared
<1>2. /\ handlers' = [handlers EXCEPT ![h] = n]
      /\ edges' = [edges EXCEPT ![s.capability] = s.resolved]
      /\ UNCHANGED <<registry, pending, failures, interrupted, relinked, overlapped, putVars>>
  BY DEF Store, Goto
<1> HIDE DEF s
<1>3. /\ save \in Handler
      /\ save.capability = s.capability /\ save.todo = s.todo /\ save.resolved = s.resolved
      /\ save.unresolved = s.unresolved /\ save.rest = s.rest
  BY <1>1 DEF Handler, Phases
<1> HIDE DEF save
<1>4. HoldsDeclared(save)
  BY <1>1, <1>3 DEF HoldsDeclared
<1>5. n \in Handler /\ (n.phase # "idle" => HoldsDeclared(n))
  BY <1>1, <1>3, <1>4, AfterCreateHolds
<1> HIDE DEF n
<1>6. s.resolved \subseteq Capabilities /\ s.capability \in Registered
      /\ \A target \in s.resolved : DeclaredEdge(s.capability, target)
  BY <1>1 DEF Handler, HoldsDeclared
<1>7. \A c \in Capabilities : edges'[c] = IF c = s.capability THEN s.resolved ELSE edges[c]
  BY <1>2 DEF TypeOK
<1>8. /\ edges' \in [Capabilities -> SUBSET Capabilities]
      /\ \A c \in Capabilities : \A target \in edges'[c] :
           c \in Registered /\ DeclaredEdge(c, target)
  BY <1>2, <1>6, <1>7, TablesDeclared
<1> QED BY <1>2, <1>5, <1>8, TablesDeclared, HandlerMovesOn DEF putVars

LEMMA SavePreserves ==
    ASSUME LinkingInv, NEW h \in Handlers, Save(h)
    PROVE  LinkingInv'
<1> USE DEF LinkingInv
<1> DEFINE s == handlers[h]
           n == IF s.relinking THEN NextCapability(s) ELSE AfterCreate(s)
<1>1. s \in Handler /\ HoldsDeclared(s) /\ s.capability \in Capabilities
  BY DEF TypeOK, Save, At, HandlersHoldDeclared
<1>2. /\ handlers' = [handlers EXCEPT ![h] = n]
      /\ pending' = [pending EXCEPT ![s.capability] = s.unresolved]
      /\ content' = [content EXCEPT ![s.capability] = s.content]
      /\ UNCHANGED <<registry, edges, failures, interrupted, overlapped, puts, wiped, given,
                     raced>>
  BY DEF Save, Goto
<1>3. relinked' \in BOOLEAN
  BY DEF Save, TypeOK
<1> HIDE DEF s
<1>4. n \in Handler /\ (n.phase # "idle" => HoldsDeclared(n))
  BY <1>1, AfterCreateHolds, NextCapabilityHolds
<1> HIDE DEF n
<1>5. s.unresolved \subseteq Ref /\ s.unresolved \subseteq DependsOn[s.capability]
      /\ s.capability \in Registered
  BY <1>1 DEF Handler, HoldsDeclared
<1>6. \A c \in Capabilities : pending'[c] = IF c = s.capability THEN s.unresolved ELSE pending[c]
  BY <1>2 DEF TypeOK
<1>7. /\ pending' \in [Capabilities -> SUBSET Ref]
      /\ \A c \in Capabilities :
           /\ pending'[c] \subseteq DependsOn[c]
           /\ pending'[c] # {} => c \in Registered
  BY <1>2, <1>5, <1>6, TablesDeclared
<1>8. content' \in [Capabilities -> Nat]
  BY <1>1, <1>2, TablesDeclared DEF Handler
<1> QED BY <1>2, <1>3, <1>4, <1>7, <1>8, TablesDeclared, HandlerMovesOn

LEMMA ListPreserves ==
    ASSUME LinkingInv, NEW h \in Handlers, List(h)
    PROVE  LinkingInv'
<1> USE DEF LinkingInv
<1> DEFINE s == handlers[h]
           waits == {i \in Page : pending[registry[i]] # {}}
           rest == Waits
           m == [s EXCEPT !.relinking = TRUE, !.rest = rest]
           n == NextCapability(m)
<1>1. s \in Handler /\ HoldsDeclared(s)
  BY DEF TypeOK, List, At, HandlersHoldDeclared
<1>2. /\ handlers' = [handlers EXCEPT ![h] = n]
      /\ relinked' \in BOOLEAN
      /\ UNCHANGED <<registry, pending, edges, failures, interrupted, overlapped, putVars>>
  BY DEF List, Goto
<1>3. \A i \in waits :
        /\ i \in DOMAIN registry /\ i \in Nat
        /\ registry[i] \in Registered /\ registry[i] \in Capabilities
        /\ pending[registry[i]] \in SUBSET Ref
        /\ pending[registry[i]] \subseteq DependsOn[registry[i]]
        /\ content[registry[i]] \in Nat
  BY TablesDeclared DEF TypeOK, Page, Registered
<1>9. rest = {[place |-> i, capability |-> registry[i], refs |-> pending[registry[i]],
                content |-> content[registry[i]]] : i \in waits}
  BY DEF Waits
<1> HIDE DEF waits
<1>4. /\ rest \subseteq Snapshot
      /\ \A w \in rest : /\ w.place \in DOMAIN registry
                        /\ w.capability \in Registered
                        /\ w.refs \subseteq DependsOn[w.capability]
  BY <1>3, <1>9 DEF Snapshot
<1> HIDE DEF rest, s
<1>5. /\ m \in Handler
      /\ m.capability = s.capability /\ m.todo = s.todo /\ m.resolved = s.resolved
      /\ m.unresolved = s.unresolved /\ m.rest = rest
  BY <1>1, <1>4 DEF Handler
<1> HIDE DEF m
<1>6. HoldsDeclared(m)
  BY <1>1, <1>4, <1>5 DEF HoldsDeclared
<1>7. n \in Handler /\ (n.phase # "idle" => HoldsDeclared(n))
  BY <1>5, <1>6, NextCapabilityHolds
<1> HIDE DEF n
<1> QED BY <1>2, <1>7, TablesDeclared, HandlerMovesOn DEF putVars

LEMMA PutPreserves ==
    ASSUME LinkingInv, NEW c \in Capabilities, Put(c)
    PROVE  LinkingInv'
<1> USE DEF LinkingInv
<1>1. UNCHANGED <<registry, edges, handlers, failures, interrupted, relinked>>
  BY DEF Put
<1>2. \A d \in Capabilities : pending'[d] = IF d = c THEN {} ELSE pending[d]
  BY DEF Put, TypeOK
<1>3. TypeOK'
  <2>1. puts' \in Nat /\ content' \in [Capabilities -> Nat] /\ given' \in [Capabilities -> Nat]
    BY DEF Put, TypeOK
  <2>2. wiped' \subseteq Capabilities /\ raced' \subseteq Capabilities
        /\ pending' \in [Capabilities -> SUBSET Ref]
        /\ overlapped' \in BOOLEAN
    BY DEF Put, TypeOK
  <2> QED BY <1>1, <2>1, <2>2 DEF TypeOK, At
<1>4. EdgesAreDeclared' /\ PendingIsDeclared' /\ RowsAreOrdered'
  BY <1>1, <1>2 DEF EdgesAreDeclared, PendingIsDeclared, RowsAreOrdered, Registered
<1>5. HandlersHoldDeclared'
  BY <1>1 DEF HandlersHoldDeclared, HoldsDeclared, DeclaredEdge, Registered, At
<1> QED BY <1>3, <1>4, <1>5

LEMMA FailPreserves ==
    ASSUME LinkingInv, NEW h \in Handlers, Fail(h)
    PROVE  LinkingInv'
<1> USE DEF LinkingInv
<1>1. /\ handlers' = [handlers EXCEPT ![h] = Idle]
      /\ UNCHANGED <<registry, pending, edges, relinked, overlapped, putVars>>
      /\ failures' = failures + 1
  BY DEF Fail, Goto
<1>2. interrupted' \subseteq Capabilities
  BY DEF Fail, TypeOK
<1>3. \A g \in Handlers : handlers'[g] = IF g = h THEN Idle ELSE handlers[g]
  BY <1>1 DEF TypeOK
<1>4. TypeOK'
  BY <1>1, <1>2, <1>3, IdleIsHandler DEF TypeOK, At, putVars
<1>5. EdgesAreDeclared' /\ PendingIsDeclared' /\ RowsAreOrdered'
  BY <1>1 DEF EdgesAreDeclared, PendingIsDeclared, RowsAreOrdered, Registered
<1>6. HandlersHoldDeclared'
  BY <1>1, <1>3, IdleIsHandler
     DEF HandlersHoldDeclared, HoldsDeclared, DeclaredEdge, Registered, At
<1> QED BY <1>4, <1>5, <1>6

-----------------------------------------------------------------------------
LEMMA LinkingInit == Init => LinkingInv
<1> SUFFICES ASSUME Init PROVE LinkingInv
  OBVIOUS
<1>1. registry = <<>> /\ DOMAIN registry = {} /\ registry \in Seq(Capabilities)
  BY DEF Init
<1>2. TypeOK
  BY <1>1, IdleIsHandler DEF Init, TypeOK, At
<1>3. EdgesAreDeclared /\ PendingIsDeclared /\ RowsAreOrdered
  BY <1>1 DEF Init, EdgesAreDeclared, PendingIsDeclared, RowsAreOrdered
<1>4. HandlersHoldDeclared
  BY IdleIsHandler DEF Init, HandlersHoldDeclared, At
<1> QED BY <1>2, <1>3, <1>4 DEF LinkingInv

LEMMA LinkingStutter == LinkingInv /\ UNCHANGED vars => LinkingInv'
<1> SUFFICES ASSUME LinkingInv, UNCHANGED vars PROVE LinkingInv'
  OBVIOUS
<1> USE DEF LinkingInv
<1>1. TypeOK'
  BY DEF vars, putVars, TypeOK, At
<1>2. EdgesAreDeclared' /\ PendingIsDeclared' /\ RowsAreOrdered'
  BY DEF vars, EdgesAreDeclared, PendingIsDeclared, RowsAreOrdered, Registered
<1>3. HandlersHoldDeclared'
  BY DEF vars, HandlersHoldDeclared, HoldsDeclared, DeclaredEdge, Registered, At
<1> QED BY <1>1, <1>2, <1>3

(* LinkingInv is inductive under any overlap of registrations, posts, puts *)
(* and failures.                                                           *)
THEOREM LinkingInvariant == Spec => []LinkingInv
<1>1. ASSUME LinkingInv, [Next]_vars
      PROVE  LinkingInv'
  <2>1. ASSUME NEW h \in Handlers, NEW c \in Capabilities, NEW via \in Entrances,
               Insert(h, c, via)
        PROVE  LinkingInv'
    BY <1>1, <2>1, InsertPreserves
  <2>2. ASSUME NEW h \in Handlers, Proceed(h)
        PROVE  LinkingInv'
    BY <1>1, <2>2, ResolvePreserves, ListForPreserves, StorePreserves,
       SavePreserves, ListPreserves DEF Proceed
  <2>3. ASSUME NEW h \in Handlers, Fail(h)
        PROVE  LinkingInv'
    BY <1>1, <2>3, FailPreserves
  <2>4. ASSUME NEW c \in Capabilities, Put(c)
        PROVE  LinkingInv'
    BY <1>1, <2>4, PutPreserves
  <2> QED BY <1>1, <2>1, <2>2, <2>3, <2>4, LinkingStutter DEF Next
<1> QED BY LinkingInit, <1>1, PTL DEF Spec

(* No interleaving and no crash makes up an edge: every edge leads to a    *)
(* registered capability that carries the external id and the type of a    *)
(* reference its owner declared.                                           *)
THEOREM EdgesAlwaysDeclared == Spec => []EdgesAreDeclared
BY LinkingInvariant, PTL DEF LinkingInv

(* The rows and the requests' locals are well typed in every interleaving. *)
THEOREM LinkingTypeOK == Spec => []TypeOK
BY LinkingInvariant, PTL DEF LinkingInv

-----------------------------------------------------------------------------
(* A copy of a record that nobody has put since it was made is the record. *)
RestIsCurrent(s) ==
    \A w \in s.rest : w.capability \notin raced => w.content = content[w.capability]

CopyIsCurrent(s) ==
    /\ s.capability \notin raced => s.content = content[s.capability]
    /\ RestIsCurrent(s)

CopiesInv ==
    /\ PutsAreKept
    /\ \A c \in Capabilities : c \notin Registered => content[c] = 0
    /\ \A h \in Handlers : ~At(h, "idle") /\ ~At(h, "list") => CopyIsCurrent(handlers[h])

LEMMA NextCapabilityIsCurrent ==
    ASSUME RowsAreOrdered, NEW s \in Handler, HoldsDeclared(s), RestIsCurrent(s),
           NextCapability(s).phase # "idle"
    PROVE  CopyIsCurrent(NextCapability(s))
<1> DEFINE next == Oldest(s.rest)
           new == [s EXCEPT !.phase = "resolve", !.capability = next.capability,
                            !.content = next.content, !.todo = next.refs, !.resolved = {},
                            !.unresolved = {}, !.rest = @ \ {next}]
<1>1. s.rest # {} /\ NextCapability(s) = new
  BY IdleIsHandler DEF NextCapability
<1>2. next \in s.rest
  BY <1>1, OldestWaits
<1> HIDE DEF next
<1>3. /\ new.capability = next.capability /\ new.content = next.content
      /\ new.rest = s.rest \ {next}
  BY DEF Handler
<1> HIDE DEF new
<1> QED BY <1>1, <1>2, <1>3 DEF CopyIsCurrent, RestIsCurrent

(* A request moves on; the records it writes are those it should write.    *)
LEMMA CopiesMoveOn ==
    ASSUME LinkingInv, LinkingInv', CopiesInv, NEW h \in Handlers, NEW s,
           s.phase \notin {"idle", "list"} => CopyIsCurrent(s),
           handlers' = [handlers EXCEPT ![h] = s],
           UNCHANGED <<registry, raced, given>>,
           \A c \in Capabilities :
               c \notin raced \/ c \notin Registered => content'[c] = content[c]
    PROVE  CopiesInv'
<1>1. \A g \in Handlers : handlers'[g] = IF g = h THEN s ELSE handlers[g]
  BY DEF LinkingInv, TypeOK
<1>2. Registered' = Registered /\ Registered \subseteq Capabilities
  BY RegisteredAreCapabilities DEF Registered, LinkingInv
<1>3. ASSUME NEW x, HoldsDeclared(x), CopyIsCurrent(x)
      PROVE  CopyIsCurrent(x)'
  BY <1>2, <1>3 DEF HoldsDeclared, CopyIsCurrent, RestIsCurrent
<1>4. ASSUME NEW g \in Handlers, ~At(g, "idle")', ~At(g, "list")'
      PROVE  CopyIsCurrent(handlers[g])'
  <2>1. CASE g = h
    <3>1. HoldsDeclared(s)' /\ CopyIsCurrent(s)
      BY <1>1, <1>4, <2>1 DEF At, LinkingInv, HandlersHoldDeclared
    <3>2. HoldsDeclared(s)
      BY <3>1 DEF HoldsDeclared, DeclaredEdge, Registered
    <3> QED BY <1>1, <1>3, <2>1, <3>1, <3>2
  <2>2. CASE g # h
    <3>1. /\ handlers'[g] = handlers[g]
          /\ HoldsDeclared(handlers[g]) /\ CopyIsCurrent(handlers[g])
      BY <1>1, <1>4, <2>2 DEF At, CopiesInv, LinkingInv, HandlersHoldDeclared
    <3> QED BY <1>3, <3>1
  <2> QED BY <2>1, <2>2
<1>5. PutsAreKept'
  BY DEF CopiesInv, PutsAreKept
<1>6. (\A c \in Capabilities : c \notin Registered => content[c] = 0)'
  BY <1>2 DEF CopiesInv
<1> QED BY <1>4, <1>5, <1>6 DEF CopiesInv

LEMMA InsertKeepsCopies ==
    ASSUME LinkingInv, CopiesInv, NEW h \in Handlers, NEW c \in Capabilities,
           NEW via \in Entrances, Insert(h, c, via)
    PROVE  CopiesInv'
<1> DEFINE s0 == [Idle EXCEPT !.phase = "resolve", !.via = via,
                              !.capability = c, !.todo = DependsOn[c]]
           s == AfterInsert(s0)
<1>1. /\ UNCHANGED <<content, given, raced>>
      /\ handlers' = [handlers EXCEPT ![h] = s]
      /\ c \notin Registered
  BY DEF Insert, Goto, putVars
<1>2. \A g \in Handlers : handlers'[g] = IF g = h THEN s ELSE handlers[g]
  BY <1>1 DEF LinkingInv, TypeOK
<1>3. s0.capability = c /\ s0.content = 0 /\ s0.rest = {}
  BY DEF Idle
<1>4. s = s0 \/ s.phase \in {"idle", "list"}
  BY DEF AfterInsert, AfterCreate, Idle
<1> HIDE DEF s, s0
<1>5. CopyIsCurrent(s0)
  BY <1>1, <1>3 DEF CopyIsCurrent, RestIsCurrent, CopiesInv
<1>6. \A x : CopyIsCurrent(x)' <=> CopyIsCurrent(x)
  BY <1>1 DEF CopyIsCurrent, RestIsCurrent
<1>7. ASSUME NEW g \in Handlers, ~At(g, "idle")', ~At(g, "list")'
      PROVE  CopyIsCurrent(handlers[g])'
  <2>1. CASE g = h
    BY <1>2, <1>4, <1>5, <1>6, <1>7, <2>1 DEF At
  <2>2. CASE g # h
    BY <1>2, <1>6, <1>7, <2>2 DEF At, CopiesInv
  <2> QED BY <2>1, <2>2
<1>8. Registered \subseteq Registered'
  <2>1. registry \in Seq(Capabilities) /\ registry' = Append(registry, c)
    BY DEF LinkingInv, TypeOK, Insert
  <2>2. \A i \in DOMAIN registry : i \in DOMAIN registry' /\ registry'[i] = registry[i]
    BY <2>1
  <2> QED BY <2>2 DEF Registered
<1>9. (\A d \in Capabilities : d \notin Registered => content[d] = 0)'
  BY <1>1, <1>8 DEF CopiesInv
<1>10. PutsAreKept'
  BY <1>1 DEF CopiesInv, PutsAreKept
<1> QED BY <1>7, <1>9, <1>10 DEF CopiesInv

LEMMA ResolveKeepsCopies ==
    ASSUME LinkingInv, LinkingInv', CopiesInv, NEW h \in Handlers, Resolve(h)
    PROVE  CopiesInv'
<1> DEFINE s == handlers[h]
<1>1. PICK ref \in s.todo :
        Goto(h, AfterResolve(Resolved(s, ref, FindByExternalID(s.capability, ref.external))))
  BY DEF Resolve
<1> DEFINE r == Resolved(s, ref, FindByExternalID(s.capability, ref.external))
           n == AfterResolve(r)
<1>2. /\ s \in Handler /\ HoldsDeclared(s) /\ CopyIsCurrent(s)
      /\ s.capability \in Capabilities
  BY DEF LinkingInv, TypeOK, Resolve, At, HandlersHoldDeclared, CopiesInv
<1>3. /\ r \in Handler /\ HoldsDeclared(r)
      /\ r.capability = s.capability /\ r.content = s.content /\ r.rest = s.rest
  BY <1>2, ResolvedHolds
<1> HIDE DEF s, r
<1>4. CopyIsCurrent(r) /\ RestIsCurrent(r)
  BY <1>2, <1>3 DEF CopyIsCurrent, RestIsCurrent
<1>5. n.phase \notin {"idle", "list"} => CopyIsCurrent(n)
  <2>1. n \in {r, [r EXCEPT !.phase = "store"], [r EXCEPT !.phase = "merge"]}
        \/ n = NextCapability(r)
    BY DEF AfterResolve
  <2> HIDE DEF n
  <2>2. CASE n \in {r, [r EXCEPT !.phase = "store"], [r EXCEPT !.phase = "merge"]}
    <3>1. n.capability = r.capability /\ n.content = r.content /\ n.rest = r.rest
      BY <1>3, <2>2 DEF Handler
    <3> QED BY <1>4, <3>1 DEF CopyIsCurrent, RestIsCurrent
  <2>3. CASE n = NextCapability(r)
    BY <1>3, <1>4, <2>3, NextCapabilityIsCurrent DEF LinkingInv
  <2> QED BY <2>1, <2>2, <2>3
<1>6. handlers' = [handlers EXCEPT ![h] = n]
  BY <1>1 DEF Goto, r, s
<1>7. UNCHANGED <<registry, raced, given, content>>
  BY DEF Resolve, putVars
<1> HIDE DEF n
<1> QED BY <1>5, <1>6, <1>7, CopiesMoveOn

LEMMA ListForAndStoreKeepCopies ==
    ASSUME LinkingInv, LinkingInv', CopiesInv, NEW h \in Handlers, ListFor(h) \/ Store(h)
    PROVE  CopiesInv'
<1> DEFINE s == handlers[h]
<1>1. s \in Handler /\ CopyIsCurrent(s)
  BY DEF LinkingInv, TypeOK, ListFor, Store, At, CopiesInv
<1>2. UNCHANGED <<registry, raced, given, content>>
  BY DEF ListFor, Store, putVars
<1>3. CASE ListFor(h)
  <2> DEFINE n == [s EXCEPT !.phase = "store", !.resolved = edges[s.capability] \cup @]
  <2>1. handlers' = [handlers EXCEPT ![h] = n]
    BY <1>3 DEF ListFor, Goto
  <2> HIDE DEF s
  <2>2. n.capability = s.capability /\ n.content = s.content /\ n.rest = s.rest
    BY <1>1 DEF Handler
  <2> HIDE DEF n
  <2>3. CopyIsCurrent(n)
    BY <1>1, <2>2 DEF CopyIsCurrent, RestIsCurrent
  <2> QED BY <1>2, <2>1, <2>3, CopiesMoveOn
<1>4. CASE Store(h)
  <2> DEFINE save == [s EXCEPT !.phase = "save"]
             n == IF s.unresolved = {} /\ ~s.relinking THEN AfterCreate(s) ELSE save
  <2>1. handlers' = [handlers EXCEPT ![h] = n]
    BY <1>4 DEF Store, Goto
  <2> HIDE DEF s
  <2>2. save.capability = s.capability /\ save.content = s.content /\ save.rest = s.rest
    BY <1>1 DEF Handler
  <2>3. n = save \/ n.phase \in {"idle", "list"}
    BY <1>1, IdleIsHandler DEF AfterCreate, Handler
  <2> HIDE DEF n, save
  <2>4. n.phase \notin {"idle", "list"} => CopyIsCurrent(n)
    BY <1>1, <2>2, <2>3 DEF CopyIsCurrent, RestIsCurrent
  <2> QED BY <1>2, <2>1, <2>4, CopiesMoveOn
<1> QED BY <1>3, <1>4

(* The update writes the record as this request holds it: only that of a   *)
(* capability put meanwhile can change.                                    *)
LEMMA SaveKeepsCopies ==
    ASSUME LinkingInv, LinkingInv', CopiesInv, NEW h \in Handlers, Save(h)
    PROVE  CopiesInv'
<1> DEFINE s == handlers[h]
           n == IF s.relinking THEN NextCapability(s) ELSE AfterCreate(s)
<1>1. s \in Handler /\ HoldsDeclared(s) /\ CopyIsCurrent(s)
  BY DEF LinkingInv, TypeOK, Save, At, CopiesInv, HandlersHoldDeclared
<1>2. /\ handlers' = [handlers EXCEPT ![h] = n]
      /\ content' = [content EXCEPT ![s.capability] = s.content]
      /\ UNCHANGED <<registry, raced, given>>
  BY DEF Save, Goto
<1> HIDE DEF s
<1>3. n.phase \notin {"idle", "list"} => CopyIsCurrent(n)
  <2>1. CASE s.relinking
    BY <1>1, <2>1, NextCapabilityIsCurrent DEF CopyIsCurrent, LinkingInv
  <2>2. CASE ~s.relinking
    BY <1>1, <2>2, IdleIsHandler DEF AfterCreate, Handler
  <2> QED BY <2>1, <2>2
<1> HIDE DEF n
<1>4. \A c \in Capabilities :
        c \notin raced \/ c \notin Registered => content'[c] = content[c]
  <2>1. \A c \in Capabilities :
          content'[c] = IF c = s.capability THEN s.content ELSE content[c]
    BY <1>2 DEF LinkingInv, TypeOK
  <2> QED BY <1>1, <2>1 DEF CopyIsCurrent, HoldsDeclared
<1> QED BY <1>2, <1>3, <1>4, CopiesMoveOn

LEMMA ListKeepsCopies ==
    ASSUME LinkingInv, LinkingInv', CopiesInv, NEW h \in Handlers, List(h)
    PROVE  CopiesInv'
<1> DEFINE s == handlers[h]
           m == [s EXCEPT !.relinking = TRUE, !.rest = Waits]
           n == NextCapability(m)
<1>1. s \in Handler /\ HoldsDeclared(s)
  BY DEF LinkingInv, TypeOK, List, At, HandlersHoldDeclared
<1>2. handlers' = [handlers EXCEPT ![h] = n] /\ UNCHANGED <<registry, raced, given, content>>
  BY DEF List, Goto, putVars
<1>3. \A w \in Waits : /\ w \in Snapshot
                       /\ w.place \in DOMAIN registry
                       /\ w.capability \in Registered
                       /\ w.refs \subseteq DependsOn[w.capability]
                       /\ w.content = content[w.capability]
  <2>1. /\ registry \in Seq(Capabilities)
        /\ content \in [Capabilities -> Nat]
        /\ pending \in [Capabilities -> SUBSET Ref]
        /\ \A c \in Capabilities : pending[c] \subseteq DependsOn[c]
    BY DEF LinkingInv, TypeOK, PendingIsDeclared
  <2>2. \A i \in Page :
          /\ i \in DOMAIN registry /\ i \in Nat
          /\ registry[i] \in Registered /\ registry[i] \in Capabilities
          /\ pending[registry[i]] \in SUBSET Ref
          /\ pending[registry[i]] \subseteq DependsOn[registry[i]]
          /\ content[registry[i]] \in Nat
    BY <2>1 DEF Page, Registered
  <2> QED BY <2>2 DEF Waits, Snapshot
<1> HIDE DEF s
<1>4. /\ m \in Handler
      /\ m.capability = s.capability /\ m.todo = s.todo /\ m.resolved = s.resolved
      /\ m.unresolved = s.unresolved /\ m.rest = Waits
  BY <1>1, <1>3 DEF Handler
<1> HIDE DEF m
<1>5. HoldsDeclared(m) /\ RestIsCurrent(m)
  BY <1>1, <1>3, <1>4 DEF HoldsDeclared, RestIsCurrent
<1>6. n.phase # "idle" => CopyIsCurrent(n)
  BY <1>4, <1>5, NextCapabilityIsCurrent DEF LinkingInv
<1> HIDE DEF n
<1> QED BY <1>2, <1>6, CopiesMoveOn

(* A PUT races exactly with the requests that hold a copy of its record.   *)
LEMMA PutKeepsCopies ==
    ASSUME LinkingInv, CopiesInv, NEW c \in Capabilities, Put(c)
    PROVE  CopiesInv'
<1>1. /\ UNCHANGED <<registry, handlers>>
      /\ \A d \in Capabilities : content'[d] = IF d = c THEN puts' ELSE content[d]
      /\ \A d \in Capabilities : given'[d] = IF d = c THEN puts' ELSE given[d]
      /\ c \in Registered
  BY DEF Put, LinkingInv, TypeOK
<1>2. raced \ {c} \subseteq raced'
      /\ ((\E h \in Handlers : Holds(h, c)) => c \in raced')
  BY DEF Put
<1>3. ASSUME NEW h \in Handlers, ~At(h, "idle")', ~At(h, "list")'
      PROVE  CopyIsCurrent(handlers[h])'
  <2> DEFINE s == handlers[h]
  <2>1. CopyIsCurrent(s) /\ ~At(h, "idle") /\ ~At(h, "list") /\ HoldsDeclared(s)
    BY <1>1, <1>3 DEF At, CopiesInv, LinkingInv, HandlersHoldDeclared
  <2>2. s.capability \in Capabilities /\ \A w \in s.rest : w.capability \in Capabilities
    BY <2>1, RegisteredAreCapabilities DEF HoldsDeclared, LinkingInv
  <2>3. s.capability = c \/ (\E w \in s.rest : w.capability = c) => c \in raced'
    BY <1>2, <2>1 DEF Holds
  <2>4. s.capability \notin raced' => s.content = content'[s.capability]
    BY <1>1, <1>2, <2>1, <2>2, <2>3 DEF CopyIsCurrent
  <2>5. \A w \in s.rest : w.capability \notin raced' => w.content = content'[w.capability]
    BY <1>1, <1>2, <2>1, <2>2, <2>3 DEF CopyIsCurrent, RestIsCurrent
  <2> QED BY <1>1, <2>4, <2>5 DEF CopyIsCurrent, RestIsCurrent
<1>4. PutsAreKept'
  BY <1>1, <1>2 DEF CopiesInv, PutsAreKept
<1>5. (\A d \in Capabilities : d \notin Registered => content[d] = 0)'
  BY <1>1 DEF CopiesInv, Registered
<1> QED BY <1>3, <1>4, <1>5 DEF CopiesInv

LEMMA FailKeepsCopies ==
    ASSUME LinkingInv, LinkingInv', CopiesInv, NEW h \in Handlers, Fail(h)
    PROVE  CopiesInv'
<1>1. handlers' = [handlers EXCEPT ![h] = Idle]
      /\ UNCHANGED <<registry, raced, given, content>>
  BY DEF Fail, Goto, putVars
<1> QED BY <1>1, IdleIsHandler, CopiesMoveOn

(* A deprecation, or whatever else a PUT has set, is only undone by a      *)
(* request that held a copy of the record when the PUT came.               *)
THEOREM PutsAreAlwaysKept == Spec => []PutsAreKept
<1>1. Init => CopiesInv
  BY IdleIsHandler DEF Init, CopiesInv, PutsAreKept, At
<1>2. ASSUME LinkingInv, LinkingInv', CopiesInv, [Next]_vars
      PROVE  CopiesInv'
  <2>1. ASSUME NEW h \in Handlers, NEW c \in Capabilities, NEW via \in Entrances,
               Insert(h, c, via)
        PROVE  CopiesInv'
    BY <1>2, <2>1, InsertKeepsCopies
  <2>2. ASSUME NEW h \in Handlers, Proceed(h)
        PROVE  CopiesInv'
    BY <1>2, <2>2, ResolveKeepsCopies, ListForAndStoreKeepCopies, SaveKeepsCopies,
       ListKeepsCopies DEF Proceed
  <2>3. ASSUME NEW h \in Handlers, Fail(h)
        PROVE  CopiesInv'
    BY <1>2, <2>3, FailKeepsCopies
  <2>4. ASSUME NEW c \in Capabilities, Put(c)
        PROVE  CopiesInv'
    BY <1>2, <2>4, PutKeepsCopies
  <2>5. CASE UNCHANGED vars
    <3>1. UNCHANGED <<registry, handlers, content, given, raced>>
      BY <2>5 DEF vars, putVars
    <3>2. \A x : CopyIsCurrent(x)' <=> CopyIsCurrent(x)
      BY <3>1 DEF CopyIsCurrent, RestIsCurrent
    <3>3. Registered' = Registered /\ (PutsAreKept' <=> PutsAreKept)
      BY <3>1 DEF Registered, PutsAreKept
    <3> QED BY <1>2, <3>1, <3>2, <3>3 DEF CopiesInv, At
  <2> QED BY <1>2, <2>1, <2>2, <2>3, <2>4, <2>5 DEF Next
<1>3. CopiesInv => PutsAreKept
  BY DEF CopiesInv
<1> QED BY LinkingInvariant, <1>1, <1>2, <1>3, PTL DEF Spec

-----------------------------------------------------------------------------
(* No two rows are the same capability.                                    *)
RowsDiffer == \A i, j \in DOMAIN registry : registry[i] = registry[j] => i = j

OneRequest == \A g, h \in Handlers : ~At(g, "idle") /\ ~At(h, "idle") => g = h

(* The references a request must account for: all that its capability      *)
(* declares, or those that are pending on it.                              *)
Charged(s) == IF s.relinking THEN pending[s.capability] ELSE DependsOn[s.capability]

(* The reference leads to the capability that declares it.                 *)
Self(c, ref) == FindByExternalID(c, ref.external) = c

(* What has become of a reference in the hands of a request.               *)
Answered(s, ref) ==
    \/ ref \in s.unresolved
    \/ Self(s.capability, ref)
    \/ s.phase # "save" /\ \E target \in s.resolved : Satisfies(target, ref)
    \/ s.phase = "save" /\ Linked(s.capability, ref)

RestIsPending(s) ==
    /\ \A w \in s.rest : pending[w.capability] \subseteq w.refs
    /\ \A w, v \in s.rest : w.capability = v.capability => w = v

HoldsReferences(s) ==
    /\ s.phase # "list" => \A ref \in Charged(s) : ref \in s.todo \/ Answered(s, ref)
    /\ s.phase \in {"merge", "store", "save"} => s.todo = {}
    /\ s.phase = "list" => ~s.relinking
    /\ s.phase = "merge" => s.relinking
    /\ s.phase = "store" /\ s.relinking => edges[s.capability] \subseteq s.resolved
    /\ ~s.relinking => s.rest = {}
    /\ RestIsPending(s)
    /\ \A w \in s.rest : w.capability # s.capability

(* A reference is an edge, or pending, or leads back to its capability.    *)
Placed(c, ref) ==
    \/ Linked(c, ref)
    \/ ref \in pending[c]
    \/ Self(c, ref)

Applied(c) == \E h \in Handlers : Holds(h, c) /\ ~handlers[h].relinking

AllPlaced(c) == \A ref \in DependsOn[c] : Placed(c, ref)

Kept == \A c \in Registered \ (interrupted \cup wiped) : Applied(c) \/ AllPlaced(c)

KeptInv ==
    /\ RowsDiffer
    /\ ~overlapped => /\ OneRequest
                      /\ \A h \in Handlers : ~At(h, "idle") => HoldsReferences(handlers[h])
                      /\ Kept

-----------------------------------------------------------------------------
(* Lookups read the registry only.                                         *)
LEMMA LookupsStay ==
    ASSUME registry' = registry
    PROVE  /\ \A c, e : FindByExternalID(c, e)' = FindByExternalID(c, e)
           /\ \A c, ref : Self(c, ref)' <=> Self(c, ref)
<1>1. \A c, e : FindByExternalID(c, e)' = FindByExternalID(c, e)
  BY DEF FindByExternalID
<1> QED BY <1>1 DEF Self

(* The oldest row of its own system stays so: later ones are younger.      *)
LEMMA SelfStays ==
    ASSUME TypeOK, RowsAreOrdered, NEW c \in Registered, NEW ref \in Ref, Self(c, ref),
           NEW d \in Capabilities, registry' = Append(registry, d)
    PROVE  Self(c, ref)'
<1> PICK e \in ExternalIds : e = ref.external
  BY DEF Ref
<1> DEFINE all      == {i \in DOMAIN registry : ExternalId[registry[i]] = e}
           Same(i)  == System[registry[i]] = System[c]
           First(i) == \A j \in all : \/ Same(i) /\ ~Same(j)
                                      \/ Same(i) = Same(j) /\ i <= j
           all2      == {i \in DOMAIN registry' : ExternalId[registry'[i]] = e}
           Same2(i)  == System[registry'[i]] = System[c]
           First2(i) == \A j \in all2 : \/ Same2(i) /\ ~Same2(j)
                                        \/ Same2(i) = Same2(j) /\ i <= j
           row  == CHOOSE i \in all : First(i)
           row2 == CHOOSE i \in all2 : First2(i)
<1>1. /\ DOMAIN registry' = 1..(Len(registry) + 1)
      /\ DOMAIN registry = 1..Len(registry)
      /\ Len(registry) \in Nat
      /\ \A i \in DOMAIN registry : registry'[i] = registry[i]
  BY DEF TypeOK
<1>2. c # None /\ c \in Capabilities
  BY RegisteredAreCapabilities, LinkingAssumption
<1>3. all # {} /\ registry[row] = c
  BY <1>2 DEF Self, FindByExternalID
<1>4. \E i \in all : First(i)
  <2> DEFINE same == {i \in all : Same(i)}
  <2>1. CASE same # {}
    <3>1. PICK i \in same : \A j \in same : i <= j
      BY <2>1 DEF RowsAreOrdered
    <3> QED BY <3>1
  <2>2. CASE same = {}
    <3>1. PICK i \in all : \A j \in all : i <= j
      BY <1>3 DEF RowsAreOrdered
    <3>2. \A j \in all : Same(j) = FALSE
      BY <2>2
    <3> QED BY <3>1, <3>2
  <2> QED BY <2>1, <2>2
<1>5. row \in all /\ First(row)
  <2> HIDE DEF all, First
  <2> QED BY <1>4
<1>6. PICK first \in all : first = row
  BY <1>5
<1>7. registry[first] = c /\ First(first)
  BY <1>3, <1>5, <1>6
<1> HIDE DEF row
<1>8. first \in all2 /\ First2(first)
  BY <1>1, <1>7
<1>9. \A i \in all2 : First2(i) => i = first
  BY <1>1, <1>8
<1>10. row2 = first
  <2> HIDE DEF all2, First2
  <2> QED BY <1>8, <1>9
<1>11. registry'[row2] = c
  BY <1>1, <1>7, <1>10
<1>12. FindByExternalID(c, ref.external)' = registry'[row2]
  <2>1. all2 # {}
    BY <1>8
  <2> QED BY <2>1 DEF FindByExternalID
<1> QED BY <1>11, <1>12 DEF Self

(* The next capability of a snapshot whose references are still pending.   *)
LEMMA NextHoldsReferences ==
    ASSUME RowsAreOrdered, NEW s \in Handler, HoldsDeclared(s), RestIsPending(s), s.relinking,
           NextCapability(s).phase # "idle"
    PROVE  HoldsReferences(NextCapability(s))
<1> DEFINE next == Oldest(s.rest)
           new == [s EXCEPT !.phase = "resolve", !.capability = next.capability,
                            !.content = next.content, !.todo = next.refs, !.resolved = {},
                            !.unresolved = {}, !.rest = @ \ {next}]
<1>1. s.rest # {} /\ NextCapability(s) = new
  BY IdleIsHandler DEF NextCapability
<1>2. next \in s.rest
  BY <1>1, OldestWaits
<1> HIDE DEF next
<1>3. /\ new.phase = "resolve" /\ new.relinking = s.relinking
      /\ new.capability = next.capability /\ new.todo = next.refs
      /\ new.resolved = {} /\ new.unresolved = {} /\ new.rest = s.rest \ {next}
  BY DEF Handler
<1> HIDE DEF new
<1>4. pending[next.capability] \subseteq next.refs
  BY <1>2 DEF RestIsPending
<1>5. RestIsPending(new)
  BY <1>3 DEF RestIsPending
<1>6. \A w \in new.rest : w.capability # new.capability
  BY <1>2, <1>3 DEF RestIsPending
<1>7. Charged(new) \subseteq new.todo
  BY <1>3, <1>4 DEF Charged
<1> QED BY <1>1, <1>3, <1>5, <1>6, <1>7 DEF HoldsReferences

(* A request under way goes on alone: what it holds afterwards accounts    *)
(* for its references, and every capability stays safe.                    *)
LEMMA ReferencesMoveOn ==
    ASSUME TypeOK, KeptInv, NEW h \in Handlers, ~At(h, "idle"), NEW n,
           handlers' = [handlers EXCEPT ![h] = n],
           ~overlapped /\ n.phase # "idle" => HoldsReferences(n)',
           UNCHANGED <<registry, overlapped, wiped>>,
           interrupted \subseteq interrupted',
           \A c \in Registered \ (interrupted' \cup wiped) :
               ~overlapped /\ (Applied(c) \/ AllPlaced(c)) => Applied(c)' \/ AllPlaced(c)'
    PROVE  KeptInv'
<1>1. \A g \in Handlers : handlers'[g] = IF g = h THEN n ELSE handlers[g]
  BY DEF TypeOK
<1>2. RowsDiffer'
  BY DEF KeptInv, RowsDiffer
<1>3. ASSUME ~overlapped
      PROVE  /\ OneRequest'
             /\ \A g \in Handlers : ~At(g, "idle")' => HoldsReferences(handlers[g])'
             /\ Kept'
  <2>1. \A g \in Handlers : ~At(g, "idle") => g = h
    BY <1>3 DEF KeptInv, OneRequest
  <2>2. \A g \in Handlers : ~At(g, "idle")' => g = h
    BY <1>1, <2>1 DEF At
  <2>3. OneRequest'
    BY <2>2 DEF OneRequest
  <2>4. \A g \in Handlers : ~At(g, "idle")' => HoldsReferences(handlers[g])'
    <3> SUFFICES ASSUME NEW g \in Handlers, ~At(g, "idle")'
                 PROVE  HoldsReferences(handlers[g])'
      OBVIOUS
    <3>1. g = h /\ handlers'[g] = n /\ n.phase # "idle"
      BY <1>1, <2>2 DEF At
    <3> QED BY <1>3, <3>1
  <2>5. Kept'
    BY <1>3 DEF KeptInv, Kept, Registered
  <2> QED BY <2>3, <2>4, <2>5
<1> QED BY <1>2, <1>3 DEF KeptInv

(* Only the one request under way may be applying anything.                *)
LEMMA AppliedByOne ==
    ASSUME TypeOK, KeptInv, ~overlapped, NEW h \in Handlers, ~At(h, "idle"), NEW c, Applied(c)
    PROVE  Holds(h, c) /\ ~handlers[h].relinking /\ handlers[h].capability = c
<1>1. PICK g \in Handlers : Holds(g, c) /\ ~handlers[g].relinking
  BY DEF Applied
<1>2. g = h
  BY <1>1 DEF Holds, KeptInv, OneRequest
<1>3. handlers[h].rest = {}
  BY <1>1, <1>2 DEF KeptInv, HoldsReferences
<1> QED BY <1>1, <1>2, <1>3 DEF Holds

(* One lookup accounts for its reference.                                  *)
LEMMA ResolvedAnswers ==
    ASSUME TypeOK, RowsAreOrdered, NEW s \in Handler, HoldsReferences(s), s.phase = "resolve",
           s.capability \in Capabilities, NEW ref \in s.todo
    PROVE  LET r == Resolved(s, ref, FindByExternalID(s.capability, ref.external))
           IN  /\ r.phase = "resolve" /\ r.capability = s.capability
               /\ r.relinking = s.relinking /\ r.rest = s.rest
               /\ \A x \in Charged(s) : x \in r.todo \/ Answered(r, x)
<1> DEFINE target == FindByExternalID(s.capability, ref.external)
           r == Resolved(s, ref, target)
           rest == [s EXCEPT !.todo = @ \ {ref}]
<1>1. ref \in Ref
  BY DEF Handler
<1>2. target # None => ExternalId[target] = ref.external
  BY <1>1, FindIsRegistered DEF Ref
<1>10. target = s.capability => Self(s.capability, ref)
  BY DEF Self
<1> HIDE DEF target
<1>3. /\ rest \in Handler
      /\ rest.phase = "resolve" /\ rest.relinking = s.relinking
      /\ rest.capability = s.capability /\ rest.todo = s.todo \ {ref}
      /\ rest.resolved = s.resolved /\ rest.unresolved = s.unresolved /\ rest.rest = s.rest
  BY DEF Handler
<1>4. \/ r = [rest EXCEPT !.unresolved = @ \cup {ref}]
      \/ r = rest /\ target = s.capability /\ target # None
      \/ /\ r = [rest EXCEPT !.resolved = @ \cup {target}]
         /\ target # None /\ HasType(target, ref)
  BY DEF Resolved
<1> HIDE DEF rest, r
<1>5. /\ r.phase = "resolve" /\ r.capability = s.capability
      /\ r.relinking = s.relinking /\ r.rest = s.rest
      /\ r.todo = s.todo \ {ref}
      /\ s.resolved \subseteq r.resolved /\ s.unresolved \subseteq r.unresolved
      /\ \/ ref \in r.unresolved
         \/ target = s.capability /\ target # None
         \/ target \in r.resolved /\ target # None /\ HasType(target, ref)
  BY <1>3, <1>4 DEF Handler
<1>6. Answered(r, ref)
  BY <1>2, <1>5, <1>10 DEF Answered, Satisfies
<1>7. \A x : Answered(s, x) => Answered(r, x)
  BY <1>5 DEF Answered
<1>8. \A x \in Charged(s) : x \in s.todo \/ Answered(s, x)
  BY DEF HoldsReferences
<1>9. \A x \in Charged(s) : x \in r.todo \/ Answered(r, x)
  BY <1>5, <1>6, <1>7, <1>8
<1> QED BY <1>5, <1>9 DEF r, target

(* What request h has accounted for when it is done with its capability.   *)
LEMMA UnplacedIsUnresolved ==
    ASSUME NEW s, s.phase = "save", HoldsReferences(s), NEW ref \in Charged(s)
    PROVE  \/ ref \in s.unresolved
           \/ Self(s.capability, ref)
           \/ Linked(s.capability, ref)
BY DEF HoldsReferences, Answered

LEMMA InsertKeepsReferences ==
    ASSUME LinkingInv, KeptInv, NEW h \in Handlers, NEW c \in Capabilities,
           NEW via \in Entrances, Insert(h, c, via)
    PROVE  KeptInv'
<1> DEFINE s0 == [Idle EXCEPT !.phase = "resolve", !.via = via,
                              !.capability = c, !.todo = DependsOn[c]]
           s == AfterInsert(s0)
<1>1. /\ registry \in Seq(Capabilities) /\ registry' = Append(registry, c)
      /\ c \notin Registered
      /\ handlers' = [handlers EXCEPT ![h] = s]
      /\ overlapped' = (overlapped \/ \E g \in Handlers : ~At(g, "idle"))
      /\ UNCHANGED <<pending, edges, interrupted, wiped>>
  BY DEF LinkingInv, TypeOK, Insert, Goto, putVars
<1>2. /\ DOMAIN registry' = 1..(Len(registry) + 1)
      /\ DOMAIN registry = 1..Len(registry)
      /\ Len(registry) \in Nat
      /\ \A i \in DOMAIN registry : registry'[i] = registry[i]
      /\ registry'[Len(registry) + 1] = c
  BY <1>1
<1>3. Registered' = Registered \cup {c}
  BY <1>2 DEF Registered
<1>4. RowsDiffer'
  <2> SUFFICES ASSUME NEW i \in DOMAIN registry', NEW j \in DOMAIN registry',
                      registry'[i] = registry'[j]
               PROVE  i = j
    BY DEF RowsDiffer
  <2>1. \A k \in DOMAIN registry : registry[k] # c
    BY <1>1 DEF Registered
  <2>2. CASE i \in DOMAIN registry /\ j \in DOMAIN registry
    BY <1>2, <2>2 DEF KeptInv, RowsDiffer
  <2>3. CASE ~(i \in DOMAIN registry /\ j \in DOMAIN registry)
    BY <1>2, <2>1, <2>3
  <2> QED BY <2>2, <2>3
<1>5. /\ s0.phase = "resolve" /\ s0.capability = c /\ s0.todo = DependsOn[c]
      /\ s0.rest = {} /\ s0.relinking = FALSE /\ s0 \in Handler
  BY LinkingAssumption DEF Idle, Handler, Phases
<1> HIDE DEF s0
<1>6. /\ s.phase # "idle" => /\ s.capability = c /\ s.todo = DependsOn[c]
                             /\ s.rest = {} /\ s.relinking = FALSE
      /\ s.phase \in {"resolve", "list", "idle"}
      /\ s.phase = "resolve" \/ DependsOn[c] = {}
  <2> DEFINE m == [s0 EXCEPT !.phase = "list"]
  <2>1. /\ m.phase = "list" /\ m.capability = c /\ m.todo = DependsOn[c]
        /\ m.rest = {} /\ m.relinking = FALSE
    BY <1>5 DEF Handler
  <2>2. \/ s = s0
        \/ DependsOn[c] = {} /\ (s = m \/ s = Idle)
    BY <1>5 DEF AfterInsert, AfterCreate
  <2> HIDE DEF m, s
  <2> QED BY <1>5, <2>1, <2>2, IdleIsHandler
<1> HIDE DEF s
<1>7. \A g \in Handlers : handlers'[g] = IF g = h THEN s ELSE handlers[g]
  BY <1>1 DEF LinkingInv, TypeOK
<1>8. ASSUME ~overlapped'
      PROVE  /\ OneRequest'
             /\ \A g \in Handlers : ~At(g, "idle")' => HoldsReferences(handlers[g])'
             /\ Kept'
  <2>1. ~overlapped /\ \A g \in Handlers : At(g, "idle")
    BY <1>1, <1>8
  <2>2. \A g \in Handlers : ~At(g, "idle")' => g = h
    BY <1>7, <2>1 DEF At
  <2>3. s.phase # "idle" => HoldsReferences(s)'
    <3> SUFFICES ASSUME s.phase # "idle" PROVE HoldsReferences(s)'
      OBVIOUS
    <3> QED BY <1>6 DEF HoldsReferences, Charged, RestIsPending
  <2>4. \A g \in Handlers : ~At(g, "idle")' => HoldsReferences(handlers[g])'
    <3> SUFFICES ASSUME NEW g \in Handlers, ~At(g, "idle")'
                 PROVE  HoldsReferences(handlers[g])'
      OBVIOUS
    <3>1. g = h /\ handlers'[g] = s /\ s.phase # "idle"
      BY <1>7, <2>2 DEF At
    <3> QED BY <2>3, <3>1
  <2>5. Kept'
    <3> SUFFICES ASSUME NEW d \in Registered', d \notin interrupted', d \notin wiped'
                 PROVE  Applied(d)' \/ AllPlaced(d)'
      BY DEF Kept
    <3>1. CASE d \in Registered
      <4>1. ~Applied(d)
        BY <2>1 DEF Applied, Holds
      <4>2. AllPlaced(d)
        BY <1>1, <2>1, <3>1, <4>1 DEF KeptInv, Kept
      <4>3. \A x \in DependsOn[d] : Self(d, x) => Self(d, x)'
        BY <1>1, <3>1, SelfStays, RegisteredAreCapabilities, LinkingAssumption DEF LinkingInv
      <4> QED BY <1>1, <4>2, <4>3 DEF AllPlaced, Placed, Linked
    <3>2. CASE d = c /\ s.phase = "resolve"
      <4>1. handlers'[h] = s /\ s.capability = c /\ s.relinking = FALSE
        BY <1>6, <1>7, <3>2
      <4>2. Holds(h, c)' /\ ~handlers'[h].relinking
        BY <3>2, <4>1 DEF Holds, At
      <4> QED BY <3>2, <4>2 DEF Applied
    <3>3. CASE d = c /\ DependsOn[c] = {}
      BY <3>3 DEF AllPlaced
    <3> QED BY <1>3, <1>6, <3>1, <3>2, <3>3
  <2>6. OneRequest'
    BY <2>2 DEF OneRequest
  <2> QED BY <2>4, <2>5, <2>6
<1> QED BY <1>4, <1>8 DEF KeptInv

LEMMA ResolveKeepsReferences ==
    ASSUME LinkingInv, KeptInv, NEW h \in Handlers, Resolve(h)
    PROVE  KeptInv'
<1> DEFINE s == handlers[h]
<1>1. PICK ref \in s.todo :
        Goto(h, AfterResolve(Resolved(s, ref, FindByExternalID(s.capability, ref.external))))
  BY DEF Resolve
<1>2. s \in Handler /\ HoldsDeclared(s) /\ s.capability \in Capabilities /\ s.phase = "resolve"
  BY DEF LinkingInv, TypeOK, Resolve, At, HandlersHoldDeclared
<1> DEFINE r == Resolved(s, ref, FindByExternalID(s.capability, ref.external))
<1>11. PICK n : n = AfterResolve(r)
  OBVIOUS
<1>3. r \in Handler /\ HoldsDeclared(r)
  BY <1>2, ResolvedHolds
<1>4. ~overlapped => HoldsReferences(s)
  BY <1>2 DEF KeptInv, At
<1>5. ~overlapped => /\ r.phase = "resolve" /\ r.capability = s.capability
                     /\ r.relinking = s.relinking /\ r.rest = s.rest
                     /\ \A x \in Charged(s) : x \in r.todo \/ Answered(r, x)
  BY <1>2, <1>4, ResolvedAnswers DEF LinkingInv
<1>6. /\ handlers' = [handlers EXCEPT ![h] = n]
      /\ UNCHANGED <<registry, pending, edges, interrupted, overlapped, wiped>>
  BY <1>1, <1>11 DEF Resolve, Goto, putVars
<1> HIDE DEF r
<1>7. ASSUME ~overlapped, n.phase # "idle"
      PROVE  HoldsReferences(n)'
  <2>1. /\ Charged(r) = Charged(s)
        /\ RestIsPending(r)
        /\ \A w \in r.rest : w.capability # r.capability
        /\ (~r.relinking => r.rest = {})
    BY <1>4, <1>5, <1>7 DEF Charged, HoldsReferences, RestIsPending
  <2>2. HoldsReferences(n)
    <3>1. CASE r.todo # {}
      BY <1>5, <1>7, <1>11, <2>1, <3>1 DEF AfterResolve, HoldsReferences
    <3>2. ASSUME NEW phase \in {"store", "merge"}, n = [r EXCEPT !.phase = phase],
                 r.todo = {}, phase = "merge" <=> r.relinking
          PROVE  HoldsReferences(n)
      <4>1. /\ n.phase = phase /\ n.capability = r.capability /\ n.relinking = r.relinking
            /\ n.rest = r.rest /\ n.todo = {} /\ n.resolved = r.resolved
            /\ n.unresolved = r.unresolved
        BY <1>3, <3>2 DEF Handler
      <4>2. Charged(n) = Charged(r)
        BY <4>1 DEF Charged
      <4>3. \A x : Answered(r, x) => Answered(n, x)
        BY <1>5, <1>7, <3>2, <4>1 DEF Answered
      <4>4. RestIsPending(n) /\ \A w \in n.rest : w.capability # n.capability
        BY <2>1, <4>1 DEF RestIsPending
      <4>5. \A x \in Charged(n) : Answered(n, x)
        BY <1>5, <1>7, <2>1, <3>2, <4>2, <4>3
      <4> QED BY <2>1, <3>2, <4>1, <4>4, <4>5 DEF HoldsReferences
    <3>3. CASE r.todo = {} /\ ~r.relinking
      BY <1>11, <3>2, <3>3 DEF AfterResolve
    <3>4. CASE r.todo = {} /\ r.relinking /\ r.resolved # {}
      BY <1>11, <3>2, <3>4 DEF AfterResolve
    <3>5. CASE r.todo = {} /\ r.relinking /\ r.resolved = {}
      <4>1. n = NextCapability(r)
        BY <1>11, <3>5 DEF AfterResolve
      <4> QED BY <1>3, <1>7, <2>1, <3>5, <4>1, NextHoldsReferences DEF LinkingInv
    <3> QED BY <3>1, <3>3, <3>4, <3>5
  <2> QED BY <1>6, <2>2, LookupsStay DEF HoldsReferences, Charged, Answered, RestIsPending, Linked
<1>8. ~overlapped /\ ~s.relinking =>
         n.phase \in {"resolve", "store"} /\ n.capability = s.capability /\ ~n.relinking
  <2> DEFINE m == [r EXCEPT !.phase = "store"]
  <2>1. m.phase = "store" /\ m.capability = r.capability /\ m.relinking = r.relinking
    BY <1>3 DEF Handler
  <2>2. ~r.relinking => n = r \/ n = m
    BY <1>11 DEF AfterResolve
  <2> HIDE DEF m
  <2> QED BY <1>5, <2>1, <2>2
<1>9. ~At(h, "idle") /\ handlers'[h] = n
  BY <1>2, <1>6 DEF At, LinkingInv, TypeOK
<1>10. ASSUME NEW c, ~overlapped, Applied(c) \/ AllPlaced(c)
       PROVE  Applied(c)' \/ AllPlaced(c)'
  <2>1. CASE Applied(c)
    <3>1. ~s.relinking /\ s.capability = c
      BY <1>9, <1>10, <2>1, AppliedByOne DEF LinkingInv
    <3>2. Holds(h, c)' /\ ~handlers'[h].relinking
      BY <1>8, <1>9, <1>10, <3>1 DEF Holds, At
    <3> QED BY <3>2 DEF Applied
  <2>2. CASE AllPlaced(c)
    BY <1>6, <2>2, LookupsStay DEF AllPlaced, Placed, Linked
  <2> QED BY <1>10, <2>1, <2>2
<1> QED BY <1>6, <1>7, <1>9, <1>10, ReferencesMoveOn DEF LinkingInv

LEMMA ListForKeepsReferences ==
    ASSUME LinkingInv, KeptInv, NEW h \in Handlers, ListFor(h)
    PROVE  KeptInv'
<1>0. PICK s : s = handlers[h]
  OBVIOUS
<1>1. PICK n : n = [s EXCEPT !.phase = "store", !.resolved = edges[s.capability] \cup @]
  OBVIOUS
<1>2. /\ handlers' = [handlers EXCEPT ![h] = n]
      /\ s.phase = "merge" /\ s \in Handler /\ ~At(h, "idle")
      /\ UNCHANGED <<registry, pending, edges, interrupted, overlapped, wiped>>
  BY <1>0, <1>1 DEF ListFor, Goto, At, LinkingInv, TypeOK, putVars
<1>3. /\ n.phase = "store" /\ n.capability = s.capability /\ n.relinking = s.relinking
      /\ n.rest = s.rest /\ n.todo = s.todo /\ n.unresolved = s.unresolved
      /\ n.resolved = edges[s.capability] \cup s.resolved
  BY <1>1, <1>2 DEF Handler
<1>4. ~overlapped => HoldsReferences(s)
  BY <1>0, <1>2 DEF KeptInv
<1>5. ASSUME ~overlapped
      PROVE  HoldsReferences(n)'
  <2>1. \A x : Answered(s, x) => Answered(n, x)
    BY <1>2, <1>3 DEF Answered
  <2>2. Charged(n) = Charged(s) /\ (RestIsPending(s) => RestIsPending(n))
    BY <1>3 DEF Charged, RestIsPending
  <2>3. HoldsReferences(n)
    BY <1>2, <1>3, <1>4, <1>5, <2>1, <2>2 DEF HoldsReferences
  <2> QED BY <1>2, <2>3, LookupsStay DEF HoldsReferences, Charged, Answered, RestIsPending, Linked
<1>6. ASSUME NEW c, ~overlapped, Applied(c) \/ AllPlaced(c)
      PROVE  AllPlaced(c)'
  <2>1. ~Applied(c)
    BY <1>2, <1>4, <1>6, <1>0, AppliedByOne DEF LinkingInv, HoldsReferences
  <2> QED BY <1>2, <1>6, <2>1, LookupsStay DEF AllPlaced, Placed, Linked
<1> QED BY <1>2, <1>5, <1>6, ReferencesMoveOn DEF LinkingInv

LEMMA StoreKeepsReferences ==
    ASSUME LinkingInv, KeptInv, NEW h \in Handlers, Store(h)
    PROVE  KeptInv'
<1>0. PICK s : s = handlers[h]
  OBVIOUS
<1> DEFINE save == [s EXCEPT !.phase = "save"]
           list == [s EXCEPT !.phase = "list"]
<1>1. PICK n : n = IF s.unresolved = {} /\ ~s.relinking THEN AfterCreate(s) ELSE save
  OBVIOUS
<1>2. /\ handlers' = [handlers EXCEPT ![h] = n]
      /\ edges' = [edges EXCEPT ![s.capability] = s.resolved]
      /\ s.phase = "store" /\ s \in Handler /\ ~At(h, "idle") /\ s.capability \in Capabilities
      /\ UNCHANGED <<registry, pending, interrupted, overlapped, wiped>>
  BY <1>0, <1>1 DEF Store, Goto, At, LinkingInv, TypeOK, putVars
<1>3. \A c \in Capabilities : edges'[c] = IF c = s.capability THEN s.resolved ELSE edges[c]
  BY <1>2 DEF LinkingInv, TypeOK
<1>4. ~overlapped => HoldsReferences(s)
  BY <1>0, <1>2 DEF KeptInv
<1>5. /\ save.phase = "save" /\ save.capability = s.capability
      /\ save.relinking = s.relinking /\ save.rest = s.rest /\ save.todo = s.todo
      /\ save.unresolved = s.unresolved
  BY <1>2 DEF Handler
<1>6. /\ list.phase = "list" /\ list.capability = s.capability
      /\ list.relinking = s.relinking /\ list.rest = s.rest
  BY <1>2 DEF Handler
<1>7. \/ n = save /\ (s.unresolved # {} \/ s.relinking)
      \/ n \in {list, Idle} /\ s.unresolved = {} /\ ~s.relinking
  BY <1>1 DEF AfterCreate
<1> HIDE DEF save, list
(* What it found for a reference is an edge now.                           *)
<1>8. ASSUME ~overlapped, NEW x \in Charged(s)
      PROVE  \/ x \in s.unresolved
             \/ Self(s.capability, x)
             \/ Linked(s.capability, x)'
  BY <1>2, <1>3, <1>4, <1>8 DEF HoldsReferences, Answered, Linked
<1>9. ASSUME ~overlapped, n.phase # "idle"
      PROVE  HoldsReferences(n)'
  <2>1. /\ RestIsPending(s)
        /\ \A w \in s.rest : w.capability # s.capability
        /\ (~s.relinking => s.rest = {})
        /\ s.todo = {}
    BY <1>2, <1>4, <1>9 DEF HoldsReferences
  <2>2. CASE n = save
    <3>1. RestIsPending(n)'
      BY <1>2, <1>5, <2>1, <2>2 DEF RestIsPending
    <3>2. Charged(n)' = Charged(s)
      BY <1>2, <1>5, <2>2 DEF Charged
    <3>3. \A x \in Charged(s) : Answered(n, x)'
      BY <1>5, <1>8, <1>9, <2>2, <1>2, LookupsStay DEF Answered
    <3>4. \A x \in Charged(n)' : Answered(n, x)'
      BY <3>2, <3>3
    <3>5. /\ n.phase = "save" /\ n.todo = {} /\ n.relinking = s.relinking
          /\ n.capability = s.capability /\ n.rest = s.rest
      BY <1>5, <2>1, <2>2
    <3> QED BY <2>1, <3>1, <3>4, <3>5 DEF HoldsReferences
  <2>3. CASE n = list /\ ~s.relinking
    <3>1. RestIsPending(n)'
      BY <1>2, <1>6, <2>1, <2>3 DEF RestIsPending
    <3> QED BY <1>6, <2>1, <2>3, <3>1 DEF HoldsReferences
  <2> QED BY <1>7, <1>9, <2>2, <2>3, IdleIsHandler
<1>10. handlers'[h] = n
  BY <1>2 DEF LinkingInv, TypeOK
<1>11. ASSUME NEW c \in Registered, ~overlapped, Applied(c) \/ AllPlaced(c)
       PROVE  Applied(c)' \/ AllPlaced(c)'
  <2>1. CASE Applied(c)
    <3>1. ~s.relinking /\ s.capability = c
      BY <1>2, <1>11, <2>1, <1>0, AppliedByOne DEF LinkingInv
    <3>2. CASE n = save
      <4>1. Holds(h, c)' /\ ~handlers'[h].relinking
        BY <1>5, <1>10, <3>1, <3>2 DEF Holds, At
      <4> QED BY <4>1 DEF Applied
    <3>3. CASE n # save
      <4>1. s.unresolved = {} /\ Charged(s) = DependsOn[c]
        BY <1>7, <3>1, <3>3 DEF Charged
      <4>2. \A x \in DependsOn[c] : Placed(c, x)'
        BY <1>8, <1>11, <3>1, <4>1, <1>2, LookupsStay DEF Placed
      <4> QED BY <4>2 DEF AllPlaced
    <3> QED BY <3>2, <3>3
  <2>2. CASE AllPlaced(c) /\ ~Applied(c)
    <3>1. c \in Capabilities
      BY RegisteredAreCapabilities DEF LinkingInv
    <3>2. CASE c # s.capability
      BY <1>2, <1>3, <2>2, <3>1, <3>2, LookupsStay DEF AllPlaced, Placed, Linked
    <3>3. CASE c = s.capability
      <4>1. s.relinking
        BY <1>0, <1>2, <2>2, <3>3 DEF Applied, Holds, At
      <4>2. edges[c] \subseteq edges'[c]
        BY <1>2, <1>3, <1>4, <1>11, <3>1, <3>3, <4>1 DEF HoldsReferences
      <4> QED BY <1>2, <2>2, <4>2, LookupsStay DEF AllPlaced, Placed, Linked
    <3> QED BY <3>2, <3>3
  <2> QED BY <1>11, <2>1, <2>2
<1> QED BY <1>2, <1>9, <1>11, ReferencesMoveOn DEF LinkingInv

LEMMA SaveKeepsReferences ==
    ASSUME LinkingInv, KeptInv, NEW h \in Handlers, Save(h)
    PROVE  KeptInv'
<1>0. PICK s : s = handlers[h]
  OBVIOUS
<1> DEFINE list == [s EXCEPT !.phase = "list"]
<1>1. PICK n : n = IF s.relinking THEN NextCapability(s) ELSE AfterCreate(s)
  OBVIOUS
<1>2. /\ handlers' = [handlers EXCEPT ![h] = n]
      /\ pending' = [pending EXCEPT ![s.capability] = s.unresolved]
      /\ s.phase = "save" /\ s \in Handler /\ ~At(h, "idle") /\ s.capability \in Capabilities
      /\ HoldsDeclared(s)
      /\ UNCHANGED <<registry, edges, interrupted, overlapped, wiped>>
  BY <1>0, <1>1 DEF Save, Goto, At, LinkingInv, TypeOK, HandlersHoldDeclared
<1>3. \A c \in Capabilities : pending'[c] = IF c = s.capability THEN s.unresolved ELSE pending[c]
  BY <1>2 DEF LinkingInv, TypeOK
<1>4. ~overlapped => HoldsReferences(s)
  BY <1>0, <1>2 DEF KeptInv
<1>5. /\ list.phase = "list" /\ list.capability = s.capability
      /\ list.relinking = s.relinking /\ list.rest = s.rest
  BY <1>2 DEF Handler
<1> HIDE DEF list
<1>6. ~s.relinking => n \in {list, Idle}
  BY <1>1 DEF AfterCreate, list
(* What it has not linked is pending now.                                  *)
<1>7. ASSUME ~overlapped, NEW x \in Charged(s)
      PROVE  Placed(s.capability, x)'
  BY <1>2, <1>3, <1>4, <1>7, UnplacedIsUnresolved, LookupsStay DEF Placed, Linked
<1>8. ASSUME ~overlapped, n.phase # "idle"
      PROVE  HoldsReferences(n)'
  <2>1. /\ RestIsPending(s)
        /\ \A w \in s.rest : w.capability # s.capability
        /\ (~s.relinking => s.rest = {})
    BY <1>2, <1>4, <1>8 DEF HoldsReferences
  <2>2. CASE ~s.relinking
    <3>1. n = list
      BY <1>6, <1>8, <2>2, IdleIsHandler
    <3> QED BY <1>5, <2>1, <2>2, <3>1 DEF HoldsReferences, RestIsPending
  <2>3. CASE s.relinking
    <3>1. n = NextCapability(s) /\ HoldsReferences(n)
      BY <1>1, <1>2, <1>8, <2>1, <2>3, NextHoldsReferences DEF LinkingInv
    <3> DEFINE next == Oldest(s.rest)
               new == [s EXCEPT !.phase = "resolve", !.capability = next.capability,
                            !.content = next.content, !.todo = next.refs, !.resolved = {},
                            !.unresolved = {}, !.rest = @ \ {next}]
    <3>2. s.rest # {} /\ n = new
      BY <1>8, <3>1, IdleIsHandler DEF NextCapability
    <3>3. next \in s.rest
      BY <1>2, <3>2, OldestWaits DEF LinkingInv
    <3> HIDE DEF next
    <3>4. /\ new.phase = "resolve" /\ new.capability = next.capability
          /\ new.rest = s.rest \ {next} /\ new.relinking = s.relinking
      BY <1>2 DEF Handler
    <3> HIDE DEF new
    <3>5. \A w \in s.rest : w.capability \in Capabilities
      BY <1>2 DEF Handler, Snapshot
    <3>6. \A w \in s.rest : pending'[w.capability] = pending[w.capability]
      BY <1>3, <2>1, <3>5
    <3>7. Charged(n)' = Charged(n)
      BY <2>3, <3>2, <3>3, <3>4, <3>6 DEF Charged
    <3>8. RestIsPending(n)'
      BY <2>1, <3>2, <3>4, <3>6 DEF RestIsPending
    <3>9. \A x : Answered(n, x)' <=> Answered(n, x)
      BY <1>2, LookupsStay DEF Answered, Linked
    <3> QED BY <1>2, <3>1, <3>2, <3>4, <3>7, <3>8, <3>9 DEF HoldsReferences
  <2> QED BY <2>2, <2>3
<1>9. ASSUME NEW c \in Registered, ~overlapped, Applied(c) \/ AllPlaced(c)
       PROVE  AllPlaced(c)'
  <2>1. CASE Applied(c)
    <3>1. ~s.relinking /\ s.capability = c
      BY <1>2, <1>9, <2>1, <1>0, AppliedByOne DEF LinkingInv
    <3>2. Charged(s) = DependsOn[c]
      BY <3>1 DEF Charged
    <3> QED BY <1>7, <1>9, <3>1, <3>2 DEF AllPlaced
  <2>2. CASE AllPlaced(c) /\ ~Applied(c)
    <3>1. c \in Capabilities
      BY RegisteredAreCapabilities DEF LinkingInv
    <3>2. CASE c # s.capability
      BY <1>2, <1>3, <2>2, <3>1, <3>2, LookupsStay DEF AllPlaced, Placed, Linked
    <3>3. CASE c = s.capability
      <4>1. s.relinking
        BY <1>0, <1>2, <2>2, <3>3 DEF Applied, Holds, At
      <4>2. \A x \in pending[c] : Placed(c, x)'
        BY <1>7, <1>9, <3>3, <4>1 DEF Charged
      <4>3. \A x : Linked(c, x) => Linked(c, x)'
        BY <1>2 DEF Linked
      <4> QED BY <2>2, <4>2, <4>3, <1>2, LookupsStay DEF AllPlaced, Placed
    <3> QED BY <3>2, <3>3
  <2> QED BY <1>9, <2>1, <2>2
<1> QED BY <1>2, <1>8, <1>9, ReferencesMoveOn DEF LinkingInv

LEMMA ListKeepsReferences ==
    ASSUME LinkingInv, KeptInv, NEW h \in Handlers, List(h)
    PROVE  KeptInv'
<1>0. PICK s : s = handlers[h]
  OBVIOUS
<1>1. PICK m : m = [s EXCEPT !.relinking = TRUE, !.rest = Waits]
  OBVIOUS
<1>2. PICK n : n = NextCapability(m)
  OBVIOUS
<1>3. /\ handlers' = [handlers EXCEPT ![h] = n]
      /\ s.phase = "list" /\ s \in Handler /\ HoldsDeclared(s) /\ ~At(h, "idle") /\ At(h, "list")
      /\ UNCHANGED <<registry, pending, edges, interrupted, overlapped, wiped>>
  BY <1>0, <1>1, <1>2 DEF List, Goto, At, LinkingInv, TypeOK, HandlersHoldDeclared, putVars
<1>4. PICK waits : waits = {i \in Page : pending[registry[i]] # {}}
  OBVIOUS
<1>5. \A i \in waits :
        /\ i \in DOMAIN registry /\ i \in Nat
        /\ registry[i] \in Registered /\ registry[i] \in Capabilities
        /\ pending[registry[i]] \in SUBSET Ref
        /\ pending[registry[i]] \subseteq DependsOn[registry[i]]
        /\ content[registry[i]] \in Nat
  BY <1>4, TablesDeclared DEF LinkingInv, TypeOK, Page, Registered
<1>6. Waits = {[place |-> i, capability |-> registry[i], refs |-> pending[registry[i]],
                content |-> content[registry[i]]] : i \in waits}
  BY <1>4 DEF Waits
<1>7. PICK rest : rest = Waits
  OBVIOUS
<1>8. /\ rest \subseteq Snapshot
      /\ \A w \in rest : /\ w.place \in DOMAIN registry
                        /\ w.capability \in Registered
                        /\ w.refs \subseteq DependsOn[w.capability]
                        /\ pending[w.capability] \subseteq w.refs
  BY <1>5, <1>6, <1>7 DEF Snapshot
<1>9. \A w, v \in rest : w.capability = v.capability => w = v
  BY <1>5, <1>6, <1>7 DEF KeptInv, RowsDiffer
<1>10. /\ m \in Handler /\ m.relinking
       /\ m.capability = s.capability /\ m.todo = s.todo /\ m.resolved = s.resolved
       /\ m.unresolved = s.unresolved /\ m.rest = rest
  BY <1>1, <1>3, <1>7, <1>8 DEF Handler
<1>11. HoldsDeclared(m) /\ RestIsPending(m)
  BY <1>3, <1>8, <1>9, <1>10 DEF HoldsDeclared, RestIsPending
<1>12. n.phase # "idle" => HoldsReferences(n)
  BY <1>2, <1>10, <1>11, NextHoldsReferences DEF LinkingInv
<1>13. n.phase # "idle" => HoldsReferences(n)'
  BY <1>3, <1>12, LookupsStay DEF HoldsReferences, Charged, Answered, RestIsPending, Linked
<1>14. ASSUME NEW c, ~overlapped, Applied(c) \/ AllPlaced(c)
       PROVE  AllPlaced(c)'
  <2>1. ~Applied(c)
    BY <1>3, <1>14, AppliedByOne DEF LinkingInv, Holds
  <2> QED BY <1>3, <1>14, <2>1, LookupsStay DEF AllPlaced, Placed, Linked
<1> QED BY <1>3, <1>13, <1>14, ReferencesMoveOn DEF LinkingInv

(* A PUT takes references away only where some are pending.                *)
LEMMA PutKeepsReferences ==
    ASSUME LinkingInv, KeptInv, NEW c \in Capabilities, Put(c)
    PROVE  KeptInv'
<1>1. UNCHANGED <<registry, edges, handlers, interrupted, overlapped>>
  BY DEF Put
<1>2. \A d \in Capabilities : pending'[d] = IF d = c THEN {} ELSE pending[d]
  BY DEF Put, LinkingInv, TypeOK
<1>3. wiped' = IF pending[c] # {} THEN wiped \cup {c} ELSE wiped
  BY DEF Put
<1>4. RowsDiffer'
  BY <1>1 DEF KeptInv, RowsDiffer
<1>5. ASSUME ~overlapped
      PROVE  /\ OneRequest'
             /\ \A g \in Handlers : ~At(g, "idle")' => HoldsReferences(handlers[g])'
             /\ Kept'
  <2>1. OneRequest'
    BY <1>1, <1>5 DEF KeptInv, OneRequest, At
  <2>2. ASSUME NEW g \in Handlers, ~At(g, "idle")'
        PROVE  HoldsReferences(handlers[g])'
    <3>1. PICK s : s = handlers[g]
      OBVIOUS
    <3>2. HoldsReferences(s) /\ s \in Handler /\ s.capability \in Capabilities
      BY <1>1, <1>5, <2>2, <3>1 DEF KeptInv, LinkingInv, TypeOK, At
    <3>3. Charged(s)' \subseteq Charged(s)
      BY <1>2, <3>2 DEF Charged
    <3>4. \A w \in s.rest : w.capability \in Capabilities
      BY <3>2 DEF Handler, Snapshot
    <3>5. RestIsPending(s)'
      BY <1>2, <3>2, <3>4 DEF HoldsReferences, RestIsPending
    <3>6. \A x : Answered(s, x)' <=> Answered(s, x)
      BY <1>1, LookupsStay DEF Answered, Linked
    <3>7. HoldsReferences(s)'
      BY <1>1, <3>2, <3>3, <3>5, <3>6 DEF HoldsReferences
    <3>8. handlers'[g] = s
      BY <1>1, <3>1
    <3> QED BY <3>7, <3>8
  <2>3. Kept'
    <3> SUFFICES ASSUME NEW d \in Registered', d \notin interrupted', d \notin wiped'
                 PROVE  Applied(d)' \/ AllPlaced(d)'
      BY DEF Kept
    <3>1. d \in Registered /\ d \in Capabilities
      BY <1>1, RegisteredAreCapabilities DEF LinkingInv, Registered
    <3>2. pending'[d] = pending[d]
      BY <1>2, <1>3, <3>1
    <3>3. Applied(d) \/ AllPlaced(d)
      BY <1>1, <1>3, <1>5, <3>1 DEF KeptInv, Kept
    <3>4. CASE Applied(d)
      BY <1>1, <3>4 DEF Applied, Holds, At
    <3>5. CASE AllPlaced(d)
      BY <1>1, <3>2, <3>5, LookupsStay DEF AllPlaced, Placed, Linked
    <3> QED BY <3>3, <3>4, <3>5
  <2> QED BY <2>1, <2>2, <2>3
<1> QED BY <1>1, <1>4, <1>5 DEF KeptInv

LEMMA FailKeepsReferences ==
    ASSUME LinkingInv, KeptInv, NEW h \in Handlers, Fail(h)
    PROVE  KeptInv'
<1>1. /\ handlers' = [handlers EXCEPT ![h] = Idle]
      /\ ~At(h, "idle")
      /\ UNCHANGED <<registry, pending, edges, overlapped, wiped>>
      /\ interrupted' = IF handlers[h].relinking \/ At(h, "list") THEN interrupted
                        ELSE interrupted \cup {handlers[h].capability}
  BY DEF Fail, Goto, putVars
<1>2. ASSUME NEW c \in Registered \ (interrupted' \cup wiped), ~overlapped,
             Applied(c) \/ AllPlaced(c)
      PROVE  AllPlaced(c)'
  <2>1. ~Applied(c)
    <3> SUFFICES ASSUME Applied(c) PROVE FALSE
      OBVIOUS
    <3>1. Holds(h, c) /\ ~handlers[h].relinking /\ handlers[h].capability = c
      BY <1>1, <1>2, AppliedByOne DEF LinkingInv
    <3> QED BY <1>1, <1>2, <3>1 DEF Holds
  <2> QED BY <1>1, <1>2, <2>1, LookupsStay DEF AllPlaced, Placed, Linked
<1> QED BY <1>1, <1>2, IdleIsHandler, ReferencesMoveOn DEF LinkingInv

LEMMA KeptInvariant == Spec => []KeptInv
<1>1. Init => KeptInv
  <2> SUFFICES ASSUME Init PROVE KeptInv
    OBVIOUS
  <2>1. registry = <<>> /\ DOMAIN registry = {} /\ Registered = {}
    BY DEF Init, Registered
  <2>2. \A h \in Handlers : At(h, "idle")
    BY IdleIsHandler DEF Init, At
  <2> QED BY <2>1, <2>2 DEF KeptInv, RowsDiffer, OneRequest, Kept
<1>2. ASSUME LinkingInv, LinkingInv', KeptInv, [Next]_vars
      PROVE  KeptInv'
  <2>1. ASSUME NEW h \in Handlers, NEW c \in Capabilities, NEW via \in Entrances,
               Insert(h, c, via)
        PROVE  KeptInv'
    BY <1>2, <2>1, InsertKeepsReferences
  <2>2. ASSUME NEW h \in Handlers, Proceed(h)
        PROVE  KeptInv'
    BY <1>2, <2>2, ResolveKeepsReferences, ListForKeepsReferences, StoreKeepsReferences,
       SaveKeepsReferences, ListKeepsReferences DEF Proceed
  <2>3. ASSUME NEW h \in Handlers, Fail(h)
        PROVE  KeptInv'
    BY <1>2, <2>3, FailKeepsReferences
  <2>4. ASSUME NEW c \in Capabilities, Put(c)
        PROVE  KeptInv'
    BY <1>2, <2>4, PutKeepsReferences
  <2>5. CASE UNCHANGED vars
    <3>1. UNCHANGED <<registry, pending, edges, handlers, interrupted, overlapped, wiped>>
      BY <2>5 DEF vars, putVars
    <3> QED BY <1>2, <3>1, LookupsStay DEF KeptInv, RowsDiffer, OneRequest, Kept, Applied, AllPlaced,
              Placed, Linked, HoldsReferences, Charged, Answered, RestIsPending, Holds, At,
              Registered
  <2> QED BY <1>2, <2>1, <2>2, <2>3, <2>4, <2>5 DEF Next
<1> QED BY <1>1, <1>2, LinkingInvariant, PTL DEF Spec

(* Without overlapping registrations every declared reference is somewhere.*)
THEOREM ReferencesAreAlwaysKept == Spec => []ReferencesAreKept
<1>1. LinkingInv /\ KeptInv => ReferencesAreKept
  <2> SUFFICES ASSUME LinkingInv, KeptInv, ~overlapped,
                      NEW c \in Registered \ (interrupted \cup wiped),
                      NEW ref \in DependsOn[c], Self(c, ref)
               PROVE  ExternalId[c] = ref.external
    BY DEF KeptInv, Kept, ReferencesAreKept, Applied, AllPlaced, Placed
  <2>1. c \in Capabilities /\ c # None /\ ref \in Ref
    BY RegisteredAreCapabilities, LinkingAssumption DEF LinkingInv
  <2>2. ref.external \in ExternalIds
    BY <2>1 DEF Ref
  <2> QED BY <2>1, <2>2, FindIsRegistered DEF LinkingInv, Self
<1> QED BY <1>1, LinkingInvariant, KeptInvariant, PTL

-----------------------------------------------------------------------------
Listed == {registry[i] : i \in Page}

(* Nothing pending on c could be resolved.                                 *)
Settled(c) == \A ref \in pending[c] : ~Resolvable(c, ref)

(* A relink under way leaves settled capabilities behind: those of the     *)
(* page that are neither its current one nor still to come; and what it    *)
(* has found unresolved cannot be resolved.                                *)
HoldsRepairs(s) ==
    /\ \A ref \in s.unresolved : ~Resolvable(s.capability, ref)
    /\ s.phase = "resolve" =>
         \A ref \in pending[s.capability] :
             ref \in s.todo \/ ~Resolvable(s.capability, ref) \/ s.resolved # {}
    /\ \A c \in Listed :
         \/ c = s.capability
         \/ Settled(c)
         \/ \E w \in s.rest : w.capability = c

RepairInv ==
    ~overlapped =>
        /\ \A h \in Handlers : ~At(h, "idle") =>
             ~relinked /\ (handlers[h].relinking => HoldsRepairs(handlers[h]))
        /\ relinked => \A c \in Listed : Settled(c)

-----------------------------------------------------------------------------
LEMMA ResolvableStays ==
    ASSUME registry' = registry
    PROVE  /\ Listed' = Listed
           /\ \A c, ref : Resolvable(c, ref)' <=> Resolvable(c, ref)
<1>1. Listed' = Listed
  BY DEF Listed, Page
<1>2. \A c, ref : Resolvable(c, ref)' <=> Resolvable(c, ref)
  BY LookupsStay DEF Resolvable, HasType
<1> QED BY <1>1, <1>2

LEMMA ListedAreCapabilities ==
    ASSUME TypeOK
    PROVE  Listed \subseteq Capabilities
BY DEF TypeOK, Listed, Page

(* Only the one request under way matters to the others.                   *)
LEMMA RepairsMoveOn ==
    ASSUME TypeOK, KeptInv, NEW h \in Handlers, ~At(h, "idle"), NEW n,
           handlers' = [handlers EXCEPT ![h] = n], overlapped' = overlapped,
           ~overlapped /\ n.phase # "idle" => ~relinked' /\ (n.relinking => HoldsRepairs(n)'),
           ~overlapped /\ relinked' => \A c \in Listed' : Settled(c)'
    PROVE  RepairInv'
<1>1. \A g \in Handlers : handlers'[g] = IF g = h THEN n ELSE handlers[g]
  BY DEF TypeOK
<1>2. ASSUME ~overlapped, NEW g \in Handlers, ~At(g, "idle")'
      PROVE  ~relinked' /\ (handlers'[g].relinking => HoldsRepairs(handlers[g])')
  <2>1. g = h /\ handlers'[g] = n /\ n.phase # "idle"
    BY <1>1, <1>2 DEF At, KeptInv, OneRequest
  <2> QED BY <1>2, <2>1
<1> QED BY <1>2 DEF RepairInv

LEMMA NextTakes ==
    ASSUME RowsAreOrdered, NEW s \in Handler, HoldsDeclared(s), s.rest # {},
           NEW n, n = NextCapability(s)
    PROVE  \E next \in s.rest :
             /\ n.phase = "resolve" /\ n.relinking = s.relinking
             /\ n.capability = next.capability /\ n.todo = next.refs
             /\ n.resolved = {} /\ n.unresolved = {} /\ n.rest = s.rest \ {next}
<1> DEFINE next == Oldest(s.rest)
           new == [s EXCEPT !.phase = "resolve", !.capability = next.capability,
                            !.content = next.content, !.todo = next.refs, !.resolved = {},
                            !.unresolved = {}, !.rest = @ \ {next}]
<1>1. n = new
  BY DEF NextCapability
<1>2. next \in s.rest
  BY OldestWaits
<1> HIDE DEF next
<1>3. /\ new.phase = "resolve" /\ new.relinking = s.relinking
      /\ new.capability = next.capability /\ new.todo = next.refs
      /\ new.resolved = {} /\ new.unresolved = {} /\ new.rest = s.rest \ {next}
  BY DEF Handler
<1> HIDE DEF new
<1> QED BY <1>1, <1>2, <1>3

(* A relink done with its capability goes on to the next, or has settled   *)
(* the whole page.                                                         *)
LEMMA NextHoldsRepairs ==
    ASSUME RowsAreOrdered, NEW s \in Handler, HoldsDeclared(s), registry' = registry,
           \A w \in s.rest : pending'[w.capability] \subseteq w.refs,
           \A c \in Listed : Settled(c)' \/ \E w \in s.rest : w.capability = c,
           NEW n, n = NextCapability(s)
    PROVE  /\ n.phase # "idle" => HoldsRepairs(n)'
           /\ n.phase = "idle" => \A c \in Listed' : Settled(c)'
<1>1. CASE s.rest = {}
  BY <1>1, IdleIsHandler, ResolvableStays DEF NextCapability
<1>2. CASE s.rest # {}
  <2>1. PICK next \in s.rest :
             /\ n.phase = "resolve" /\ n.relinking = s.relinking
             /\ n.capability = next.capability /\ n.todo = next.refs
             /\ n.resolved = {} /\ n.unresolved = {} /\ n.rest = s.rest \ {next}
    BY <1>2, NextTakes
  <2>2. pending'[n.capability] \subseteq n.todo
    BY <2>1
  <2>3. \A c \in Listed' :
          \/ c = n.capability
          \/ Settled(c)'
          \/ \E w \in n.rest : w.capability = c
    BY <2>1, ResolvableStays
  <2> QED BY <2>1, <2>2, <2>3 DEF HoldsRepairs
<1> QED BY <1>1, <1>2

LEMMA InsertKeepsRepairs ==
    ASSUME LinkingInv, NEW h \in Handlers, NEW c \in Capabilities,
           NEW via \in Entrances, Insert(h, c, via)
    PROVE  RepairInv'
<1> DEFINE s0 == [Idle EXCEPT !.phase = "resolve", !.via = via,
                              !.capability = c, !.todo = DependsOn[c]]
           list == [s0 EXCEPT !.phase = "list"]
<1>1. PICK s : s = AfterInsert(s0)
  OBVIOUS
<1>2. /\ ~relinked'
      /\ handlers' = [handlers EXCEPT ![h] = s]
      /\ ~overlapped' => \A g \in Handlers : At(g, "idle")
  BY <1>1 DEF Insert, Goto, LinkingInv, TypeOK
<1>3. s0.relinking = FALSE /\ list.relinking = FALSE
  BY DEF Idle
<1>4. s \in {s0, list, Idle}
  BY <1>1 DEF AfterInsert, AfterCreate
<1> HIDE DEF s0, list
<1>5. s.relinking = FALSE
  BY <1>3, <1>4 DEF Idle
<1>6. ASSUME ~overlapped', NEW g \in Handlers, ~At(g, "idle")'
      PROVE  handlers'[g].relinking = FALSE
  BY <1>2, <1>5, <1>6 DEF At, LinkingInv, TypeOK
<1> QED BY <1>2, <1>6 DEF RepairInv

(* One lookup leaves behind what it linked or what cannot be resolved.     *)
LEMMA LookupSettles ==
    ASSUME NEW s \in Handler, HoldsRepairs(s), s.phase = "resolve", NEW ref \in s.todo,
           NEW r, r = Resolved(s, ref, FindByExternalID(s.capability, ref.external))
    PROVE  HoldsRepairs(r)
<1> DEFINE target == FindByExternalID(s.capability, ref.external)
           rest == [s EXCEPT !.todo = @ \ {ref}]
<1>1. /\ rest \in Handler
      /\ rest.phase = "resolve" /\ rest.capability = s.capability
      /\ rest.todo = s.todo \ {ref} /\ rest.rest = s.rest
      /\ rest.resolved = s.resolved /\ rest.unresolved = s.unresolved
  BY DEF Handler
<1>2. \/ r = [rest EXCEPT !.unresolved = @ \cup {ref}] /\ ~Resolvable(s.capability, ref)
      \/ r = rest /\ ~Resolvable(s.capability, ref)
      \/ r = [rest EXCEPT !.resolved = @ \cup {target}]
  BY DEF Resolved, Resolvable
<1> HIDE DEF rest, target
<1>3. /\ r.phase = "resolve" /\ r.capability = s.capability
      /\ r.todo = s.todo \ {ref} /\ r.rest = s.rest
      /\ s.resolved # {} => r.resolved # {}
      /\ ~Resolvable(s.capability, ref) \/ r.resolved # {}
      /\ \A x \in r.unresolved : x \in s.unresolved \/ ~Resolvable(s.capability, x)
  BY <1>1, <1>2 DEF Handler
<1> QED BY <1>3 DEF HoldsRepairs

LEMMA ResolveKeepsRepairs ==
    ASSUME LinkingInv, KeptInv, RepairInv, NEW h \in Handlers, Resolve(h)
    PROVE  RepairInv'
<1>0. PICK s : s = handlers[h]
  OBVIOUS
<1>1. PICK ref \in s.todo :
        /\ Goto(h, AfterResolve(Resolved(s, ref, FindByExternalID(s.capability, ref.external))))
        /\ relinked' = (relinked \/ AfterResolve(Resolved(s, ref,
                            FindByExternalID(s.capability, ref.external))).phase = "idle")
  BY <1>0 DEF Resolve
<1>2. s \in Handler /\ HoldsDeclared(s) /\ s.capability \in Capabilities /\ s.phase = "resolve"
  BY <1>0 DEF LinkingInv, TypeOK, Resolve, At, HandlersHoldDeclared
<1>3. PICK r : r = Resolved(s, ref, FindByExternalID(s.capability, ref.external))
  OBVIOUS
<1>4. PICK n : n = AfterResolve(r)
  OBVIOUS
<1>5. r \in Handler /\ HoldsDeclared(r)
  BY <1>2, <1>3, ResolvedHolds
<1>6. /\ handlers' = [handlers EXCEPT ![h] = n]
      /\ relinked' = (relinked \/ n.phase = "idle")
      /\ UNCHANGED <<registry, pending, overlapped>>
      /\ ~At(h, "idle")
  BY <1>0, <1>1, <1>2, <1>3, <1>4 DEF Resolve, Goto, putVars, At
<1> DEFINE Goal == /\ n.phase # "idle" => ~relinked' /\ (n.relinking => HoldsRepairs(n)')
                   /\ relinked' => \A c \in Listed' : Settled(c)'
<1>7. ASSUME ~overlapped
      PROVE  Goal
  <2>1. ~relinked /\ (s.relinking => HoldsRepairs(s)) /\ HoldsReferences(s)
    BY <1>0, <1>6, <1>7 DEF RepairInv, KeptInv
  <2>2. r.phase = "resolve" /\ r.relinking = s.relinking /\ r.rest = s.rest
    BY <1>2, <1>3, <2>1, ResolvedAnswers DEF LinkingInv
  <2>3. r.relinking => HoldsRepairs(r)
    BY <1>2, <1>3, <2>1, <2>2, LookupSettles
  <2>4. \A x : HoldsRepairs(x) => HoldsRepairs(x)'
    BY <1>6, ResolvableStays DEF HoldsRepairs, Settled
  <2>5. CASE r.todo # {}
    BY <1>4, <1>6, <2>1, <2>2, <2>3, <2>4, <2>5 DEF AfterResolve
  <2>6. ASSUME NEW phase \in {"store", "merge"}, n = [r EXCEPT !.phase = phase]
        PROVE  Goal
    <3>1. /\ n.phase = phase /\ n.capability = r.capability /\ n.relinking = r.relinking
          /\ n.rest = r.rest /\ n.unresolved = r.unresolved
      BY <1>5, <2>6 DEF Handler
    <3>2. n.relinking => HoldsRepairs(n)
      BY <2>3, <3>1 DEF HoldsRepairs
    <3> QED BY <1>6, <2>1, <2>4, <3>1, <3>2
  <2>7. CASE r.todo = {} /\ r.relinking /\ r.resolved = {}
    <3>1. n = NextCapability(r)
      BY <1>4, <2>7 DEF AfterResolve
    <3>2. \A w \in r.rest : pending'[w.capability] \subseteq w.refs
      BY <1>6, <2>1, <2>2 DEF HoldsReferences, RestIsPending
    <3>3. Settled(r.capability)
      BY <2>2, <2>3, <2>7 DEF HoldsRepairs, Settled
    <3>4. \A c \in Listed : Settled(c) \/ \E w \in r.rest : w.capability = c
      BY <2>3, <2>7, <3>3 DEF HoldsRepairs
    <3>5. \A c : Settled(c) => Settled(c)'
      BY <1>6, ResolvableStays DEF Settled
    <3>6. /\ n.phase # "idle" => HoldsRepairs(n)'
          /\ n.phase = "idle" => \A c \in Listed' : Settled(c)'
      BY <1>5, <1>6, <3>1, <3>2, <3>4, <3>5, NextHoldsRepairs DEF LinkingInv
    <3> QED BY <1>6, <2>1, <3>6
  <2>8. \/ r.todo # {}
        \/ r.todo = {} /\ r.relinking /\ r.resolved = {}
        \/ n = [r EXCEPT !.phase = "store"]
        \/ n = [r EXCEPT !.phase = "merge"]
    BY <1>4 DEF AfterResolve
  <2> QED BY <2>5, <2>6, <2>7, <2>8
<1> QED BY <1>6, <1>7, RepairsMoveOn DEF LinkingInv

LEMMA ListForKeepsRepairs ==
    ASSUME LinkingInv, KeptInv, RepairInv, NEW h \in Handlers, ListFor(h)
    PROVE  RepairInv'
<1>0. PICK s : s = handlers[h]
  OBVIOUS
<1>1. PICK n : n = [s EXCEPT !.phase = "store", !.resolved = edges[s.capability] \cup @]
  OBVIOUS
<1>2. /\ handlers' = [handlers EXCEPT ![h] = n]
      /\ s \in Handler /\ ~At(h, "idle")
      /\ UNCHANGED <<registry, pending, overlapped, relinked>>
  BY <1>0, <1>1 DEF ListFor, Goto, At, LinkingInv, TypeOK, putVars
<1>3. /\ n.phase = "store" /\ n.capability = s.capability /\ n.relinking = s.relinking
      /\ n.rest = s.rest /\ n.unresolved = s.unresolved
  BY <1>1, <1>2 DEF Handler
<1>4. ASSUME ~overlapped
      PROVE  ~relinked' /\ (n.relinking => HoldsRepairs(n)')
  BY <1>0, <1>2, <1>3, <1>4, ResolvableStays DEF RepairInv, HoldsRepairs, Settled
<1> QED BY <1>2, <1>4, RepairsMoveOn DEF LinkingInv

LEMMA StoreKeepsRepairs ==
    ASSUME LinkingInv, KeptInv, RepairInv, NEW h \in Handlers, Store(h)
    PROVE  RepairInv'
<1>0. PICK s : s = handlers[h]
  OBVIOUS
<1> DEFINE save == [s EXCEPT !.phase = "save"]
           list == [s EXCEPT !.phase = "list"]
<1>1. PICK n : n = IF s.unresolved = {} /\ ~s.relinking THEN AfterCreate(s) ELSE save
  OBVIOUS
<1>2. /\ handlers' = [handlers EXCEPT ![h] = n]
      /\ s \in Handler /\ ~At(h, "idle")
      /\ UNCHANGED <<registry, pending, overlapped, relinked>>
  BY <1>0, <1>1 DEF Store, Goto, At, LinkingInv, TypeOK, putVars
<1>3. /\ save.phase = "save" /\ save.capability = s.capability
      /\ save.relinking = s.relinking /\ save.rest = s.rest
      /\ save.unresolved = s.unresolved /\ list.relinking = s.relinking
  BY <1>2 DEF Handler
<1>4. n = save \/ (~s.relinking /\ n \in {list, Idle})
  BY <1>1 DEF AfterCreate
<1> HIDE DEF save, list
<1>5. ASSUME ~overlapped
      PROVE  ~relinked' /\ (n.relinking => HoldsRepairs(n)')
  <2>1. ~relinked /\ (s.relinking => HoldsRepairs(s))
    BY <1>0, <1>2, <1>5 DEF RepairInv
  <2>2. CASE n = save
    BY <1>2, <1>3, <2>1, <2>2, ResolvableStays DEF HoldsRepairs, Settled
  <2>3. CASE ~s.relinking /\ n \in {list, Idle}
    BY <1>2, <1>3, <2>1, <2>3 DEF Idle
  <2> QED BY <1>4, <2>2, <2>3
<1> QED BY <1>2, <1>5, RepairsMoveOn DEF LinkingInv

LEMMA SaveKeepsRepairs ==
    ASSUME LinkingInv, KeptInv, RepairInv, NEW h \in Handlers, Save(h)
    PROVE  RepairInv'
<1>0. PICK s : s = handlers[h]
  OBVIOUS
<1> DEFINE list == [s EXCEPT !.phase = "list"]
<1>1. PICK n : n = IF s.relinking THEN NextCapability(s) ELSE AfterCreate(s)
  OBVIOUS
<1>2. /\ handlers' = [handlers EXCEPT ![h] = n]
      /\ s.phase = "save" /\ s \in Handler /\ ~At(h, "idle") /\ s.capability \in Capabilities
      /\ HoldsDeclared(s)
      /\ relinked' = (relinked \/ (s.relinking /\ n.phase = "idle"))
      /\ UNCHANGED <<registry, overlapped>>
  BY <1>0, <1>1 DEF Save, Goto, At, LinkingInv, TypeOK, HandlersHoldDeclared
<1>3. \A c \in Capabilities : pending'[c] = IF c = s.capability THEN s.unresolved ELSE pending[c]
  BY <1>0 DEF Save, LinkingInv, TypeOK
<1>4. list.relinking = s.relinking
  BY <1>2 DEF Handler
<1>5. ~s.relinking => n \in {list, Idle}
  BY <1>1 DEF AfterCreate
<1> HIDE DEF list
<1> DEFINE Goal == /\ n.phase # "idle" => ~relinked' /\ (n.relinking => HoldsRepairs(n)')
                   /\ relinked' => \A c \in Listed' : Settled(c)'
<1>6. ASSUME ~overlapped
      PROVE  Goal
  <2>1. ~relinked /\ (s.relinking => HoldsRepairs(s)) /\ HoldsReferences(s)
    BY <1>0, <1>2, <1>6 DEF RepairInv, KeptInv
  <2>2. CASE ~s.relinking
    <3>1. Idle.relinking = FALSE
      BY DEF Idle
    <3>2. ~n.relinking
      BY <1>4, <1>5, <2>2, <3>1
    <3>3. ~relinked'
      BY <1>2, <2>1, <2>2
    <3> QED BY <3>2, <3>3
  <2>3. CASE s.relinking
    <3>1. n = NextCapability(s)
      BY <1>1, <2>3
    <3>2. \A w \in s.rest : w.capability \in Capabilities /\ w.capability # s.capability
      BY <1>2, <2>1 DEF Handler, Snapshot, HoldsReferences
    <3>3. \A w \in s.rest : pending'[w.capability] \subseteq w.refs
      BY <1>3, <2>1, <3>2 DEF HoldsReferences, RestIsPending
    <3>4. Settled(s.capability)'
      <4>1. \A ref \in pending'[s.capability] : ~Resolvable(s.capability, ref)
        BY <1>2, <1>3, <2>1, <2>3 DEF HoldsRepairs
      <4>2. PICK c \in Capabilities : c = s.capability
        BY <1>2
      <4> QED BY <1>2, <4>1, <4>2, ResolvableStays DEF Settled
    <3>5. \A c \in Capabilities \ {s.capability} : Settled(c) => Settled(c)'
      BY <1>2, <1>3, ResolvableStays DEF Settled
    <3>6. \A c \in Listed : Settled(c)' \/ \E w \in s.rest : w.capability = c
      <4> SUFFICES ASSUME NEW c \in Listed, ~\E w \in s.rest : w.capability = c
                   PROVE  Settled(c)'
        OBVIOUS
      <4>1. c \in Capabilities
        BY ListedAreCapabilities DEF LinkingInv
      <4>2. c = s.capability \/ Settled(c)
        BY <2>1, <2>3 DEF HoldsRepairs
      <4> QED BY <3>4, <3>5, <4>1, <4>2
    <3>7. /\ n.phase # "idle" => HoldsRepairs(n)'
          /\ n.phase = "idle" => \A c \in Listed' : Settled(c)'
      BY <1>2, <3>1, <3>3, <3>6, NextHoldsRepairs DEF LinkingInv
    <3> QED BY <1>2, <2>1, <3>7
  <2> QED BY <2>2, <2>3
<1> QED BY <1>2, <1>6, RepairsMoveOn DEF LinkingInv

LEMMA ListKeepsRepairs ==
    ASSUME LinkingInv, KeptInv, RepairInv, NEW h \in Handlers, List(h)
    PROVE  RepairInv'
<1>0. PICK s : s = handlers[h]
  OBVIOUS
<1>1. PICK m : m = [s EXCEPT !.relinking = TRUE, !.rest = Waits]
  OBVIOUS
<1>2. PICK n : n = NextCapability(m)
  OBVIOUS
<1>3. /\ handlers' = [handlers EXCEPT ![h] = n]
      /\ s \in Handler /\ HoldsDeclared(s) /\ ~At(h, "idle")
      /\ relinked' = (n.phase = "idle")
      /\ UNCHANGED <<registry, pending, overlapped>>
  BY <1>0, <1>1, <1>2 DEF List, Goto, At, LinkingInv, TypeOK, HandlersHoldDeclared, putVars
<1>4. PICK rest : rest = Waits
  OBVIOUS
<1> DEFINE Copy(i) == [place |-> i, capability |-> registry[i],
                       refs |-> pending[registry[i]], content |-> content[registry[i]]]
<1>5. /\ \A i \in Page : pending[registry[i]] # {} => Copy(i) \in rest
      /\ \A w \in rest : \E i \in Page : w = Copy(i)
  BY <1>4 DEF Waits
<1>6. \A i \in Page :
        /\ i \in DOMAIN registry /\ i \in Nat
        /\ registry[i] \in Registered /\ registry[i] \in Capabilities
        /\ pending[registry[i]] \in SUBSET Ref
        /\ pending[registry[i]] \subseteq DependsOn[registry[i]]
        /\ content[registry[i]] \in Nat
  BY TablesDeclared DEF LinkingInv, TypeOK, Page, Registered
<1>7. /\ rest \subseteq Snapshot
      /\ \A w \in rest : /\ w.place \in DOMAIN registry
                        /\ w.capability \in Registered
                        /\ w.refs \subseteq DependsOn[w.capability]
                        /\ pending[w.capability] \subseteq w.refs
  BY <1>5, <1>6 DEF Snapshot
<1>8. /\ m \in Handler /\ m.relinking
      /\ m.capability = s.capability /\ m.todo = s.todo /\ m.resolved = s.resolved
      /\ m.unresolved = s.unresolved /\ m.rest = rest
  BY <1>1, <1>3, <1>4, <1>7 DEF Handler
<1>9. HoldsDeclared(m)
  BY <1>3, <1>7, <1>8 DEF HoldsDeclared
<1>10. \A w \in m.rest : pending'[w.capability] \subseteq w.refs
  BY <1>3, <1>7, <1>8
<1>11. \A c \in Listed : Settled(c)' \/ \E w \in m.rest : w.capability = c
  <2> SUFFICES ASSUME NEW c \in Listed, ~\E w \in m.rest : w.capability = c
               PROVE  Settled(c)'
    OBVIOUS
  <2>1. pending[c] = {}
    BY <1>5, <1>8 DEF Listed
  <2> QED BY <1>3, <2>1 DEF Settled
<1>12. /\ n.phase # "idle" => HoldsRepairs(n)'
       /\ n.phase = "idle" => \A c \in Listed' : Settled(c)'
  BY <1>2, <1>3, <1>8, <1>9, <1>10, <1>11, NextHoldsRepairs DEF LinkingInv
<1> QED BY <1>3, <1>12, RepairsMoveOn DEF LinkingInv

LEMMA PutKeepsRepairs ==
    ASSUME LinkingInv, RepairInv, NEW c \in Capabilities, Put(c)
    PROVE  RepairInv'
<1>1. /\ UNCHANGED <<registry, handlers, relinked, overlapped>>
      /\ pending' = [pending EXCEPT ![c] = {}]
  BY DEF Put
<1>2. \A d \in Capabilities : pending'[d] \subseteq pending[d]
  BY <1>1 DEF LinkingInv, TypeOK
<1>3. \A d \in Capabilities : Settled(d) => Settled(d)'
  BY <1>1, <1>2, ResolvableStays DEF Settled
<1>4. Listed' = Listed /\ Listed \subseteq Capabilities
  BY <1>1, ResolvableStays, ListedAreCapabilities DEF LinkingInv
<1>5. \A s : s.capability \in Capabilities /\ HoldsRepairs(s) => HoldsRepairs(s)'
  BY <1>1, <1>2, <1>3, <1>4, ResolvableStays DEF HoldsRepairs
<1>6. \A h \in Handlers : ~At(h, "idle") => handlers[h].capability \in Capabilities
  BY DEF LinkingInv, TypeOK
<1>7. ASSUME ~overlapped, NEW h \in Handlers, ~At(h, "idle")'
      PROVE  ~relinked' /\ (handlers'[h].relinking => HoldsRepairs(handlers[h])')
  <2>1. PICK s : s = handlers[h]
    OBVIOUS
  <2>2. ~relinked /\ (s.relinking => HoldsRepairs(s)) /\ s.capability \in Capabilities
    BY <1>1, <1>6, <1>7, <2>1 DEF RepairInv, At
  <2>3. handlers'[h] = s
    BY <1>1, <2>1
  <2> QED BY <1>1, <1>5, <2>2, <2>3
<1> QED BY <1>1, <1>3, <1>4, <1>7 DEF RepairInv

LEMMA FailKeepsRepairs ==
    ASSUME LinkingInv, KeptInv, RepairInv, NEW h \in Handlers, Fail(h)
    PROVE  RepairInv'
<1>1. /\ handlers' = [handlers EXCEPT ![h] = Idle]
      /\ ~At(h, "idle")
      /\ UNCHANGED <<relinked, overlapped>>
  BY DEF Fail, Goto
<1>2. ~overlapped => ~relinked
  BY <1>1 DEF RepairInv
<1> QED BY <1>1, <1>2, IdleIsHandler, RepairsMoveOn DEF LinkingInv

(* A registration whose RelinkPending completes repairs the page: at rest  *)
(* nothing is pending there that could be resolved, and every reference    *)
(* that is not pending has its edge.                                       *)
THEOREM RelinkAlwaysRepairs == Spec => []RelinkRepairs
<1>1. Init => RepairInv
  <2> SUFFICES ASSUME Init PROVE RepairInv
    OBVIOUS
  <2>1. Listed = {}
    BY DEF Init, Listed, Page
  <2>2. \A h \in Handlers : At(h, "idle")
    BY IdleIsHandler DEF Init, At
  <2> QED BY <2>1, <2>2 DEF RepairInv
<1>2. ASSUME LinkingInv, KeptInv, RepairInv, [Next]_vars
      PROVE  RepairInv'
  <2>1. ASSUME NEW h \in Handlers, NEW c \in Capabilities, NEW via \in Entrances,
               Insert(h, c, via)
        PROVE  RepairInv'
    BY <1>2, <2>1, InsertKeepsRepairs
  <2>2. ASSUME NEW h \in Handlers, Proceed(h)
        PROVE  RepairInv'
    BY <1>2, <2>2, ResolveKeepsRepairs, ListForKeepsRepairs, StoreKeepsRepairs,
       SaveKeepsRepairs, ListKeepsRepairs DEF Proceed
  <2>3. ASSUME NEW h \in Handlers, Fail(h)
        PROVE  RepairInv'
    BY <1>2, <2>3, FailKeepsRepairs
  <2>4. ASSUME NEW c \in Capabilities, Put(c)
        PROVE  RepairInv'
    BY <1>2, <2>4, PutKeepsRepairs
  <2>5. CASE UNCHANGED vars
    <3>1. UNCHANGED <<registry, pending, handlers, overlapped, relinked>>
      BY <2>5 DEF vars
    <3>2. \A x : HoldsRepairs(x) <=> HoldsRepairs(x)'
      BY <3>1, ResolvableStays DEF HoldsRepairs, Settled
    <3> QED BY <1>2, <3>1, <3>2, ResolvableStays DEF RepairInv, At, Settled
  <2> QED BY <1>2, <2>1, <2>2, <2>3, <2>4, <2>5 DEF Next
<1>3. ASSUME LinkingInv, KeptInv, RepairInv
      PROVE  RelinkRepairs
  <2> SUFFICES ASSUME AllIdle, relinked, ~overlapped, NEW i \in Page,
                      registry[i] \notin interrupted \cup wiped,
                      NEW ref \in DependsOn[registry[i]], Resolvable(registry[i], ref)
               PROVE  Linked(registry[i], ref)
    BY DEF RelinkRepairs
  <2>1. registry[i] \in Registered /\ registry[i] \in Listed
    BY DEF Page, Registered, Listed
  <2>2. ~Applied(registry[i])
    BY DEF Applied, Holds, AllIdle
  <2>3. Placed(registry[i], ref)
    BY <1>3, <2>1, <2>2 DEF KeptInv, Kept, AllPlaced
  <2>4. ref \notin pending[registry[i]]
    BY <1>3, <2>1 DEF RepairInv, Settled
  <2>5. ~Self(registry[i], ref)
    BY DEF Self, Resolvable
  <2> QED BY <2>3, <2>4, <2>5 DEF Placed
<1> QED BY <1>1, <1>2, <1>3, LinkingInvariant, KeptInvariant, PTL DEF Spec
=============================================================================
