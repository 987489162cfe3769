-------------------------- MODULE CompositionProofs --------------------------
(***************************************************************************)
(* What a plan is worth, for any registry, any number of roles, changes    *)
(* and failures: what scoring guarantees of a match, then that a           *)
(* recommended plan is the closure of what matched, a valid one is sound,  *)
(* an undisturbed recommendation validates, and every request runs out of  *)
(* calls to make.                                                          *)
(***************************************************************************)
EXTENDS Composition, FiniteSetTheorems, WellFoundedInduction, TLAPS

-----------------------------------------------------------------------------
(* Scoring, for any roles and any capabilities.                            *)

LEMMA HitsAndSizes ==
    ASSUME NEW r \in Roles, NEW c \in Capabilities
    PROVE  /\ Intents(r) \in Nat \ {0} /\ Words(r) \in Nat \ {0} /\ Keywords(r) \in Nat \ {0}
           /\ IntentHits(r, c) \in Nat /\ TagHits(r, c) \in Nat /\ KeywordHits(r, c) \in Nat
           /\ DomainHit(r, c) \in {0, 1}
           /\ KeywordHits(r, c) <= Keywords(r)
           /\ IntentHits(r, c) <= Intents(r) /\ TagHits(r, c) <= Words(r)
           /\ IntentHits(r, c) > 0 => Asks[r].intents \cap Offers[c].intents # {}
           /\ TagHits(r, c) > 0 => Vocabulary(r) \cap Offers[c].tags # {}
           /\ KeywordHits(r, c) > 0 /\ KeywordHits(r, c) = Keywords(r) =>
                 Asks[r].keywords \subseteq Offers[c].text
<1>1. /\ Asks[r].intents \subseteq Terms /\ Asks[r].keywords \subseteq Terms
      /\ Offers[c].intents \subseteq Terms
    BY MatchingAssumption DEF Role, Profile
<1>2. \A S \in SUBSET Terms : IsFiniteSet(S) /\ Cardinality(S) \in Nat
    BY MatchingAssumption, FS_Subset, FS_CardinalityType
<1>3. /\ Cardinality(Asks[r].intents) \in Nat /\ Cardinality(Asks[r].keywords) \in Nat
      /\ Cardinality(Vocabulary(r)) \in Nat
    BY <1>1, <1>2 DEF Vocabulary
<1>4. /\ IntentHits(r, c) \in Nat /\ TagHits(r, c) \in Nat /\ KeywordHits(r, c) \in Nat
    BY <1>1, <1>2 DEF IntentHits, TagHits, KeywordHits, Vocabulary
<1>5. Cardinality({}) = 0
    BY FS_EmptySet
<1>6. /\ KeywordHits(r, c) <= Cardinality(Asks[r].keywords)
      /\ KeywordHits(r, c) = Cardinality(Asks[r].keywords) =>
            Asks[r].keywords \subseteq Offers[c].text
  <2>1. IsFiniteSet(Asks[r].keywords)
    BY <1>1, <1>2
  <2>2. /\ Asks[r].keywords \cap Offers[c].text \subseteq Asks[r].keywords
    OBVIOUS
  <2>3. /\ Cardinality(Asks[r].keywords \cap Offers[c].text) <= Cardinality(Asks[r].keywords)
        /\ Cardinality(Asks[r].keywords \cap Offers[c].text) = Cardinality(Asks[r].keywords) =>
              Asks[r].keywords \cap Offers[c].text = Asks[r].keywords
    BY <2>1, <2>2, FS_Subset, FS_CardinalityType
  <2> QED
    BY <2>3 DEF KeywordHits
<1>7. Keywords(r) \in Nat \ {0} /\ Intents(r) \in Nat \ {0} /\ Words(r) \in Nat \ {0}
    BY <1>3 DEF Keywords, Intents, Words, OfNone
<1>8. /\ KeywordHits(r, c) <= Keywords(r)
      /\ KeywordHits(r, c) > 0 /\ KeywordHits(r, c) = Keywords(r) =>
            KeywordHits(r, c) = Cardinality(Asks[r].keywords)
    BY <1>3, <1>4, <1>6 DEF Keywords, OfNone
<1>9. /\ IntentHits(r, c) > 0 => Asks[r].intents \cap Offers[c].intents # {}
      /\ TagHits(r, c) > 0 => Vocabulary(r) \cap Offers[c].tags # {}
    BY <1>5 DEF IntentHits, TagHits
<1>10. IntentHits(r, c) <= Intents(r) /\ TagHits(r, c) <= Words(r)
  <2>1. \A S, T \in SUBSET Terms : S \subseteq T => Cardinality(S) <= Cardinality(T)
    BY <1>2, FS_Subset
  <2>2. /\ IntentHits(r, c) <= Cardinality(Asks[r].intents)
        /\ TagHits(r, c) <= Cardinality(Vocabulary(r))
    BY <1>1, <2>1 DEF IntentHits, TagHits, Vocabulary
  <2> QED
    BY <1>3, <1>4, <2>2 DEF Intents, Words, OfNone
<1> QED
    BY <1>4, <1>6, <1>7, <1>8, <1>9, <1>10 DEF DomainHit

(* The text of a capability alone, without the domain or without some      *)
(* keyword, stays below minScore, whatever the numbers of keywords and     *)
(* intents are.                                                            *)
LEMMA TextIsWeak ==
    ASSUME NEW I \in Nat \ {0}, NEW V \in Nat \ {0}, NEW K \in Nat \ {0},
           NEW k \in Nat, NEW d \in {0, 1}, k <= K, d = 0 \/ k < K
    PROVE  ~(6 * (I * V * K) + 6 * (0 * V * K) + 4 * (0 * I * K) + 2 * (k * I * V) + d * (I * V * K)
                >= 9 * (I * V * K))
<1> DEFINE u == I * V
<1>1. u \in Nat /\ u >= 1
    BY SMTT(20)
<1>2. /\ I * V * K = u * K /\ k * I * V = u * k
      /\ 0 * V * K = 0 /\ 0 * I * K = 0
    BY SMTT(20)
<1> HIDE DEF u
<1>3. u * k <= u * K /\ u * K >= 1
    BY <1>1, SMTT(20)
<1>4. k < K => u * k + u <= u * K
  <2> SUFFICES ASSUME k < K PROVE u * k + u <= u * K
    OBVIOUS
  <2>1. u * (k + 1) <= u * K /\ u * (k + 1) = u * k + u
    BY <1>1, SMTT(20)
  <2> QED
    BY <2>1
<1> DEFINE a == u * K  b == u * k
<1>5. a \in Nat /\ b \in Nat
    BY <1>1
<1>6. /\ b <= a /\ a >= 1 /\ (k < K => b + u <= a)
    BY <1>3, <1>4
<1> HIDE DEF a, b
<1>7. CASE d = 0
    BY <1>5, <1>6, <1>7
<1>8. CASE d = 1 /\ k < K
    BY <1>1, <1>5, <1>6, <1>8
<1> QED
    BY <1>2, <1>7, <1>8 DEF a, b

(* A capability serves a role only for an intent or a tag they share, or   *)
(* for a text with all of the role's keywords and its domain besides: that *)
(* it is of the right type and mentions some words is never enough.        *)
THEOREM MatchesNeedEvidence ==
    ASSUME NEW r \in Roles, NEW c \in Capabilities, Serves(r, c)
    PROVE  Evidence(r, c)
<1> SUFFICES ASSUME ~Evidence(r, c) PROVE FALSE
    OBVIOUS
<1>1. IntentHits(r, c) = 0 /\ TagHits(r, c) = 0
    BY HitsAndSizes DEF Evidence
<1>2. KeywordHits(r, c) > 0
    BY <1>1 DEF Serves
<1>3. DomainHit(r, c) = 0 \/ KeywordHits(r, c) < Keywords(r)
  <2>1. CASE Offers[c].domain \in Vocabulary(r)
    <3>1. KeywordHits(r, c) # Keywords(r)
        BY <1>2, <2>1, HitsAndSizes DEF Evidence
    <3> QED
        BY <3>1, HitsAndSizes
  <2>2. CASE Offers[c].domain \notin Vocabulary(r)
    BY <2>2 DEF DomainHit
  <2> QED
    BY <2>1, <2>2
<1>4. ~StrongEnough(r, c)
    BY <1>1, <1>3, HitsAndSizes, TextIsWeak DEF StrongEnough, Total
<1> QED
    BY <1>4 DEF Serves

(* The score of a role has a bound, so that some capability reaches the    *)
(* highest.                                                                *)
LEMMA ProductsGrow ==
    ASSUME NEW a \in Nat, NEW b \in Nat, NEW i \in Nat, NEW n \in Nat, i <= n
    PROVE  i * a * b \in Nat /\ i * a * b <= n * a * b
<1>1. a * b \in Nat
    BY SMTT(20)
<1>2. i * (a * b) <= n * (a * b) /\ i * (a * b) \in Nat
    BY <1>1, SMTT(20)
<1>3. i * a * b = i * (a * b) /\ n * a * b = n * (a * b)
    BY SMTT(20)
<1> QED
    BY <1>2, <1>3

LEMMA ScoresAreBounded ==
    ASSUME NEW r \in Roles
    PROVE  \E bound \in Nat : \A c \in Capabilities : Score[r][c] \in 0..bound
<1> SUFFICES ASSUME Capabilities # {}
             PROVE  \E bound \in Nat : \A c \in Capabilities : Score[r][c] \in 0..bound
    BY 0 \in Nat
<1> DEFINE I == Intents(r)  V == Words(r)  K == Keywords(r)
<1>1. I \in Nat /\ V \in Nat /\ K \in Nat
    BY HitsAndSizes
<1>2. ASSUME NEW c \in Capabilities
      PROVE  Total(r, c) \in 0..(19 * (I * V * K))
  <2>1. I * V * K \in Nat
    BY <1>1, SMTT(20)
  <2>2. IntentHits(r, c) * V * K \in Nat /\ IntentHits(r, c) * V * K <= I * V * K
    BY <1>1, HitsAndSizes, ProductsGrow
  <2>3. TagHits(r, c) * I * K \in Nat /\ TagHits(r, c) * I * K <= V * I * K
    BY <1>1, HitsAndSizes, ProductsGrow
  <2>4. KeywordHits(r, c) * I * V \in Nat /\ KeywordHits(r, c) * I * V <= K * I * V
    BY <1>1, HitsAndSizes, ProductsGrow
  <2>5. V * I * K = I * V * K /\ K * I * V = I * V * K
    BY <1>1, SMTT(20)
  <2>6. DomainHit(r, c) * (I * V * K) \in {0, I * V * K}
    BY <2>1 DEF DomainHit
  <2> HIDE DEF I, V, K
  <2>7. Total(r, c) = 6 * (I * V * K) + 6 * (IntentHits(r, c) * V * K)
                        + 4 * (TagHits(r, c) * I * K) + 2 * (KeywordHits(r, c) * I * V)
                        + DomainHit(r, c) * (I * V * K)
    BY DEF Total, I, V, K
  <2> DEFINE p == I * V * K  i == IntentHits(r, c) * V * K  t == TagHits(r, c) * I * K
             k == KeywordHits(r, c) * I * V  d == DomainHit(r, c) * (I * V * K)
  <2>8. /\ p \in Nat /\ i \in Nat /\ t \in Nat /\ k \in Nat /\ d \in {0, p}
        /\ i <= p /\ t <= p /\ k <= p
        /\ Total(r, c) = 6 * p + 6 * i + 4 * t + 2 * k + d
    BY <2>1, <2>2, <2>3, <2>4, <2>5, <2>6, <2>7
  <2> HIDE DEF p, i, t, k, d
  <2>9. Total(r, c) \in 0..(19 * p)
    BY <2>8
  <2> QED
    BY <2>9 DEF p
<1>3. 19 * (I * V * K) \in Nat
    BY <1>1, SMTT(20)
<1>4. \A c \in Capabilities : Score[r][c] \in 0..(19 * (I * V * K))
    BY <1>2, <1>3 DEF Score
<1> QED
    BY <1>3, <1>4

(* bestMatch finds something wherever something serves.                    *)
LEMMA BestMatchExists ==
    ASSUME NEW r \in Roles, NEW page \in SUBSET Capabilities, BestMatches(r, page) = {}
    PROVE  \A c \in page : Score[r][c] = 0
<1> SUFFICES ASSUME NEW c \in page, Score[r][c] # 0 PROVE FALSE
    OBVIOUS
<1>1. PICK bound \in Nat : \A d \in Capabilities : Score[r][d] \in 0..bound
    BY ScoresAreBounded
<1> DEFINE below == {bound - Score[r][d] : d \in page}
<1>2. below \subseteq Nat /\ below # {}
    BY <1>1
<1> HIDE DEF below
<1>3. PICK n \in below : \A m \in below : n <= m
  <2>1. IsWellFoundedOn(OpToRel(<, Nat), Nat)
    BY NatLessThanWellFounded
  <2>2. PICK n \in below : \A m \in below : <<m, n>> \notin OpToRel(<, Nat)
    BY <1>2, <2>1, WFMin
  <2>3. \A m \in below : ~ (m < n)
    BY <1>2, <2>2 DEF OpToRel
  <2> QED
    BY <1>2, <2>3
<1>4. PICK best \in page : n = bound - Score[r][best]
    BY DEF below
<1>5. ASSUME NEW d \in page PROVE Score[r][d] <= Score[r][best]
  <2>1. n <= bound - Score[r][d]
    BY <1>3 DEF below
  <2> QED
    BY <1>1, <1>4, <2>1
<1>6. Score[r][best] > 0
    BY <1>1, <1>5
<1> QED
    BY <1>5, <1>6 DEF BestMatches

(* Whatever the goal triggers and whatever a model answers, there is a     *)
(* role to report against, and only roles with a step and a known type.    *)
THEOREM GoalsHaveRoles ==
    ASSUME NEW fired \in SUBSET Catalog, NEW reply \in SUBSET (Roles \cup Nonsense)
    PROVE  /\ DecomposeGoal(fired, reply) # {}
           /\ DecomposeGoal(fired, reply) \subseteq Roles
    BY MatchingAssumption DEF DecomposeGoal, RolesOfRules

-----------------------------------------------------------------------------

(* The loop of addDependencyClosure.  Every selected capability is still   *)
(* queued, or the current one with some edges left to follow, or has all   *)
(* its lasting needs in the plan.                                          *)
Settled(c) ==
    \A dep \in always[c] :
        dep.type \in ProvisionedTypes =>
            dep.target \in plan.refs \/ (c = current /\ dep \in todo)

Within(S) == matched \subseteq S /\ \A c \in S : Needs(ever[c]) \subseteq S

WalkIsSound ==
    phase = "walk" =>
        /\ last = "recommend"
        /\ matched \subseteq plan.refs
        /\ queue \subseteq plan.refs
        /\ todo # {} => current \in plan.refs
        /\ \A dep \in todo : dep.type \in ProvisionedTypes /\ dep \in ever[current]
        /\ \A c \in plan.refs \ (queue \cup plan.unresolved) : Settled(c)
        /\ \A S \in SUBSET Capabilities : Within(S) => plan.refs \subseteq S
        /\ \A c \in plan.refs \ touched : permits[c] \subseteq seen[c]

(* The loops of ValidateComposition: no findings so far means that what    *)
(* was looked up is there, was active, and has what it needs.              *)
CheckIsSound ==
    /\ phase \in {"check", "valid"} => last = "validate"
    /\ phase = "check" =>
         /\ PlanErrors \subseteq errors
         /\ unchecked \subseteq plan.refs
         /\ unlisted \subseteq present
         /\ present \subseteq plan.refs
         /\ unchecked # {} => unlisted = present
         /\ errors = {} =>
              /\ plan.refs \ unchecked \subseteq present \cap active
              /\ \A c \in present \ unlisted : Needs(always[c]) \subseteq present

(* What the session knows when nothing has interfered since the            *)
(* recommendation began.                                                   *)
QuietIsCurrent ==
    /\ quiet /\ phase # "idle" => last \in {"recommend", "validate"}
    /\ quiet /\ last \in {"recommend", "validate"} =>
         /\ plan.unresolved = {}
         /\ always = edges
         /\ \A c \in plan.refs : Registered(c)
         /\ \A c \in matched : status[c] = "active"
         /\ phase # "walk" => \A c \in plan.refs : Needs(edges[c]) \subseteq plan.refs
         /\ phase = "check" => plan.refs \ unchecked \subseteq present

(* The histories say what they are meant to.                               *)
WatchIsRight ==
    /\ \A c \in Capabilities : always[c] \subseteq edges[c] /\ edges[c] \subseteq ever[c]
    /\ ActiveNow \subseteq active

CompositionInv ==
    /\ TypeOK
    /\ WatchIsRight
    /\ WalkIsSound
    /\ PlanIsClosed
    /\ PlanHasNoStrangers
    /\ GovernanceCovers
    /\ CheckIsSound
    /\ ValidMeansSound
    /\ QuietIsCurrent
    /\ RecommendationValidates

-----------------------------------------------------------------------------
(* Needs, as the loops see it.                                             *)
LEMMA NeedsWithin ==
    ASSUME NEW D, NEW S
    PROVE  Needs(D) \subseteq S <=>
             \A dep \in D : dep.type \in ProvisionedTypes => dep.target \in S
BY DEF Needs

LEMMA InitTypeOK == Init => TypeOK
<1> SUFFICES ASSUME Init PROVE TypeOK
    OBVIOUS
<1>1. PICK registry \in Registries :
        status = registry.status /\ permits = registry.permits /\ edges = registry.edges
    BY DEF Init
<1>2. /\ status \in [Capabilities -> RegistryStatuses]
      /\ permits \in [Capabilities -> SUBSET Permissions]
      /\ edges \in [Capabilities -> SUBSET Dependency]
    BY <1>1, CompositionAssumption DEF Registry
<1>3. plan \in Plan
    BY DEF Init, NoPlan, Plan
<1>4. seen \in [Capabilities -> SUBSET Permissions]
    BY DEF Init, NothingRead
<1> QED
    BY <1>2, <1>3, <1>4 DEF Init, TypeOK, ActiveNow

(* Type correctness.                                                       *)
LEMMA ContinueTypeOK ==
    ASSUME TypeOK,
           NEW c \in Capabilities \cup {None}, NEW refs \in SUBSET Capabilities,
           NEW read \in [Capabilities -> SUBSET Permissions],
           NEW unresolved \in SUBSET Capabilities, NEW waiting \in SUBSET Capabilities,
           NEW deps \in SUBSET Dependency,
           Continue(c, refs, read, unresolved, waiting, deps)
    PROVE  /\ queue' \subseteq Capabilities
           /\ todo' \subseteq Dependency
           /\ current' \in Capabilities \cup {None}
           /\ seen' \in [Capabilities -> SUBSET Permissions]
           /\ phase' \in {"held", "walk"}
           /\ plan' \in Plan
<1>1. DeriveGovernance(refs, read) \subseteq Permissions
    BY DEF DeriveGovernance
<1>2. plan' \in Plan
    BY <1>1 DEF Continue, TypeOK, Plan
<1>3. seen' \in [Capabilities -> SUBSET Permissions]
    BY DEF Continue, NothingRead
<1> QED
    BY <1>2, <1>3 DEF Continue

LEMMA RecommendSelects ==
    ASSUME TypeOK, Recommend
    PROVE  \E roles \in SUBSET Roles : \E match \in [roles -> Capabilities \cup {None}] :
             /\ \A r \in roles : match[r] # None => match[r] \in ActiveNow
             /\ Selected(roles, match)
<1>1. PICK fired \in Goals, reply \in Replies, page \in Pages :
        \E match \in [DecomposeGoal(fired, reply) -> Capabilities \cup {None}] :
          /\ \A r \in DecomposeGoal(fired, reply) : match[r] \in Matches(r, page)
          /\ Selected(DecomposeGoal(fired, reply), match)
    BY DEF Recommend
<1>2. DecomposeGoal(fired, reply) \subseteq Roles
    BY CompositionAssumption, MatchingAssumption DEF DecomposeGoal, RolesOfRules
<1>3. page \subseteq ActiveNow
    BY DEF Pages
<1>4. \A r \in DecomposeGoal(fired, reply) : \A x \in Matches(r, page) :
         x # None => x \in ActiveNow
    BY <1>3 DEF Matches, BestMatches
<1> QED
    BY <1>1, <1>2, <1>4

LEMMA TypeOKStep == TypeOK /\ WalkIsSound /\ [Next]_vars => TypeOK'
<1> USE DEF vars, registryVars, walkVars, validationVars, watchVars, sessionVars
<1> SUFFICES ASSUME TypeOK, WalkIsSound, [Next]_vars PROVE TypeOK'
    OBVIOUS
<1>0. ActiveNow \subseteq Capabilities
    BY DEF ActiveNow
<1>1. CASE Recommend
  <2>0. PICK roles \in SUBSET Roles :
          \E match \in [roles -> Capabilities \cup {None}] : Selected(roles, match)
      BY <1>1, RecommendSelects
  <2>1. PICK match \in [roles -> Capabilities \cup {None}] : Selected(roles, match)
      BY <2>0
  <2> DEFINE served == {r \in roles : match[r] # None}
             chosen == {match[r] : r \in served}
  <2>2. chosen \subseteq Capabilities
      OBVIOUS
  <2>3. plan' \in Plan
      BY <2>1, <2>2 DEF Plan, Selected
  <2>4. seen' \in [Capabilities -> SUBSET Permissions]
      BY <2>1 DEF TypeOK, NothingRead, Selected
  <2>5. matched' \subseteq Capabilities /\ queue' \subseteq Capabilities /\ todo' = {}
      BY <2>1, <2>2 DEF Selected
  <2>6. phase' \in {"held", "walk"}
      BY <2>1 DEF Selected
  <2> QED
      BY <1>0, <1>1, <2>3, <2>4, <2>5, <2>6 DEF Recommend, Watch, TypeOK
<1>2. ASSUME NEW c \in Capabilities, ListDependencies(c) PROVE TypeOK'
  <2> DEFINE deps == {dep \in edges[c] :
                        ProvisionedAtComposition(dep) /\ dep.target \notin plan.refs}
  <2>1. deps \subseteq Dependency /\ plan.refs \subseteq Capabilities
        /\ plan.unresolved \subseteq Capabilities
      BY DEF TypeOK, Plan
  <2>2. Continue(c, plan.refs, seen, plan.unresolved, queue \ {c}, deps)
      BY <1>2 DEF ListDependencies
  <2> HIDE DEF deps
  <2>3. /\ queue' \subseteq Capabilities
        /\ todo' \subseteq Dependency
        /\ current' \in Capabilities \cup {None}
        /\ seen' \in [Capabilities -> SUBSET Permissions]
        /\ phase' \in {"held", "walk"}
        /\ plan' \in Plan
      BY <2>1, <2>2, ContinueTypeOK DEF TypeOK
  <2> QED
      BY <1>2, <2>3 DEF ListDependencies, TypeOK
<1>3. ASSUME NEW dep \in Dependency, AddDependency(dep) PROVE TypeOK'
  <2> DEFINE read == [seen EXCEPT ![dep.target] = permits[dep.target]]
             deps == {other \in todo : other.target # dep.target}
  <2>1. /\ deps \subseteq Dependency
        /\ plan.refs \cup {dep.target} \subseteq Capabilities
        /\ queue \cup {dep.target} \subseteq Capabilities
        /\ plan.unresolved \subseteq Capabilities
        /\ read \in [Capabilities -> SUBSET Permissions]
      BY DEF TypeOK, Plan, Dependency
  <2>2. Continue(current, plan.refs \cup {dep.target}, read, plan.unresolved,
                 queue \cup {dep.target}, deps)
      BY <1>3 DEF AddDependency
  <2> HIDE DEF read, deps
  <2>3. /\ queue' \subseteq Capabilities
        /\ todo' \subseteq Dependency
        /\ current' \in Capabilities \cup {None}
        /\ seen' \in [Capabilities -> SUBSET Permissions]
        /\ phase' \in {"held", "walk"}
        /\ plan' \in Plan
      BY <2>1, <2>2, ContinueTypeOK DEF TypeOK
  <2> QED
      BY <1>3, <2>3 DEF AddDependency, TypeOK
<1>4. ASSUME NEW dep \in Dependency, SkipDependency(dep) PROVE TypeOK'
  <2>1. current \in Capabilities
      BY <1>4 DEF SkipDependency, WalkIsSound, TypeOK, Plan
  <2>2. /\ todo \ {dep} \subseteq Dependency
        /\ plan.refs \subseteq Capabilities
        /\ plan.unresolved \cup {current} \subseteq Capabilities
      BY <2>1 DEF TypeOK, Plan
  <2>3. Continue(current, plan.refs, seen, plan.unresolved \cup {current}, queue, todo \ {dep})
      BY <1>4 DEF SkipDependency
  <2>4. /\ queue' \subseteq Capabilities
        /\ todo' \subseteq Dependency
        /\ current' \in Capabilities \cup {None}
        /\ seen' \in [Capabilities -> SUBSET Permissions]
        /\ phase' \in {"held", "walk"}
        /\ plan' \in Plan
      BY <2>1, <2>2, <2>3, ContinueTypeOK DEF TypeOK
  <2> QED
      BY <1>4, <2>4 DEF SkipDependency, TypeOK
<1>5. ASSUME NEW c \in Capabilities, RemoveRef(c) PROVE TypeOK'
    BY <1>5 DEF RemoveRef, TypeOK, Plan
<1>6. CASE Validate
  <2>1. PlanErrors \subseteq ErrorCodes /\ plan.refs \subseteq Capabilities
      BY DEF PlanErrors, ErrorCodes, TypeOK, Plan
  <2> QED
      BY <1>0, <1>6, <2>1 DEF Validate, Conclude, Watch, TypeOK
<1>7. ASSUME NEW c \in Capabilities, CheckRef(c) PROVE TypeOK'
  <2>1. RefErrors(c) \subseteq ErrorCodes
      BY DEF RefErrors, ErrorCodes
  <2> QED
      BY <1>7, <2>1 DEF CheckRef, Conclude, TypeOK
<1>8. ASSUME NEW c \in Capabilities, CheckDependencies(c) PROVE TypeOK'
    BY <1>8 DEF CheckDependencies, Conclude, TypeOK, ErrorCodes
<1>9. CASE Answer
    BY <1>9 DEF Answer, TypeOK
<1>10. NoPlan \in Plan /\ NothingRead \in [Capabilities -> SUBSET Permissions]
    BY DEF NoPlan, Plan, NothingRead
<1>11. NewDraft \in Draft
    BY DEF NewDraft, Draft, DraftStatusFor, TypeOK, Plan
<1>12. CASE CreateDraft
    BY <1>10, <1>11, <1>12 DEF CreateDraft, Forget, TypeOK
<1>13. CASE Fail
    BY <1>10, <1>11, <1>13 DEF Fail, Abort, Forget, TypeOK
<1>14. ASSUME NEW c \in Capabilities, Register(c) PROVE TypeOK'
    BY <1>14 DEF Register, Change, TypeOK, RegistryStatuses
<1>15. ASSUME NEW c \in Capabilities, NEW deps \in SUBSET Declared[c], Store(c, deps)
       PROVE  TypeOK'
  <2>1. deps \in SUBSET Dependency
      BY CompositionAssumption
  <2> QED
      BY <1>15, <2>1 DEF Store, Change, TypeOK
<1>16. ASSUME NEW c \in Capabilities, NEW newStatus \in {"active", "deprecated"},
              NEW terms \in Grants[c], Put(c, newStatus, terms)
       PROVE  TypeOK'
  <2>1. terms \in SUBSET Permissions
      BY CompositionAssumption
  <2> QED
      BY <1>16, <2>1 DEF Put, Change, TypeOK, RegistryStatuses
<1>17. CASE Restart
  <2>1. /\ queue' = {} /\ todo' = {} /\ current' = None
        /\ seen' \in [Capabilities -> SUBSET Permissions]
        /\ unchecked' = {} /\ unlisted' = {} /\ present' = {} /\ errors' = {}
        /\ phase' \in {"idle", "held"}
        /\ plan' \in Plan
        /\ matched' \subseteq Capabilities
      BY <1>10, <1>17 DEF Restart, Abort, Forget, TypeOK
  <2>2. /\ status' \in [Capabilities -> RegistryStatuses]
        /\ edges' \in [Capabilities -> SUBSET Dependency]
        /\ drafts' = {}
        /\ permits' = permits /\ touched' = touched
      BY <1>17 DEF Restart, TypeOK, RegistryStatuses
  <2>3. /\ always' \in [Capabilities -> SUBSET Dependency]
        /\ ever' \in [Capabilities -> SUBSET Dependency]
        /\ active' \subseteq Capabilities
        /\ offered' \subseteq Capabilities
        /\ changes' \in Nat /\ failures' \in Nat
      BY <1>17, <2>2 DEF Restart, Change, TypeOK
  <2> QED
      BY <2>1, <2>2, <2>3 DEF TypeOK
<1>18. CASE UNCHANGED vars
    BY <1>18 DEF TypeOK
<1> QED
    BY <1>1, <1>2, <1>3, <1>4, <1>5, <1>6, <1>7, <1>8, <1>9, <1>12, <1>13, <1>14, <1>15,
       <1>16, <1>17, <1>18 DEF Next, Proceed, RegistryMovesOn

(* The histories are right after a change of the registry, and of nothing  *)
(* else.                                                                   *)
LEMMA WatchStep == TypeOK /\ TypeOK' /\ WatchIsRight /\ [Next]_vars => WatchIsRight'
<1> USE DEF vars, registryVars, walkVars, validationVars, watchVars, sessionVars
<1> SUFFICES ASSUME TypeOK, TypeOK', WatchIsRight, [Next]_vars PROVE WatchIsRight'
    OBVIOUS
<1>1. CASE UNCHANGED <<status, edges, always, ever, active>>
    BY <1>1 DEF WatchIsRight, ActiveNow
<1>2. ASSUME Watch, UNCHANGED <<status, edges>> PROVE WatchIsRight'
    BY <1>2 DEF Watch, WatchIsRight, ActiveNow
<1>3. ASSUME Change PROVE WatchIsRight'
    BY <1>3 DEF Change, WatchIsRight, ActiveNow, TypeOK
<1>4. CASE Recommend \/ Validate
    BY <1>2, <1>4 DEF Recommend, Validate
<1>5. CASE RegistryMovesOn
    BY <1>3, <1>5 DEF RegistryMovesOn, Register, Store, Put, Restart
<1>6. CASE Proceed
    BY <1>1, <1>6 DEF Proceed, ListDependencies, AddDependency, SkipDependency, CheckRef,
                      CheckDependencies, Answer, CreateDraft
<1>7. CASE (\E c \in Capabilities : RemoveRef(c)) \/ Fail
    BY <1>1, <1>7 DEF RemoveRef, Fail
<1> QED
    BY <1>1, <1>4, <1>5, <1>6, <1>7 DEF Next

-----------------------------------------------------------------------------
(* The walk.  What has to hold of the arguments of Continue.               *)
WalkBody(cur, refs, read, unresolved, waiting, deps) ==
    /\ matched \subseteq refs
    /\ waiting \subseteq refs
    /\ deps # {} => cur \in refs
    /\ \A dep \in deps : dep.type \in ProvisionedTypes /\ dep \in ever[cur]
    /\ \A c \in refs \ (waiting \cup unresolved) : \A dep \in always[c] :
         dep.type \in ProvisionedTypes => dep.target \in refs \/ (c = cur /\ dep \in deps)
    /\ \A S \in SUBSET Capabilities : Within(S) => refs \subseteq S
    /\ \A c \in refs \ touched : permits[c] \subseteq read[c]

WalkInv == WalkIsSound /\ PlanIsClosed /\ PlanHasNoStrangers /\ GovernanceCovers

LEMMA ContinueIsSound ==
    ASSUME TypeOK, last = "recommend",
           NEW cur, NEW refs, NEW read, NEW unresolved, NEW waiting, NEW deps,
           WalkBody(cur, refs, read, unresolved, waiting, deps),
           Continue(cur, refs, read, unresolved, waiting, deps),
           UNCHANGED <<permits, matched, always, ever, touched, last>>
    PROVE  WalkInv'
<1>1. plan'.refs = refs /\ plan'.unresolved = unresolved
    BY DEF Continue, TypeOK, Plan
<1>2. CASE waiting = {} /\ deps = {}
  <2>1. /\ phase' = "held"
        /\ plan'.governance = UNION {read[c] : c \in refs}
      BY <1>2 DEF Continue, TypeOK, Plan, DeriveGovernance
  <2>2. \A c \in refs \ unresolved : Needs(always[c]) \subseteq refs
      BY <1>2, NeedsWithin DEF WalkBody
  <2>3. \A S \in SUBSET Capabilities :
          matched \subseteq S /\ (\A c \in S : Needs(ever[c]) \subseteq S) => refs \subseteq S
      BY DEF WalkBody, Within
  <2>4. \A c \in refs \ touched : permits[c] \subseteq plan'.governance
      BY <2>1 DEF WalkBody
  <2> QED
      BY <1>1, <2>1, <2>2, <2>3, <2>4
         DEF WalkInv, WalkIsSound, PlanIsClosed, PlanHasNoStrangers, GovernanceCovers,
             Recommended
<1>3. CASE ~(waiting = {} /\ deps = {})
  <2>1. /\ phase' = "walk" /\ current' = cur /\ seen' = read
        /\ queue' = waiting /\ todo' = deps
      BY <1>3 DEF Continue
  <2>2. \A c \in refs \ (waiting \cup unresolved) : Settled(c)'
      BY <1>1, <2>1 DEF WalkBody, Settled
  <2>3. \A S \in SUBSET Capabilities : Within(S)' => refs \subseteq S
      BY DEF WalkBody, Within, Needs
  <2>4. WalkIsSound'
      BY <1>1, <2>1, <2>2, <2>3 DEF WalkIsSound, WalkBody
  <2> QED
      BY <2>1, <2>4 DEF WalkInv, PlanIsClosed, PlanHasNoStrangers, GovernanceCovers, Recommended
<1> QED
    BY <1>2, <1>3

(* What others do to the registry takes from what was always there, adds   *)
(* to what was ever there, and changes a governance only by touching it.   *)
LEMMA ChangeKeepsWalk ==
    ASSUME TypeOK, TypeOK', WalkInv, Change,
           UNCHANGED <<phase, plan, matched, last>>,
           phase = "walk" => UNCHANGED walkVars,
           \A c \in Capabilities \ touched' : permits'[c] = permits[c],
           touched \subseteq touched'
    PROVE  WalkInv'
<1> USE DEF walkVars
<1>1. \A c \in Capabilities : always'[c] \subseteq always[c] /\ ever[c] \subseteq ever'[c]
    BY DEF Change
<1>2. plan.refs \subseteq Capabilities
    BY DEF TypeOK, Plan
<1>3. \A S \in SUBSET Capabilities : Within(S)' => Within(S)
    BY <1>1 DEF Within, Needs
<1>4. \A c \in Capabilities : Needs(always'[c]) \subseteq Needs(always[c])
    BY <1>1 DEF Needs
<1>5. PlanIsClosed'
    BY <1>2, <1>4 DEF WalkInv, PlanIsClosed, Recommended
<1>6. PlanHasNoStrangers'
    BY <1>3 DEF WalkInv, PlanHasNoStrangers, Recommended, Within
<1>7. GovernanceCovers'
    BY <1>2 DEF WalkInv, GovernanceCovers
<1>8. ASSUME phase = "walk" PROVE WalkIsSound'
  <2>1. \A c \in plan.refs \ (queue \cup plan.unresolved) : Settled(c)'
      BY <1>1, <1>2, <1>8 DEF WalkInv, WalkIsSound, Settled
  <2>2. \A S \in SUBSET Capabilities : Within(S)' => plan.refs \subseteq S
      BY <1>3, <1>8 DEF WalkInv, WalkIsSound
  <2>3. \A dep \in todo : dep.type \in ProvisionedTypes /\ dep \in ever'[current]
      BY <1>1, <1>2, <1>8 DEF WalkInv, WalkIsSound
  <2>4. \A c \in plan.refs \ touched' : permits'[c] \subseteq seen[c]
      BY <1>2, <1>8 DEF WalkInv, WalkIsSound
  <2> QED
      BY <1>8, <2>1, <2>2, <2>3, <2>4 DEF WalkInv, WalkIsSound
<1>9. phase # "walk" => WalkIsSound'
    BY DEF WalkIsSound
<1> QED
    BY <1>5, <1>6, <1>7, <1>8, <1>9 DEF WalkInv

LEMMA WalkStep ==
    TypeOK /\ TypeOK' /\ WatchIsRight /\ WalkInv /\ CheckIsSound /\ [Next]_vars => WalkInv'
<1> USE DEF vars, registryVars, walkVars, validationVars, watchVars, sessionVars
<1> SUFFICES ASSUME TypeOK, TypeOK', WatchIsRight, WalkInv, CheckIsSound, [Next]_vars
             PROVE  WalkInv'
    OBVIOUS
<1>0. plan.refs \subseteq Capabilities /\ plan.unresolved \subseteq Capabilities
    BY DEF TypeOK, Plan
<1>1. CASE Recommend
  <2>0. PICK roles \in SUBSET Roles :
          \E match \in [roles -> Capabilities \cup {None}] : Selected(roles, match)
      BY <1>1, RecommendSelects
  <2>1. PICK match \in [roles -> Capabilities \cup {None}] : Selected(roles, match)
      BY <2>0
  <2> DEFINE served == {r \in roles : match[r] # None}
             chosen == {match[r] : r \in served}
  <2>2. chosen \subseteq Capabilities
      OBVIOUS
  <2>3. /\ matched' = chosen /\ queue' = chosen /\ todo' = {}
        /\ plan'.refs = chosen /\ plan'.unresolved = {}
        /\ phase' = IF chosen = {} THEN "held" ELSE "walk"
        /\ chosen # {} => seen' = [c \in Capabilities |-> IF c \in chosen THEN permits[c] ELSE {}]
      BY <2>1 DEF Selected
  <2>4. last' = "recommend" /\ permits' = permits /\ touched' = {}
      BY <1>1 DEF Recommend
  <2> HIDE DEF served, chosen
  <2>5. PlanIsClosed' /\ PlanHasNoStrangers' /\ GovernanceCovers'
      BY <2>3 DEF PlanIsClosed, PlanHasNoStrangers, GovernanceCovers, Recommended
  <2>6. WalkIsSound'
      BY <2>2, <2>3, <2>4 DEF WalkIsSound, Settled, Within
  <2> QED
      BY <2>5, <2>6 DEF WalkInv
<1>2. ASSUME NEW c \in Capabilities, ListDependencies(c) PROVE WalkInv'
  <2> DEFINE deps == {dep \in edges[c] :
                        ProvisionedAtComposition(dep) /\ dep.target \notin plan.refs}
  <2>1. phase = "walk" /\ todo = {} /\ c \in queue /\ last = "recommend"
      BY <1>2 DEF ListDependencies, WalkInv, WalkIsSound
  <2>2. /\ \A dep \in deps : dep.type \in ProvisionedTypes /\ dep \in ever[c]
        /\ \A dep \in always[c] :
             dep.type \in ProvisionedTypes => dep.target \in plan.refs \/ dep \in deps
      BY DEF WatchIsRight, ProvisionedAtComposition
  <2>3. Continue(c, plan.refs, seen, plan.unresolved, queue \ {c}, deps)
      BY <1>2 DEF ListDependencies
  <2>4. UNCHANGED <<permits, matched, always, ever, touched, last>>
      BY <1>2 DEF ListDependencies
  <2> HIDE DEF deps
  <2>5. WalkBody(c, plan.refs, seen, plan.unresolved, queue \ {c}, deps)
    <3>1. \A x \in plan.refs \ ((queue \ {c}) \cup plan.unresolved) : \A dep \in always[x] :
            dep.type \in ProvisionedTypes => dep.target \in plan.refs \/ (x = c /\ dep \in deps)
        BY <2>1, <2>2 DEF WalkInv, WalkIsSound, Settled
    <3> QED
        BY <2>1, <2>2, <3>1 DEF WalkBody, WalkInv, WalkIsSound
  <2> QED
      BY <2>1, <2>3, <2>4, <2>5, ContinueIsSound
<1>3. ASSUME NEW dep \in Dependency, AddDependency(dep) PROVE WalkInv'
  <2> DEFINE refs == plan.refs \cup {dep.target}
             read == [seen EXCEPT ![dep.target] = permits[dep.target]]
             deps == {other \in todo : other.target # dep.target}
  <2>1. /\ phase = "walk" /\ dep \in todo /\ last = "recommend"
        /\ dep.type \in ProvisionedTypes /\ dep \in ever[current] /\ current \in plan.refs
        /\ dep.target \in Capabilities
      BY <1>3 DEF AddDependency, WalkInv, WalkIsSound, Dependency
  <2>2. Continue(current, refs, read, plan.unresolved, queue \cup {dep.target}, deps)
      BY <1>3 DEF AddDependency
  <2>3. UNCHANGED <<permits, matched, always, ever, touched, last>>
      BY <1>3 DEF AddDependency
  <2>4. \A c \in refs \ touched : permits[c] \subseteq read[c]
      BY <1>0, <2>1 DEF WalkInv, WalkIsSound, TypeOK
  <2>5. \A S \in SUBSET Capabilities : Within(S) => refs \subseteq S
    <3> TAKE S \in SUBSET Capabilities
    <3> HAVE Within(S)
    <3>1. plan.refs \subseteq S
        BY <2>1 DEF WalkInv, WalkIsSound
    <3>2. Needs(ever[current]) \subseteq S
        BY <2>1, <3>1 DEF Within
    <3>3. dep.target \in S
        BY <2>1, <3>2 DEF Needs
    <3> QED
        BY <3>1, <3>3
  <2>6. \A c \in refs \ ((queue \cup {dep.target}) \cup plan.unresolved) :
          \A other \in always[c] :
            other.type \in ProvisionedTypes =>
              other.target \in refs \/ (c = current /\ other \in deps)
      BY <2>1 DEF WalkInv, WalkIsSound, Settled
  <2>7. \A other \in deps : other.type \in ProvisionedTypes /\ other \in ever[current]
      BY <2>1 DEF WalkInv, WalkIsSound
  <2>8. matched \subseteq refs /\ queue \cup {dep.target} \subseteq refs /\ current \in refs
      BY <2>1 DEF WalkInv, WalkIsSound
  <2> HIDE DEF refs, read, deps
  <2>9. WalkBody(current, refs, read, plan.unresolved, queue \cup {dep.target}, deps)
      BY <2>4, <2>5, <2>6, <2>7, <2>8 DEF WalkBody
  <2> QED
      BY <2>1, <2>2, <2>3, <2>9, ContinueIsSound
<1>4. ASSUME NEW dep \in Dependency, SkipDependency(dep) PROVE WalkInv'
  <2>1. phase = "walk" /\ dep \in todo /\ last = "recommend" /\ current \in plan.refs
      BY <1>4 DEF SkipDependency, WalkInv, WalkIsSound
  <2>2. Continue(current, plan.refs, seen, plan.unresolved \cup {current}, queue, todo \ {dep})
      BY <1>4 DEF SkipDependency
  <2>3. UNCHANGED <<permits, matched, always, ever, touched, last>>
      BY <1>4 DEF SkipDependency
  <2>4. WalkBody(current, plan.refs, seen, plan.unresolved \cup {current}, queue, todo \ {dep})
    <3>1. \A c \in plan.refs \ (queue \cup (plan.unresolved \cup {current})) :
            \A other \in always[c] :
              other.type \in ProvisionedTypes =>
                other.target \in plan.refs \/ (c = current /\ other \in todo \ {dep})
        BY <2>1 DEF WalkInv, WalkIsSound, Settled
    <3> QED
        BY <2>1, <3>1 DEF WalkBody, WalkInv, WalkIsSound
  <2> QED
      BY <2>1, <2>2, <2>3, <2>4, ContinueIsSound
<1>5. ASSUME NEW c \in Capabilities, RemoveRef(c) PROVE WalkInv'
  <2>1. phase = "held" /\ phase' = "held" /\ last' = "edit"
        /\ permits' = permits /\ touched' = touched
        /\ plan'.refs \subseteq plan.refs /\ plan'.governance = plan.governance
      BY <1>5 DEF RemoveRef, TypeOK, Plan
  <2> QED
      BY <2>1 DEF WalkInv, WalkIsSound, PlanIsClosed, PlanHasNoStrangers, GovernanceCovers,
                  Recommended
<1>6. ASSUME last' = "validate", phase \in {"held", "check", "valid"},
             phase' \in {"held", "check", "valid"}, UNCHANGED <<permits, touched, plan>>
      PROVE  WalkInv'
    BY <1>6 DEF WalkInv, WalkIsSound, PlanIsClosed, PlanHasNoStrangers, GovernanceCovers,
                Recommended
<1>7. CASE Validate
    BY <1>6, <1>7 DEF Validate, Conclude
<1>8. ASSUME NEW c \in Capabilities, CheckRef(c) \/ CheckDependencies(c) PROVE WalkInv'
  <2>1. phase = "check" /\ last' = "validate" /\ phase' \in {"held", "check", "valid"}
        /\ UNCHANGED <<permits, touched, plan>>
      BY <1>8 DEF CheckRef, CheckDependencies, Conclude, CheckIsSound
  <2> QED
      BY <1>6, <2>1
<1>9. CASE Answer
    BY <1>6, <1>9 DEF Answer, CheckIsSound
<1>10. ASSUME phase' = "idle" PROVE WalkInv'
    BY <1>10 DEF WalkInv, WalkIsSound, PlanIsClosed, PlanHasNoStrangers, GovernanceCovers,
                 Recommended
<1>11. CASE CreateDraft
    BY <1>10, <1>11 DEF CreateDraft
<1>12. CASE Fail
  <2>1. CASE phase = "walk"
      BY <1>10, <1>12, <2>1 DEF Fail, Abort
  <2>2. CASE phase \in {"check", "valid"}
    <3>1. last' = "validate" /\ phase' = "held" /\ UNCHANGED <<permits, touched, plan>>
        BY <1>12, <2>2 DEF Fail, Abort, CheckIsSound
    <3> QED
        BY <1>6, <2>2, <3>1
  <2> QED
      BY <1>12, <2>1, <2>2 DEF Fail
<1>13. ASSUME NEW c \in Capabilities, Register(c) PROVE WalkInv'
    BY <1>13, ChangeKeepsWalk DEF Register
<1>14. ASSUME NEW c \in Capabilities, NEW deps, Store(c, deps) PROVE WalkInv'
    BY <1>14, ChangeKeepsWalk DEF Store
<1>15. ASSUME NEW c \in Capabilities, NEW newStatus, NEW terms, Put(c, newStatus, terms)
       PROVE  WalkInv'
  <2>1. \A d \in Capabilities \ touched' : permits'[d] = permits[d]
      BY <1>15 DEF Put, TypeOK
  <2> QED
      BY <1>15, <2>1, ChangeKeepsWalk DEF Put
<1>16. CASE Restart
  <2>1. CASE phase \in {"idle", "walk"}
      BY <1>10, <1>16, <2>1 DEF Restart, Abort
  <2>2. CASE phase = "held"
    <3>1. UNCHANGED <<phase, plan, matched, last, permits, touched>> /\ Change
        BY <1>16, <2>2 DEF Restart, Abort
    <3> QED
        BY <2>2, <3>1, ChangeKeepsWalk
  <2>3. CASE phase \in {"check", "valid"}
    <3>1. last' = "validate" /\ phase' = "held" /\ UNCHANGED <<permits, touched, plan>>
        BY <1>16, <2>3 DEF Restart, Abort, CheckIsSound
    <3> QED
        BY <1>6, <2>3, <3>1
  <2> QED
      BY <2>1, <2>2, <2>3 DEF TypeOK
<1>17. CASE UNCHANGED vars
    BY <1>17 DEF WalkInv, WalkIsSound, PlanIsClosed, PlanHasNoStrangers, GovernanceCovers,
                 Recommended, Settled, Within
<1> QED
    BY <1>1, <1>2, <1>3, <1>4, <1>5, <1>7, <1>8, <1>9, <1>11, <1>12, <1>13, <1>14, <1>15,
       <1>16, <1>17 DEF Next, Proceed, RegistryMovesOn

-----------------------------------------------------------------------------
(* The validation.  What has to hold of the arguments of Conclude.         *)
CheckBody(lookups, found, listings, findings) ==
    /\ PlanErrors \subseteq findings
    /\ lookups \subseteq plan.refs
    /\ listings \subseteq found
    /\ found \subseteq plan.refs
    /\ lookups # {} => listings = found
    /\ findings = {} =>
         /\ plan.refs \ lookups \subseteq found \cap active'
         /\ \A c \in found \ listings : Needs(always'[c]) \subseteq found

LEMMA ConcludeIsSound ==
    ASSUME TypeOK, last' = "validate", plan' = plan,
           NEW lookups, NEW found, NEW listings, NEW findings,
           CheckBody(lookups, found, listings, findings),
           Conclude(lookups, found, listings, findings)
    PROVE  CheckIsSound' /\ ValidMeansSound'
<1>1. PlanErrors' = PlanErrors
    BY DEF PlanErrors
<1>2. CASE lookups # {} \/ listings # {}
  <2>1. /\ phase' = "check" /\ unchecked' = lookups /\ present' = found
        /\ unlisted' = listings /\ errors' = findings
      BY <1>2 DEF Conclude
  <2> QED
      BY <1>1, <2>1 DEF CheckIsSound, ValidMeansSound, CheckBody
<1>3. CASE lookups = {} /\ listings = {} /\ findings = {}
  <2>1. phase' = "valid"
      BY <1>3 DEF Conclude
  <2>2. found = plan.refs /\ plan.refs \subseteq active'
      BY <1>3 DEF CheckBody
  <2>3. \A c \in plan.refs : Needs(always'[c]) \subseteq plan.refs
      BY <1>3, <2>2 DEF CheckBody
  <2>4. plan.refs \cap Executable # {} /\ plan.steps # {}
      BY <1>3 DEF CheckBody, PlanErrors
  <2> QED
      BY <2>1, <2>2, <2>3, <2>4 DEF CheckIsSound, ValidMeansSound
<1>4. CASE lookups = {} /\ listings = {} /\ findings # {}
  <2>1. phase' = "held"
      BY <1>4 DEF Conclude
  <2> QED
      BY <2>1 DEF CheckIsSound, ValidMeansSound
<1> QED
    BY <1>2, <1>3, <1>4

LEMMA CheckStep ==
    TypeOK /\ WatchIsRight /\ CheckIsSound /\ ValidMeansSound /\ [Next]_vars
    => CheckIsSound' /\ ValidMeansSound'
<1> USE DEF vars, registryVars, walkVars, validationVars, watchVars, sessionVars
<1> SUFFICES ASSUME TypeOK, WatchIsRight, CheckIsSound, ValidMeansSound, [Next]_vars
             PROVE  CheckIsSound' /\ ValidMeansSound'
    OBVIOUS
<1>0. plan.refs \subseteq Capabilities
    BY DEF TypeOK, Plan
<1>1. ASSUME phase' \notin {"check", "valid"} PROVE CheckIsSound' /\ ValidMeansSound'
    BY <1>1 DEF CheckIsSound, ValidMeansSound
<1>2. CASE Recommend \/ Fail \/ Restart \/ CreateDraft \/ Answer
    BY <1>1, <1>2 DEF Recommend, Selected, Fail, Restart, Abort, CreateDraft, Answer
<1>3. ASSUME NEW c, RemoveRef(c) \/ ListDependencies(c) PROVE CheckIsSound' /\ ValidMeansSound'
    BY <1>1, <1>3 DEF RemoveRef, ListDependencies, Continue
<1>4. ASSUME NEW dep, AddDependency(dep) \/ SkipDependency(dep)
      PROVE  CheckIsSound' /\ ValidMeansSound'
    BY <1>1, <1>4 DEF AddDependency, SkipDependency, Continue
<1>5. CASE Validate
  <2>1. last' = "validate" /\ plan' = plan /\ Conclude(plan.refs, {}, {}, PlanErrors)
      BY <1>5 DEF Validate
  <2>2. CheckBody(plan.refs, {}, {}, PlanErrors)
      BY DEF CheckBody
  <2> QED
      BY <2>1, <2>2, ConcludeIsSound
<1>6. ASSUME NEW c \in Capabilities, CheckRef(c) PROVE CheckIsSound' /\ ValidMeansSound'
  <2> DEFINE found == IF Registered(c) THEN {c} ELSE {}
  <2>1. /\ last' = "validate" /\ plan' = plan /\ phase = "check" /\ c \in unchecked
        /\ always' = always /\ active' = active
        /\ Conclude(unchecked \ {c}, present \cup found, unlisted \cup found,
                    errors \cup RefErrors(c))
      BY <1>6 DEF CheckRef, CheckIsSound
  <2>2. unlisted = present /\ c \in plan.refs
      BY <2>1 DEF CheckIsSound
  <2>3. RefErrors(c) = {} => found = {c} /\ c \in active
      BY DEF RefErrors, WatchIsRight, ActiveNow
  <2>4. found \subseteq {c}
      OBVIOUS
  <2> HIDE DEF found
  <2>5. CheckBody(unchecked \ {c}, present \cup found, unlisted \cup found,
                  errors \cup RefErrors(c))
      BY <2>1, <2>2, <2>3, <2>4 DEF CheckBody, CheckIsSound
  <2> QED
      BY <2>1, <2>5, ConcludeIsSound
<1>7. ASSUME NEW c \in Capabilities, CheckDependencies(c)
      PROVE  CheckIsSound' /\ ValidMeansSound'
  <2> DEFINE finding == IF ClosedNow(c) THEN {} ELSE {"dependency_not_composed"}
  <2>1. /\ last' = "validate" /\ plan' = plan /\ phase = "check"
        /\ unchecked = {} /\ c \in unlisted
        /\ always' = always /\ active' = active
        /\ Conclude({}, present, unlisted \ {c}, errors \cup finding)
      BY <1>7 DEF CheckDependencies, CheckIsSound
  <2>2. finding = {} => Needs(always[c]) \subseteq present
      BY DEF ClosedNow, WatchIsRight, ProvisionedAtComposition, Needs
  <2> HIDE DEF finding
  <2>3. CheckBody({}, present, unlisted \ {c}, errors \cup finding)
      BY <2>1, <2>2 DEF CheckBody, CheckIsSound
  <2> QED
      BY <2>1, <2>3, ConcludeIsSound
<1>8. ASSUME Change, UNCHANGED <<phase, plan, validationVars, last>>
      PROVE  CheckIsSound' /\ ValidMeansSound'
  <2>1. active \subseteq active' /\ \A c \in Capabilities : always'[c] \subseteq always[c]
      BY <1>8 DEF Change
  <2>2. \A c \in Capabilities : Needs(always'[c]) \subseteq Needs(always[c])
      BY <2>1 DEF Needs
  <2>3. PlanErrors' = PlanErrors
      BY <1>8 DEF PlanErrors
  <2>4. ValidMeansSound'
      BY <1>0, <1>8, <2>1, <2>2 DEF ValidMeansSound
  <2>5. CheckIsSound'
      BY <1>0, <1>8, <2>1, <2>2, <2>3 DEF CheckIsSound
  <2> QED
      BY <2>4, <2>5
<1>9. CASE RegistryMovesOn /\ ~Restart
    BY <1>8, <1>9 DEF RegistryMovesOn, Register, Store, Put
<1>10. CASE UNCHANGED vars
    BY <1>10 DEF CheckIsSound, ValidMeansSound, PlanErrors
<1> QED
    BY <1>2, <1>3, <1>4, <1>5, <1>6, <1>7, <1>9, <1>10 DEF Next, Proceed, RegistryMovesOn

-----------------------------------------------------------------------------
(* Undisturbed, what is recommended is what the registry holds, and the    *)
(* validation finds nothing that the recommendation could have avoided.    *)
LEMMA QuietStep ==
    ASSUME TypeOK, TypeOK', WalkInv, WalkInv', CheckIsSound, QuietIsCurrent,
           RecommendationValidates, [Next]_vars
    PROVE  QuietIsCurrent' /\ RecommendationValidates'
<1> USE DEF vars, registryVars, walkVars, validationVars, watchVars, sessionVars
<1>1. ASSUME quiet' = FALSE PROVE QuietIsCurrent' /\ RecommendationValidates'
    BY <1>1 DEF QuietIsCurrent, RecommendationValidates
<1>2. CASE Recommend
  <2>0. PICK roles \in SUBSET Roles : \E match \in [roles -> Capabilities \cup {None}] :
          /\ \A r \in roles : match[r] # None => match[r] \in ActiveNow
          /\ Selected(roles, match)
      BY <1>2, RecommendSelects
  <2>1. PICK match \in [roles -> Capabilities \cup {None}] :
          /\ \A r \in roles : match[r] # None => match[r] \in ActiveNow
          /\ Selected(roles, match)
      BY <2>0
  <2> DEFINE chosen == {match[r] : r \in {r \in roles : match[r] # None}}
  <2>3. chosen \subseteq ActiveNow
      BY <2>1
  <2>4. /\ matched' = chosen /\ plan'.refs = chosen /\ plan'.unresolved = {}
        /\ phase' = IF chosen = {} THEN "held" ELSE "walk"
      BY <2>1 DEF Selected
  <2>5. last' = "recommend" /\ status' = status /\ edges' = edges /\ always' = edges
      BY <1>2 DEF Recommend, Watch
  <2> HIDE DEF chosen
  <2> QED
      BY <2>3, <2>4, <2>5
         DEF QuietIsCurrent, RecommendationValidates, ActiveNow, Registered
<1>3. ASSUME phase = "walk", last = "recommend",
             plan'.unresolved = plan.unresolved,
             \A c \in plan'.refs \ plan.refs : Registered(c),
             phase' \in {"walk", "held"},
             UNCHANGED <<status, edges, always, matched, last, quiet>>
      PROVE  QuietIsCurrent' /\ RecommendationValidates'
  <2>1. PlanIsClosed'
      BY DEF WalkInv
  <2> QED
      BY <1>3, <2>1
         DEF QuietIsCurrent, RecommendationValidates, Registered, PlanIsClosed, Recommended
<1>4. ASSUME NEW c, ListDependencies(c) PROVE QuietIsCurrent' /\ RecommendationValidates'
    BY <1>3, <1>4 DEF ListDependencies, Continue, WalkInv, WalkIsSound, TypeOK, Plan
<1>5. ASSUME NEW dep, AddDependency(dep) PROVE QuietIsCurrent' /\ RecommendationValidates'
    BY <1>3, <1>5 DEF AddDependency, Continue, WalkInv, WalkIsSound, TypeOK, Plan
<1>6. CASE Validate
  <2>1. /\ phase = "held" /\ last' = "validate" /\ plan' = plan /\ matched' = matched
        /\ status' = status /\ edges' = edges /\ always' = edges /\ quiet' = quiet
        /\ unchecked' = plan.refs /\ errors' = PlanErrors
        /\ phase' \in {"held", "check", "valid"}
      BY <1>6 DEF Validate, Conclude, Watch
  <2>2. PlanErrors \cap {"capability_missing", "dependency_not_composed",
                         "capability_deprecated"} = {}
      BY DEF PlanErrors
  <2> QED
      BY <2>1, <2>2 DEF QuietIsCurrent, RecommendationValidates, Registered
<1>7. ASSUME NEW c \in Capabilities, CheckRef(c)
      PROVE  QuietIsCurrent' /\ RecommendationValidates'
  <2>1. /\ phase = "check" /\ last = "validate" /\ c \in unchecked /\ c \in plan.refs
        /\ UNCHANGED <<status, edges, always, matched, last, quiet, plan>>
        /\ phase' \in {"held", "check", "valid"}
      BY <1>7 DEF CheckRef, Conclude, CheckIsSound
  <2>2. /\ unchecked' = unchecked \ {c}
        /\ errors' = errors \cup RefErrors(c)
        /\ phase' = "check" => present' = present \cup (IF Registered(c) THEN {c} ELSE {})
      BY <1>7 DEF CheckRef, Conclude
  <2>3. QuietIsCurrent'
      BY <2>1, <2>2 DEF QuietIsCurrent, Registered
  <2>4. ASSUME quiet PROVE RecommendationValidates'
    <3>1. Registered(c) /\ (status[c] # "active" => c \notin matched)
        BY <2>1, <2>4 DEF QuietIsCurrent
    <3>2. \/ RefErrors(c) = {}
          \/ RefErrors(c) = {"capability_deprecated"} /\ status[c] = "deprecated"
             /\ c \in plan.refs \ matched
        BY <2>1, <3>1 DEF RefErrors, Registered
    <3> QED
        BY <2>1, <2>2, <2>4, <3>2 DEF RecommendationValidates
  <2> QED
      BY <2>1, <2>3, <2>4 DEF RecommendationValidates
<1>8. ASSUME NEW c \in Capabilities, CheckDependencies(c)
      PROVE  QuietIsCurrent' /\ RecommendationValidates'
  <2>1. /\ phase = "check" /\ last = "validate" /\ unchecked = {} /\ c \in plan.refs
        /\ UNCHANGED <<status, edges, always, matched, last, quiet, plan>>
        /\ phase' \in {"held", "check", "valid"}
      BY <1>8 DEF CheckDependencies, Conclude, CheckIsSound
  <2>2. /\ unchecked' = {}
        /\ errors' = errors \cup (IF ClosedNow(c) THEN {} ELSE {"dependency_not_composed"})
        /\ phase' = "check" => present' = present
      BY <1>8 DEF CheckDependencies, Conclude
  <2>3. QuietIsCurrent'
      BY <2>1, <2>2 DEF QuietIsCurrent, Registered
  <2>4. ASSUME quiet PROVE RecommendationValidates'
    <3>1. Needs(edges[c]) \subseteq plan.refs /\ plan.refs \subseteq present
        BY <2>1, <2>4 DEF QuietIsCurrent
    <3>2. ClosedNow(c)
        BY <3>1, NeedsWithin DEF ClosedNow, ProvisionedAtComposition
    <3> QED
        BY <2>1, <2>2, <2>4, <3>2 DEF RecommendationValidates
  <2> QED
      BY <2>1, <2>3, <2>4 DEF RecommendationValidates
<1>9. CASE Answer
    BY <1>9 DEF Answer, QuietIsCurrent, RecommendationValidates, Registered
<1>10. CASE CreateDraft
    BY <1>10 DEF CreateDraft, Forget, QuietIsCurrent, RecommendationValidates
<1>11. CASE (\E c \in Capabilities : RemoveRef(c)) \/ Fail \/ RegistryMovesOn
    BY <1>1, <1>11 DEF RemoveRef, Fail, RegistryMovesOn, Register, Store, Put, Restart, Change
<1>12. ASSUME NEW dep, SkipDependency(dep) PROVE QuietIsCurrent' /\ RecommendationValidates'
    BY <1>1, <1>12 DEF SkipDependency
<1>13. CASE UNCHANGED vars
    BY <1>13 DEF QuietIsCurrent, RecommendationValidates, Registered
<1> QED
    BY <1>2, <1>4, <1>5, <1>6, <1>7, <1>8, <1>9, <1>10, <1>11, <1>12, <1>13 DEF Next, Proceed

-----------------------------------------------------------------------------
LEMMA InitInv == Init => CompositionInv
<1> SUFFICES ASSUME Init PROVE CompositionInv
    OBVIOUS
<1>1. TypeOK
    BY InitTypeOK
<1>2. WatchIsRight
    BY DEF Init, WatchIsRight
<1> QED
    BY <1>1, <1>2
       DEF Init, CompositionInv, WalkIsSound, PlanIsClosed, PlanHasNoStrangers, Recommended,
           GovernanceCovers, CheckIsSound, ValidMeansSound, QuietIsCurrent,
           RecommendationValidates

LEMMA CompositionStep == CompositionInv /\ [Next]_vars => CompositionInv'
<1> SUFFICES ASSUME CompositionInv, [Next]_vars PROVE CompositionInv'
    OBVIOUS
<1>1. TypeOK'
    BY TypeOKStep DEF CompositionInv
<1>2. WatchIsRight'
    BY <1>1, WatchStep DEF CompositionInv
<1>3. WalkInv'
    BY <1>1, WalkStep DEF CompositionInv, WalkInv
<1>4. CheckIsSound' /\ ValidMeansSound'
    BY CheckStep DEF CompositionInv
<1>5. QuietIsCurrent' /\ RecommendationValidates'
    BY <1>1, <1>3, QuietStep DEF CompositionInv, WalkInv
<1> QED
    BY <1>1, <1>2, <1>3, <1>4, <1>5 DEF CompositionInv, WalkInv

(* The invariant from which all of the following is read off: what the     *)
(* loops of the closure and of the validation know between two calls.      *)
THEOREM CompositionInvariant == Spec => []CompositionInv
<1>1. Init => CompositionInv
    BY InitInv
<1>2. CompositionInv /\ [Next]_vars => CompositionInv'
    BY CompositionStep
<1> QED
    BY <1>1, <1>2, PTL DEF Spec

(* The registry, the session and the drafts hold what the code puts there. *)
THEOREM CompositionTypeOK == Spec => []TypeOK
<1>1. CompositionInv => TypeOK
    BY DEF CompositionInv
<1> QED
    BY <1>1, CompositionInvariant, PTL

(* addDependencyClosure closes the plan under every provisioned edge that  *)
(* lasted through the walk, for any graph, cycles included.                *)
THEOREM PlansAreClosed == Spec => []PlanIsClosed
<1>1. CompositionInv => PlanIsClosed
    BY DEF CompositionInv
<1> QED
    BY <1>1, CompositionInvariant, PTL

(* It is the least such plan: nothing is recommended that neither matched  *)
(* a role nor is needed, through provisioned edges, by what did.           *)
THEOREM PlansHaveNoStrangers == Spec => []PlanHasNoStrangers
<1>1. CompositionInv => PlanHasNoStrangers
    BY DEF CompositionInv
<1> QED
    BY <1>1, CompositionInvariant, PTL

(* ValidateComposition lets nothing through to the insert of a draft that  *)
(* is not executable, active and closed, as far as one validation can see. *)
THEOREM ValidPlansAreSound == Spec => []ValidMeansSound
<1>1. CompositionInv => ValidMeansSound
    BY DEF CompositionInv
<1> QED
    BY <1>1, CompositionInvariant, PTL

(* deriveGovernance never asks for less than what the plan's capabilities  *)
(* carry, unless one was changed after it was read.                        *)
THEOREM GovernanceAlwaysCovers == Spec => []GovernanceCovers
<1>1. CompositionInv => GovernanceCovers
    BY DEF CompositionInv
<1> QED
    BY <1>1, CompositionInvariant, PTL

(* Recommendation and validation agree on what a complete plan is: what    *)
(* one returns the other accepts, but for a deprecated closure target.     *)
THEOREM QuietRecommendationsValidate == Spec => []RecommendationValidates
<1>1. CompositionInv => RecommendationValidates
    BY DEF CompositionInv
<1> QED
    BY <1>1, CompositionInvariant, PTL

-----------------------------------------------------------------------------
(* Matching.  The invariant is the property and what holds after a session *)
(* has ended.                                                              *)
MatchingInv ==
    /\ plan.steps \subseteq Roles /\ plan.missing \subseteq Roles
    /\ \A c \in matched : \E r \in plan.steps : Evidence(r, c)
    /\ Cardinality(offered) <= MaxLimit =>
          \A r \in plan.missing, c \in offered : Score[r][c] = 0
    /\ phase # "idle" => plan.steps \cup plan.missing # {}

LEMMA RecommendMatches ==
    ASSUME TypeOK, Recommend
    PROVE  MatchingInv'
<1>1. PICK fired \in Goals, reply \in Replies, page \in Pages :
        \E match \in [DecomposeGoal(fired, reply) -> Capabilities \cup {None}] :
          /\ \A r \in DecomposeGoal(fired, reply) : match[r] \in Matches(r, page)
          /\ Selected(DecomposeGoal(fired, reply), match)
    BY DEF Recommend
<1> DEFINE roles == DecomposeGoal(fired, reply)
<1>2. roles \subseteq Roles /\ roles # {}
    BY CompositionAssumption, GoalsHaveRoles
<1> HIDE DEF roles
<1>3. PICK match \in [roles -> Capabilities \cup {None}] :
        (\A r \in roles : match[r] \in Matches(r, page)) /\ Selected(roles, match)
    BY <1>1 DEF roles
<1>4. /\ page \subseteq Capabilities /\ offered' = ActiveNow
      /\ Cardinality(ActiveNow) <= MaxLimit => page = ActiveNow
    BY DEF Recommend, Pages, ActiveNow
<1>5. /\ plan'.steps = {r \in roles : match[r] # None}
      /\ plan'.missing = roles \ {r \in roles : match[r] # None}
      /\ matched' = {match[r] : r \in {r \in roles : match[r] # None}}
    BY <1>3 DEF Selected
<1>6. ASSUME NEW r \in roles, match[r] # None PROVE Evidence(r, match[r])
  <2>1. match[r] \in Capabilities /\ Score[r][match[r]] > 0
    BY <1>2, <1>3, <1>4, <1>6 DEF Matches, BestMatches
  <2>2. Serves(r, match[r])
    BY <1>2, <2>1 DEF Score
  <2> QED
    BY <1>2, <2>1, <2>2, MatchesNeedEvidence
<1>7. ASSUME NEW r \in roles, match[r] = None PROVE \A c \in page : Score[r][c] = 0
  <2>1. BestMatches(r, page) = {}
    <3>1. None \notin BestMatches(r, page)
      BY <1>4, CompositionAssumption DEF BestMatches
    <3>2. None \in Matches(r, page)
      BY <1>3, <1>7
    <3> QED
      BY <3>1, <3>2 DEF Matches
  <2>2. r \in Roles /\ page \subseteq Capabilities
    BY <1>2, <1>4
  <2> QED
    BY <2>1, <2>2, BestMatchExists
<1>8. \A c \in matched' : \E r \in plan'.steps : Evidence(r, c)
    BY <1>5, <1>6
<1>9. Cardinality(offered') <= MaxLimit =>
        \A r \in plan'.missing, c \in offered' : Score[r][c] = 0
  <2>1. ASSUME NEW r \in plan'.missing PROVE r \in roles /\ match[r] = None
    BY <1>5
  <2>2. \A r \in plan'.missing, c \in page : Score[r][c] = 0
    BY <1>7, <2>1
  <2> QED
    BY <1>4, <2>2
<1>10. plan'.steps \subseteq Roles /\ plan'.missing \subseteq Roles
       /\ plan'.steps \cup plan'.missing # {}
    BY <1>2, <1>5
<1> QED
    BY <1>8, <1>9, <1>10 DEF MatchingInv

LEMMA OthersKeepMatches ==
    ASSUME TypeOK, [Next]_vars, ~Recommend
    PROVE  \/ plan' = NoPlan /\ matched' = {} /\ phase' = "idle" /\ offered' = offered
           \/ /\ UNCHANGED <<matched, offered>>
              /\ phase = "idle" => phase' = "idle"
              /\ plan'.steps = plan.steps /\ plan'.missing = plan.missing
<1> USE DEF vars, registryVars, walkVars, validationVars, watchVars, sessionVars
<1>1. CASE \E c \in Capabilities : ListDependencies(c)
    BY <1>1 DEF ListDependencies, Continue, TypeOK, Plan
<1>2. CASE \E dep \in Dependency : AddDependency(dep) \/ SkipDependency(dep)
    BY <1>2 DEF AddDependency, SkipDependency, Continue, TypeOK, Plan
<1>3. CASE Validate \/ \E c \in Capabilities : CheckRef(c) \/ CheckDependencies(c)
    BY <1>3 DEF Validate, CheckRef, CheckDependencies, Conclude
<1>4. CASE Answer \/ CreateDraft
    BY <1>4 DEF Answer, CreateDraft, Forget
<1>5. CASE \E c \in Capabilities : RemoveRef(c)
    BY <1>5 DEF RemoveRef, TypeOK, Plan
<1>6. CASE Fail \/ Restart
    BY <1>6 DEF Fail, Restart, Abort, Forget, Change
<1>7. CASE RegistryMovesOn /\ ~Restart
    BY <1>7 DEF RegistryMovesOn, Register, Store, Put, Change
<1>8. CASE UNCHANGED vars
    BY <1>8
<1> QED
    BY <1>1, <1>2, <1>3, <1>4, <1>5, <1>6, <1>7, <1>8 DEF Next, Proceed

(* For any registry, any roles and any vocabulary: what matched has more   *)
(* to show than some words, and what is missing is served by nothing on a  *)
(* page that holds all active capabilities.                                *)
THEOREM MatchingIsAlwaysSound == Spec => []MatchingIsSound
<1>1. Init => MatchingInv
    BY DEF Init, NoPlan, MatchingInv
<1>2. TypeOK /\ MatchingInv /\ [Next]_vars => MatchingInv'
  <2> SUFFICES ASSUME TypeOK, MatchingInv, [Next]_vars PROVE MatchingInv'
    OBVIOUS
  <2>1. CASE Recommend
    BY <2>1, RecommendMatches
  <2>2. CASE plan' = NoPlan /\ matched' = {} /\ phase' = "idle"
    BY <2>2 DEF MatchingInv, NoPlan
  <2>3. CASE /\ UNCHANGED <<matched, offered>>
             /\ phase = "idle" => phase' = "idle"
             /\ plan'.steps = plan.steps /\ plan'.missing = plan.missing
    BY <2>3 DEF MatchingInv
  <2> QED
    BY <2>1, <2>2, <2>3, OthersKeepMatches
<1>3. MatchingInv => MatchingIsSound
    BY DEF MatchingInv, MatchingIsSound
<1> QED
    BY <1>1, <1>2, <1>3, CompositionTypeOK, PTL DEF Spec

-----------------------------------------------------------------------------
(* A request makes a bounded number of calls.                              *)

(* Numbers with a smaller digit in front, or at the back.                  *)
LEMMA LexicographicOrder ==
    ASSUME NEW a \in Nat, NEW b \in Nat, NEW c \in Nat,
           NEW x \in Nat, NEW y \in Nat, NEW z \in Nat, NEW m \in Nat, NEW n \in Nat,
           y <= m, z <= n,
           \/ x < a
           \/ x = a /\ y < b
           \/ x = a /\ y = b /\ z < c
    PROVE  (x * (m + 1) + y) * (n + 1) + z < (a * (m + 1) + b) * (n + 1) + c
<1> DEFINE high == a * (m + 1)
           low  == x * (m + 1)
<1>1. high \in Nat /\ low \in Nat
  BY SMTT(20)
<1>2. low + y < high + b \/ (low + y = high + b /\ z < c)
  <2>1. CASE x < a
    <3>1. (a - x) \in Nat /\ a - x >= 1
      BY <2>1
    <3>2. (a - x) * (m + 1) >= m + 1
      BY <3>1, SMTT(20)
    <3>3. high = low + (a - x) * (m + 1)
      BY SMTT(20)
    <3> QED
      BY <1>1, <3>2, <3>3
  <2>2. CASE x = a
    BY <1>1, <2>2
  <2> QED
    BY <2>1, <2>2
<1> DEFINE p == low + y
           q == high + b
<1>3. p \in Nat /\ q \in Nat /\ (p < q \/ (p = q /\ z < c))
  BY <1>1, <1>2
<1> HIDE DEF high, low, p, q
<1>4. p * (n + 1) + z < q * (n + 1) + c
  <2>1. p * (n + 1) \in Nat /\ q * (n + 1) \in Nat
    BY <1>3, SMTT(20)
  <2>2. CASE p < q
    <3>1. (q - p) \in Nat /\ q - p >= 1
      BY <1>3, <2>2
    <3>2. (q - p) * (n + 1) >= n + 1
      BY <3>1, SMTT(20)
    <3>3. q * (n + 1) = p * (n + 1) + (q - p) * (n + 1)
      <4>1. \A d, e \in Nat : (d + e) * (n + 1) = d * (n + 1) + e * (n + 1)
        BY SMTT(20)
      <4>2. q = p + (q - p)
        BY <1>3
      <4> QED
        BY <1>3, <3>1, <4>1, <4>2
    <3> DEFINE P == p * (n + 1)
               Q == q * (n + 1)
               D == (q - p) * (n + 1)
    <3>4. D \in Nat
      BY <3>1, SMTT(20)
    <3>5. P \in Nat /\ Q \in Nat /\ D \in Nat /\ D >= n + 1 /\ Q = P + D
      BY <2>1, <3>2, <3>3, <3>4
    <3> HIDE DEF P, Q, D
    <3>6. P + z < Q + c
      BY <3>5
    <3> QED
      BY <3>6 DEF P, Q
  <2>3. CASE p = q /\ z < c
    BY <2>1, <2>3
  <2> QED
    BY <1>3, <2>2, <2>3
<1> QED
  BY <1>4 DEF p, q, high, low

Finitely == IsFiniteSet(Capabilities) /\ IsFiniteSet(Dependency)

(* What is left to follow leads out of the plan.                           *)
LeadsOut == phase = "walk" => \A dep \in todo : dep.target \notin plan.refs

LEMMA LeadsOutStep == TypeOK /\ LeadsOut /\ [Next]_vars => LeadsOut'
<1> USE DEF vars, registryVars, walkVars, validationVars, watchVars, sessionVars
<1> SUFFICES ASSUME TypeOK, LeadsOut, [Next]_vars PROVE LeadsOut'
    OBVIOUS
<1>1. CASE Recommend
  <2>1. todo' = {}
    BY <1>1 DEF Recommend, Selected
  <2> QED
    BY <2>1 DEF LeadsOut
<1>2. ASSUME NEW c \in Capabilities, ListDependencies(c) PROVE LeadsOut'
    BY <1>2 DEF ListDependencies, Continue, LeadsOut, TypeOK, Plan
<1>3. ASSUME NEW dep \in Dependency, AddDependency(dep) PROVE LeadsOut'
    BY <1>3 DEF AddDependency, Continue, LeadsOut, TypeOK, Plan
<1>4. ASSUME NEW dep \in Dependency, SkipDependency(dep) PROVE LeadsOut'
    BY <1>4 DEF SkipDependency, Continue, LeadsOut, TypeOK, Plan
<1>5. CASE Validate \/ \E c \in Capabilities : CheckRef(c) \/ CheckDependencies(c)
    BY <1>5 DEF Validate, CheckRef, CheckDependencies, Conclude, LeadsOut
<1>6. CASE Answer \/ CreateDraft
    BY <1>6 DEF Answer, CreateDraft, LeadsOut
<1>7. CASE \E c \in Capabilities : RemoveRef(c)
    BY <1>7 DEF RemoveRef, LeadsOut
<1>8. CASE Fail \/ Restart
    BY <1>8 DEF Fail, Restart, Abort, LeadsOut
<1>9. CASE RegistryMovesOn /\ ~Restart
    BY <1>9 DEF RegistryMovesOn, Register, Store, Put, LeadsOut
<1>10. CASE UNCHANGED vars
    BY <1>10 DEF LeadsOut
<1> QED
    BY <1>1, <1>2, <1>3, <1>4, <1>5, <1>6, <1>7, <1>8, <1>9, <1>10 DEF Next, Proceed

LEMMA SizesLeft ==
    ASSUME Finitely
    PROVE  /\ Cardinality(Capabilities) \in Nat /\ Cardinality(Dependency) \in Nat
           /\ \A S \in SUBSET Capabilities :
                IsFiniteSet(S) /\ Cardinality(S) \in 0..Cardinality(Capabilities)
           /\ \A S \in SUBSET Dependency :
                IsFiniteSet(S) /\ Cardinality(S) \in 0..Cardinality(Dependency)
<1>1. Cardinality(Capabilities) \in Nat /\ Cardinality(Dependency) \in Nat
  BY FS_CardinalityType DEF Finitely
<1>2. ASSUME NEW S \in SUBSET Capabilities
      PROVE  IsFiniteSet(S) /\ Cardinality(S) \in 0..Cardinality(Capabilities)
  <2>1. IsFiniteSet(S) /\ Cardinality(S) <= Cardinality(Capabilities)
    BY FS_Subset DEF Finitely
  <2> QED
    BY <1>1, <2>1, FS_CardinalityType
<1>3. ASSUME NEW S \in SUBSET Dependency
      PROVE  IsFiniteSet(S) /\ Cardinality(S) \in 0..Cardinality(Dependency)
  <2>1. IsFiniteSet(S) /\ Cardinality(S) <= Cardinality(Dependency)
    BY FS_Subset DEF Finitely
  <2> QED
    BY <1>1, <2>1, FS_CardinalityType
<1> QED
  BY <1>1, <1>2, <1>3

(* A call of the walk takes a capability into the plan, or one from the    *)
(* queue, or an edge from those left; one of the validation looks up or    *)
(* lists one.                                                              *)
LEMMA WalkRunsOut ==
    ASSUME TypeOK, TypeOK', LeadsOut, Finitely, phase = "walk", phase' = "walk", Proceed
    PROVE  WalkLeft' < WalkLeft
<1> DEFINE outside == Capabilities \ plan.refs
           N == Cardinality(Capabilities)
           M == Cardinality(Dependency)
<1>1. /\ outside \in SUBSET Capabilities /\ outside' \in SUBSET Capabilities
      /\ queue \in SUBSET Capabilities /\ queue' \in SUBSET Capabilities
      /\ todo \in SUBSET Dependency /\ todo' \in SUBSET Dependency
  BY DEF TypeOK
<1>2. /\ IsFiniteSet(outside) /\ IsFiniteSet(queue) /\ IsFiniteSet(todo)
      /\ N \in Nat /\ M \in Nat
      /\ Cardinality(outside) \in Nat
      /\ Cardinality(queue) \in 0..N
      /\ Cardinality(todo) \in 0..M
  <2> HIDE DEF outside
  <2> QED BY <1>1, SizesLeft
<1>3. /\ Cardinality(outside') \in Nat
      /\ Cardinality(queue') \in 0..N
      /\ Cardinality(todo') \in 0..M
  <2> HIDE DEF outside
  <2> QED BY <1>1, SizesLeft
<1>4. \/ Cardinality(outside') < Cardinality(outside)
      \/ Cardinality(outside') = Cardinality(outside) /\ Cardinality(queue') < Cardinality(queue)
      \/ /\ Cardinality(outside') = Cardinality(outside)
         /\ Cardinality(queue') = Cardinality(queue)
         /\ Cardinality(todo') < Cardinality(todo)
  <2>1. ASSUME NEW c \in Capabilities, ListDependencies(c)
        PROVE  outside' = outside /\ Cardinality(queue') < Cardinality(queue)
    <3>1. c \in queue /\ queue' = queue \ {c} /\ plan'.refs = plan.refs
      BY <2>1 DEF ListDependencies, Continue, TypeOK, Plan
    <3>2. Cardinality(queue \ {c}) = Cardinality(queue) - 1
      BY <1>2, <3>1, FS_RemoveElement
    <3> QED
      BY <1>2, <3>1, <3>2
  <2>2. ASSUME NEW dep \in Dependency, AddDependency(dep)
        PROVE  Cardinality(outside') < Cardinality(outside)
    <3>1. dep.target \in outside
      BY <2>2 DEF AddDependency, LeadsOut, Dependency
    <3>2. plan'.refs = plan.refs \cup {dep.target}
      BY <2>2 DEF AddDependency, Continue, TypeOK, Plan
    <3>3. outside' = outside \ {dep.target}
      BY <3>2
    <3>4. Cardinality(outside \ {dep.target}) = Cardinality(outside) - 1
      BY <1>2, <3>1, FS_RemoveElement
    <3>5. Cardinality(outside') = Cardinality(outside) - 1
      BY ONLY <3>3, <3>4
    <3> HIDE DEF outside
    <3> QED
      BY <1>2, <3>5
  <2>3. ASSUME NEW dep \in Dependency, SkipDependency(dep)
        PROVE  outside' = outside /\ queue' = queue /\ Cardinality(todo') < Cardinality(todo)
    <3>1. dep \in todo /\ todo' = todo \ {dep} /\ queue' = queue /\ plan'.refs = plan.refs
      BY <2>3 DEF SkipDependency, Continue, TypeOK, Plan
    <3>2. Cardinality(todo \ {dep}) = Cardinality(todo) - 1
      BY <1>2, <3>1, FS_RemoveElement
    <3> QED
      BY <1>2, <3>1, <3>2
  <2> QED
    BY <2>1, <2>2, <2>3 DEF Proceed, CheckRef, CheckDependencies, Answer, CreateDraft
<1>5. (Cardinality(outside') * (N + 1) + Cardinality(queue')) * (M + 1) + Cardinality(todo')
      < (Cardinality(outside) * (N + 1) + Cardinality(queue)) * (M + 1) + Cardinality(todo)
  <2> HIDE DEF outside, N, M
  <2> QED
    BY <1>2, <1>3, <1>4, LexicographicOrder
<1> QED
  BY <1>5 DEF WalkLeft

LEMMA CheckRunsOut ==
    ASSUME TypeOK, TypeOK', Finitely, phase = "check", phase' = "check", Proceed
    PROVE  CheckLeft' < CheckLeft
<1>0. unchecked \in SUBSET Capabilities /\ unlisted \in SUBSET Capabilities
  BY DEF TypeOK
<1>1. /\ IsFiniteSet(unchecked) /\ IsFiniteSet(unlisted)
      /\ Cardinality(unchecked) \in Nat /\ Cardinality(unlisted) \in Nat
  BY <1>0, SizesLeft
<1>2. ASSUME NEW c \in Capabilities, CheckRef(c) PROVE CheckLeft' < CheckLeft
  <2>1. c \in unchecked /\ unchecked' = unchecked \ {c}
    BY <1>2 DEF CheckRef, Conclude
  <2>2. unlisted' = unlisted \/ unlisted' = unlisted \cup {c}
    BY <1>2 DEF CheckRef, Conclude
  <2>3. Cardinality(unchecked') = Cardinality(unchecked) - 1
    BY <1>1, <2>1, FS_RemoveElement
  <2>4. /\ Cardinality(unlisted') \in Nat
        /\ Cardinality(unlisted') <= Cardinality(unlisted) + 1
    <3>1. \/ Cardinality(unlisted \cup {c}) = Cardinality(unlisted)
          \/ Cardinality(unlisted \cup {c}) = Cardinality(unlisted) + 1
      BY <1>1, FS_AddElement
    <3> QED
      BY <1>1, <2>2, <3>1
  <2> QED
    BY <1>1, <2>3, <2>4 DEF CheckLeft
<1>3. ASSUME NEW c \in Capabilities, CheckDependencies(c) PROVE CheckLeft' < CheckLeft
  <2>1. c \in unlisted /\ unlisted' = unlisted \ {c} /\ unchecked' = unchecked
    BY <1>3 DEF CheckDependencies, Conclude
  <2>2. Cardinality(unlisted') = Cardinality(unlisted) - 1
    BY <1>1, <2>1, FS_RemoveElement
  <2> QED
    BY <1>1, <2>1, <2>2 DEF CheckLeft
<1> QED
  BY <1>2, <1>3
     DEF Proceed, ListDependencies, AddDependency, SkipDependency, Answer, CreateDraft

(* Nobody else touches what a walk or a validation has left, unless it     *)
(* ends it.                                                                *)
LEMMA OthersAddNothing ==
    ASSUME [Next]_vars, ~Proceed
    PROVE  /\ phase = "walk" /\ phase' = "walk" => UNCHANGED <<plan, queue, todo>>
           /\ phase = "check" /\ phase' = "check" => UNCHANGED <<unchecked, unlisted>>
<1> USE DEF vars, registryVars, walkVars, validationVars, watchVars, sessionVars
<1>1. CASE Recommend \/ Validate \/ \E c \in Capabilities : RemoveRef(c)
  BY <1>1 DEF Recommend, Validate, RemoveRef
<1>2. CASE Fail \/ Restart
  BY <1>2 DEF Fail, Restart, Abort
<1>3. CASE RegistryMovesOn /\ ~Restart
  BY <1>3 DEF RegistryMovesOn, Register, Store, Put
<1>4. CASE UNCHANGED vars
  BY <1>4
<1> QED
  BY <1>1, <1>2, <1>3, <1>4 DEF Next

(* For finitely many capabilities and dependencies every call of a walk or *)
(* a validation brings its end nearer, whatever others do to the registry  *)
(* meanwhile and however the graph is wired: the loop of                   *)
(* addDependencyClosure (recommendation.go:113) cannot run for ever.       *)
THEOREM RequestsRunOut == Finitely /\ Spec => CallsRunOut
<1>1. Init => LeadsOut
  BY DEF Init, LeadsOut
<1>2. TypeOK /\ LeadsOut /\ [Next]_vars => LeadsOut'
  BY LeadsOutStep
<1> DEFINE Fewer ==
      /\ phase = "walk" /\ phase' = "walk" =>
           IF Proceed THEN WalkLeft' < WalkLeft ELSE WalkLeft' = WalkLeft
      /\ phase = "check" /\ phase' = "check" =>
           IF Proceed THEN CheckLeft' < CheckLeft ELSE CheckLeft' = CheckLeft
<1>3. Finitely /\ TypeOK /\ TypeOK' /\ LeadsOut /\ [Next]_vars => Fewer
  <2> SUFFICES ASSUME Finitely, TypeOK, TypeOK', LeadsOut, [Next]_vars PROVE Fewer
    OBVIOUS
  <2>1. CASE Proceed
    BY <2>1, WalkRunsOut, CheckRunsOut
  <2>2. CASE ~Proceed
    <3>1. UNCHANGED <<plan, queue, todo>> => WalkLeft' = WalkLeft
      BY DEF WalkLeft
    <3>2. UNCHANGED <<unchecked, unlisted>> => CheckLeft' = CheckLeft
      BY DEF CheckLeft
    <3> QED
      BY <2>2, <3>1, <3>2, OthersAddNothing
  <2> QED
    BY <2>1, <2>2
<1>4. Finitely => Finitely'
  BY DEF Finitely
<1>5. CallsRunOut <=> [][Fewer]_vars
  BY DEF CallsRunOut
<1> HIDE DEF Fewer
<1> QED
  BY <1>1, <1>2, <1>3, <1>4, <1>5, CompositionTypeOK, PTL DEF Spec
=============================================================================
