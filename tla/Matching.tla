------------------------------- MODULE Matching -------------------------------
(***************************************************************************)
(* What a goal asks for and which capability serves it: DecomposeGoal of   *)
(* both enrichers (internal/llm) and scoreCapability and bestMatch         *)
(* (internal/engine/recommendation.go), as pure functions.                 *)
(*                                                                         *)
(* A term stands for a lower-cased string that keywords, intents, tags and *)
(* domains share; text is the set of terms that occur in it.  The code's   *)
(* score is a sum of weighted ratios; here it is multiplied by twice the   *)
(* product of the denominators, which are the role's alone, so that the    *)
(* scores for one role compare as the code's do.                           *)
(***************************************************************************)
EXTENDS Naturals, FiniteSets

CONSTANTS
    Capabilities,   \* storage ids of everything that may get registered
    Roles,          \* roles a goal may be decomposed into
    Terms,
    Types,          \* tool, agent, skill, ...
    Asks,           \* Asks[r]: what role r asks of a capability
    Offers,         \* Offers[c]: what capability c says of itself
    Catalog,        \* the roles of roleCatalog
    FulfillGoal,    \* the role of a goal that triggers none of those
    Nonsense        \* what a model may answer without a step or a known type

Role    == [type : Types, keywords : SUBSET Terms, intents : SUBSET Terms]
Profile == [type : Types, intents : SUBSET Terms, tags : SUBSET Terms, text : SUBSET Terms,
            domain : Terms]

ASSUME MatchingAssumption ==
    /\ IsFiniteSet(Terms)
    /\ Asks \in [Roles -> Role]
    /\ Offers \in [Capabilities -> Profile]
    /\ Catalog \subseteq Roles /\ FulfillGoal \in Roles
    /\ Nonsense \cap Roles = {}

-----------------------------------------------------------------------------
(* DecomposeGoal.                                                          *)

(* MockEnricher: the templates whose triggers the goal contains, or a role *)
(* for the goal as a whole.                                                *)
RolesOfRules(fired) == IF fired = {} THEN {FulfillGoal} ELSE fired

(* ClientEnricher: what the model answers, less its nonsense; the rules    *)
(* when nothing is left of it, or nothing came.                            *)
DecomposeGoal(fired, reply) ==
    LET valid == reply \ Nonsense
    IN  IF valid = {} THEN RolesOfRules(fired) ELSE valid

-----------------------------------------------------------------------------
(* scoreCapability.                                                        *)

Vocabulary(r) == Asks[r].keywords \cup Asks[r].intents

(* overlapRatio and textHitRatio, as hits over their denominators.         *)
IntentHits(r, c)  == Cardinality(Asks[r].intents \cap Offers[c].intents)
TagHits(r, c)     == Cardinality(Vocabulary(r) \cap Offers[c].tags)
KeywordHits(r, c) == Cardinality(Asks[r].keywords \cap Offers[c].text)
DomainHit(r, c)   == IF Offers[c].domain \in Vocabulary(r) THEN 1 ELSE 0

OfNone(n) == IF n = 0 THEN 1 ELSE n
Intents(r)  == OfNone(Cardinality(Asks[r].intents))
Words(r)    == OfNone(Cardinality(Vocabulary(r)))
Keywords(r) == OfNone(Cardinality(Asks[r].keywords))

(* Twice the weights 3, 3, 2, 1 and 0.5, over the common denominator.      *)
Total(r, c) ==
    6 * (Intents(r) * Words(r) * Keywords(r))
        + 6 * (IntentHits(r, c) * Words(r) * Keywords(r))
        + 4 * (TagHits(r, c) * Intents(r) * Keywords(r))
        + 2 * (KeywordHits(r, c) * Intents(r) * Words(r))
        + DomainHit(r, c) * (Intents(r) * Words(r) * Keywords(r))

(* minScore, 4.5.                                                          *)
WeakEnough(r, c) == Total(r, c) >= 8 * (Intents(r) * Words(r) * Keywords(r))  \* mutant

StrongEnough(r, c) == Total(r, c) >= 9 * (Intents(r) * Words(r) * Keywords(r))

(* Of the right type, with some signal besides it, and strong enough.      *)
Serves(r, c) ==
    /\ Offers[c].type = Asks[r].type
    /\ IntentHits(r, c) > 0 \/ TagHits(r, c) > 0 \/ KeywordHits(r, c) > 0
    /\ StrongEnough(r, c)

Score == [r \in Roles |-> [c \in Capabilities |-> IF Serves(r, c) THEN Total(r, c) ELSE 0]]

(* bestMatch: one of the highest score among the active capabilities of    *)
(* the page; the order of List decides between equals.                     *)
BestMatches(r, page) ==
    {c \in page : Score[r][c] > 0 /\ \A d \in page : Score[r][d] <= Score[r][c]}

-----------------------------------------------------------------------------
(* What speaks for a match: a shared intent, a tag the role knows, or the  *)
(* text with every keyword of the role and its domain besides.             *)
Evidence(r, c) ==
    \/ Asks[r].intents \cap Offers[c].intents # {}
    \/ Vocabulary(r) \cap Offers[c].tags # {}
    \/ Asks[r].keywords \subseteq Offers[c].text /\ Offers[c].domain \in Vocabulary(r)
=============================================================================
