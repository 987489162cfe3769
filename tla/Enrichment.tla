----------------------------- MODULE Enrichment ------------------------------
(***************************************************************************)
(* What enrichment adds to an extracted candidate: EnrichCandidate of      *)
(* internal/llm (a model behind an endpoint, deterministic rules behind    *)
(* it) and enrichCandidates of internal/engine/capability_extraction.go.   *)
(*                                                                         *)
(* A block of capability fields is abstracted to who filled each of them.  *)
(***************************************************************************)
EXTENDS Naturals, Sequences

CONSTANTS
    Candidates,     \* what the adapters extract
    Extracted,      \* Extracted[c]: the fields its source system carries
    AdapterStatus,  \* AdapterStatus[c]: the status its adapter gives it
    Recognised,     \* those whose text an intent rule recognises
    ReadsItsDomain, \* tools and datasets of a domain that has a permission
    None            \* absent value

(* The fields subtractKnown compares with the extracted ones; those that   *)
(* are never inferred over; and those that it lets through unseen.  A      *)
(* model is asked for a subtype (llm/prompt_templates.go:12); a reply that *)
(* holds an owner, schemas or metadata has them let through alike, and the *)
(* subtype stands for them.                                                *)
Compared == {"description", "intents", "tags", "domain", "risk", "permissions"}
NeverInferred == {"name", "depends_on"}
LetThrough == {"subtype"}
Fields == Compared \cup NeverInferred \cup LetThrough

PendingStatuses == {"extracted", "inferred", "needs_review"}

ASSUME EnrichmentAssumption ==
    /\ Extracted \in [Candidates -> SUBSET Fields]
    /\ AdapterStatus \in [Candidates -> PendingStatuses]
    /\ Recognised \subseteq Candidates
    /\ ReadsItsDomain \subseteq Candidates

(* A block of inferred fields: who filled each.                            *)
Block == [Fields -> {"nobody", "rules", "model"}]

Filled(block) == {f \in Fields : block[f] # "nobody"}

-----------------------------------------------------------------------------
(* The rules: tags, domain and risk always; an intent or a permission when *)
(* the vocabulary gives one; a description when there is none.             *)
RulesFill(c) ==
    {"tags", "domain", "risk"}
      \cup (IF c \in Recognised THEN {"intents"} ELSE {})
      \cup (IF c \in ReadsItsDomain THEN {"permissions"} ELSE {})
      \cup ({"description"} \ Extracted[c])

FromRules(c) == [f \in Fields |-> IF f \in RulesFill(c) THEN "rules" ELSE "nobody"]

(* base.Merge(fields): what the model filled wins.                         *)
Merge(base, reply) == [f \in Fields |-> IF f \in reply THEN "model" ELSE base[f]]

NothingSubtracted(c, block) == block  \* mutant

SubtractKnown(c, block) ==
    [f \in Fields |-> IF f \in NeverInferred \cup (Compared \cap Extracted[c])
                      THEN "nobody" ELSE block[f]]

(* The inferred block of c after a usable reply, or after none: a timeout, *)
(* a refusal, an answer that is no JSON object.                            *)
Inferred(c, reply) ==
    SubtractKnown(c, IF reply = None THEN FromRules(c) ELSE Merge(FromRules(c), reply))

StatusAfterEnrichment(c, block) ==
    IF ~({"description", "intents"} \subseteq Extracted[c] \cup Filled(block))
    THEN "needs_review"
    ELSE IF AdapterStatus[c] = "inferred" \/ Filled(block) \cap Compared # {}
    THEN "inferred"
    ELSE "extracted"

(* A candidate as it goes to the store.                                    *)
Enriched(c, reply) ==
    [inferred |-> Inferred(c, reply), status |-> StatusAfterEnrichment(c, Inferred(c, reply))]
=============================================================================
