------------------------------ MODULE MCSeedRun ------------------------------
(***************************************************************************)
(* Instances of SeedRun for TLC: a tool; a workflow with its dataset and a *)
(* second tool that would get the first one's key; or all in one document. *)
(***************************************************************************)
EXTENDS SeedRun, TLC

CONSTANTS tool, flow, dataset, twin, h1, h2

MCCandidates == {tool, flow, dataset, twin}
MCDocuments == <<<<tool>>, <<dataset, twin, flow>>>>
LongDocument == <<<<tool, dataset, twin, flow>>>>

MCTypeOf == tool :> "tool" @@ flow :> "workflow" @@
            dataset :> "knowledge_data" @@ twin :> "tool"
MCKey == tool :> 2 @@ flow :> 3 @@ dataset :> 4 @@ twin :> 2

(* The dataset's text says nothing; the flow comes with almost everything. *)
MCExtracted ==
    tool    :> {"name", "subtype"} @@
    flow    :> Fields \ {"tags"} @@
    dataset :> {"name"} @@
    twin    :> {"name", "description", "intents", "permissions"}
MCAdapterStatus == [c \in MCCandidates |-> IF c = dataset THEN "needs_review"
                                           ELSE "extracted"]
MCRecognised == {tool, flow}
MCReadsItsDomain == {tool, twin}
MCReplies == {{"name", "description", "intents", "permissions", "subtype"}}
MCHandlers == {h1, h2}
HandlersAlike == Permutations(MCHandlers)
=============================================================================
