----------------------------- MODULE MCIngestion -----------------------------
(***************************************************************************)
(* An instance of DifyIngestion for TLC.  The shop is drawn in another     *)
(* order than it runs.  The desk is named like its llm node, so that one   *)
(* id stands for an agent and for a skill; it loops and shares a tool and  *)
(* the default-titled node's word with the shop.  The manual document      *)
(* depends on what is nowhere.                                            *)
(***************************************************************************)
EXTENDS DifyIngestion, TLC

MCLower ==
    "LLM" :> "llm" @@ "Shop" :> "shop" @@ "Desk" :> "desk" @@ "Crm" :> "crm" @@
    "Stock" :> "stock" @@
    "Agent" :> "agent" @@ "Workflow" :> "workflow" @@ "Prompt" :> "prompt"

MCDefaultTitles == {<<"llm">>, <<"start">>}

Node(node, kind, title, external) ==
    [node |-> node, kind |-> kind, title |-> title, external |-> external]

Edge(from, to) == [source |-> from, target |-> to]

Shop ==
    [name |-> <<"Shop", "Agent">>, agentMode |-> FALSE,
     nodes |-> <<Node("m1", "llm", <<"LLM">>, <<>>), Node("s1", "start", <<>>, <<>>),
                 Node("t1", "tool", <<"Crm">>, <<"crm">>),
                 Node("k1", "knowledge-retrieval", <<"Stock">>, <<>>)>>,
     edges |-> <<Edge("k1", "m1"), Edge("t1", "k1"), Edge("s1", "t1")>>]

Desk ==
    [name |-> <<"Desk">>, agentMode |-> TRUE,
     nodes |-> <<Node("d1", "llm", <<"Desk">>, <<>>),
                 Node("d2", "tool", <<"Crm">>, <<"crm">>),
                 Node("d3", "start", <<>>, <<>>)>>,
     edges |-> <<Edge("d3", "d2"), Edge("d2", "d1"), Edge("d1", "d2")>>]

MCAppOf == "shop" :> Shop @@ "desk" :> Desk

Listed(id, type, refs) == Candidate(type, <<id>>, refs, NoNode, <<>>)

MCUploads == {"shop", "desk", "manual"}
MCSourceTypes == {"dify", "manual"}
MCTypeOf == "shop" :> "dify" @@ "desk" :> "dify" @@ "manual" :> "manual"

ShopCandidates == Map(Shop)
DeskCandidates == Map(Desk)

MCCandidatesOf ==
    "shop" :> ShopCandidates @@ "desk" :> DeskCandidates @@
    "manual" :> <<Listed("plan", "agent", {[id |-> <<"kb">>, type |-> "knowledge_data"]})>>

Symmetry == Permutations(Handlers) \cup Permutations(SourceIds)
=============================================================================
