---------------------------- MODULE MCComposition ----------------------------
(***************************************************************************)
(* Instances of Composition for TLC.  An agent is bound to a tool; the     *)
(* tool and a feed may be bound to each other, a cycle; the agent also     *)
(* contains a helper, an agent that stays its own affair.                  *)
(*                                                                         *)
(* The agent shares an intent with the role insight and a tag with the one *)
(* for a whole goal; the helper has their words and their domain only, and *)
(* just reaches the minimum; the tool has two tags of the role query; the  *)
(* feed has its words only, which is too little.                           *)
(***************************************************************************)
EXTENDS Composition, TLC

CONSTANTS agent, helper, tool, feed, insight, query, whole, chatter,
          view, approve, crm, customer, report, profile_query, customer_insight

MCCapabilities == {agent, helper, tool, feed}
MCExecutable == {agent, helper}
MCRoles == {insight, query, whole}
MCCatalog == {insight, query}
MCGoals == {{}, {insight, query}}
MCReplies == {{}, {chatter}, {query, chatter}}
MCTerms == {crm, customer, report, profile_query, customer_insight}
MCTypes == {"agent", "tool"}
MCPermissions == {view, approve}
MCDependencyTypes == {"uses_tool", "uses_knowledge", "contains_step"}
MCProvisioned == {"uses_tool", "uses_knowledge"}

MCAsks ==
    insight :> [type |-> "agent", keywords |-> {customer, report}, intents |-> {customer_insight}] @@
    query   :> [type |-> "tool", keywords |-> {crm, customer}, intents |-> {profile_query}] @@
    whole   :> [type |-> "agent", keywords |-> {customer, report}, intents |-> {}]

MCOffers ==
    agent  :> [type |-> "agent", intents |-> {customer_insight}, tags |-> {report},
               text |-> {report}, domain |-> customer] @@
    helper :> [type |-> "agent", intents |-> {}, tags |-> {},
               text |-> {customer, report}, domain |-> customer] @@
    tool   :> [type |-> "tool", intents |-> {}, tags |-> {crm, customer},
               text |-> {customer}, domain |-> crm] @@
    feed   :> [type |-> "tool", intents |-> {}, tags |-> {},
               text |-> {crm, customer}, domain |-> report]

On(target, type) == [target |-> target, type |-> type]

MCDeclared ==
    agent :> {On(tool, "uses_tool"), On(helper, "contains_step")} @@
    helper :> {On(feed, "uses_knowledge")} @@
    tool  :> {On(feed, "uses_knowledge")} @@
    feed  :> {On(tool, "uses_tool")}

MCGrants ==
    agent :> {{}} @@ helper :> {{}} @@ tool :> {{}, {approve}} @@ feed :> {{view}}

MCPermits == agent :> {} @@ helper :> {} @@ tool :> {} @@ feed :> {view}

(* Any of the capabilities registered and linked in full.  Only what the   *)
(* closure alone brings in may be deprecated to begin with.                *)
Linked(st) ==
    [c \in MCCapabilities |->
        IF st[c] = "absent" THEN {} ELSE {dep \in MCDeclared[c] : st[dep.target] # "absent"}]

MCRegistries ==
    {[status |-> st, permits |-> MCPermits, edges |-> Linked(st)] :
        st \in {s \in [MCCapabilities -> {"absent", "active", "deprecated"}] :
                   \A c \in {agent, helper, tool} : s[c] # "deprecated"}}
=============================================================================
