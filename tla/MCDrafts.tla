------------------------------- MODULE MCDrafts -------------------------------
(***************************************************************************)
(* An instance of Drafts for TLC: edits of the name, of the status and of  *)
(* both, one that changes nothing, and one with an unknown status.         *)
(***************************************************************************)
EXTENDS Drafts, TLC

CONSTANTS plan

MCFields == {"name", "status"}
MCValues == {"n1", "n2", "draft", "ready_for_eval", "published"}
MCAllowed == "name" :> {"n1", "n2"} @@ "status" :> {"draft", "ready_for_eval"}

MCUpdates ==
    {<<>>, "name" :> "n2", "status" :> "ready_for_eval", "status" :> "published"}
    \cup {"name" :> n @@ "status" :> s : n \in {"n1", "n2"}, s \in {"draft"}}

MCPlans == {plan}
MCGenerated ==
    {[fields |-> "name" :> "n1" @@ "status" :> "draft", plan |-> plan]}
=============================================================================
