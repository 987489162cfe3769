------------------------ MODULE MCDependencyLinking -------------------------
(***************************************************************************)
(* Instances of DependencyLinking for TLC: a Dify app that binds a tool    *)
(* and a dataset; a skill from a manual file that carries the tool's       *)
(* external id with another type; a dataset that names itself.             *)
(***************************************************************************)
EXTENDS DependencyLinking, TLC

CONSTANTS app, tool, skill, dataset, e1, e2, e3, dify, manual, h1, h2

MCCapabilities == {app, tool, skill, dataset}
MCExternalIds == {e1, e2, e3}
MCSystems == {dify, manual}
MCTypes == {"agent", "tool", "skill", "data"}
MCHandlers == {h1, h2}

MCExternalId == app :> e1 @@ tool :> e2 @@ skill :> e2 @@ dataset :> e3
MCSystem == app :> dify @@ tool :> dify @@ skill :> manual @@ dataset :> manual
MCTypeOf == app :> "agent" @@ tool :> "tool" @@ skill :> "skill" @@ dataset :> "data"

(* The app insists on a tool; the dataset takes anything of that id.       *)
MCDependsOn ==
    app     :> {[external |-> e2, type |-> "tool"], [external |-> e3, type |-> "data"]} @@
    tool    :> {} @@
    skill   :> {} @@
    dataset :> {[external |-> e2, type |-> None], [external |-> e3, type |-> None]}
=============================================================================
