---------------------------- MODULE DifyIngestion ----------------------------
(***************************************************************************)
(* Imports of Dify applications: Ingestion of what DifyMapping makes of    *)
(* them, beside other uploads.                                             *)
(***************************************************************************)
EXTENDS Ingestion, DifyMapping

CONSTANT AppOf    \* AppOf[u]: the application of a Dify upload u

(* What MCP servers and data catalogs list refers to nothing               *)
(* (adapters/mcp/mapper.go:31, adapters/data/mapper.go:27).                *)
ASSUME DifyAssumption ==
    /\ DOMAIN AppOf = {u \in Uploads : TypeOf[u] = "dify"}
    /\ \A u \in DOMAIN AppOf :
          /\ AppOf[u].nodes \in Seq(ToSet(AppOf[u].nodes))
          /\ AppOf[u].edges \in Seq(ToSet(AppOf[u].edges))
          /\ CandidatesOf[u] = Map(AppOf[u])
    /\ \A u \in Uploads : TypeOf[u] \notin {"dify", "manual"} =>
          \A k \in DOMAIN CandidatesOf[u] : CandidatesOf[u][k].refs = {}

Edges(app) == {<<app.edges[i].source, app.edges[i].target>> : i \in DOMAIN app.edges}

(* Ways through the graph: from the start, along edges, no node twice.     *)
Ways(app) ==
    {way \in SetToAllKPermutations(NodeIds(app)) :
        /\ way # <<>>
        /\ way[1] = StartNode(app)
        /\ \A i \in 1..(Len(way) - 1) : <<way[i], way[i + 1]>> \in Edges(app)}

(* The way that is all of the graph, if its edges form a single path.      *)
SinglePath(app) ==
    {way \in Ways(app) :
        /\ Len(way) = Len(app.nodes)
        /\ Edges(app) = {<<way[i], way[i + 1]>> : i \in 1..(Len(way) - 1)}}

(* The steps of an upload in execution order, if it has one.               *)
ExecutionOrder == [u \in DOMAIN AppOf |-> {Titles(AppOf[u], way) : way \in SinglePath(AppOf[u])}]

(* The two halves of what OrderedSteps promises (dsl_parser.go:236-238).   *)
InOrder(u, steps) == ExecutionOrder[u] \subseteq {steps}

InDocumentOrder(u, steps) == ExecutionOrder[u] = {} => steps = DocumentSteps(AppOf[u])

(* The steps stored for a workflow of a Dify source are, by Promise, those *)
(* of an application of that id.                                           *)
StoredSteps(Promise(_, _)) ==
    \A s \in SourceIds, id \in ExternalIds :
        LET row == candidates[s][id]
        IN  sources[s] # None /\ sources[s].type = "dify" /\ row # None /\ row.type = "workflow" =>
              \E u \in DOMAIN AppOf : /\ id = Slugify(WorkflowName(AppOf[u]))
                                      /\ Promise(u, row.steps)

(* If the edges of an application form a single path, the workflow stored  *)
(* from it shows the steps in execution order, in whatever order they are  *)
(* drawn (adapters/dify/dsl_parser.go:236-237), however imports interleave *)
(* or end.  It says nothing of other applications: see the next property.  *)
StepsFollowTheFlow == StoredSteps(InOrder)

(* OrderedSteps "falls back to document order if the edges do not form a   *)
(* single path" (adapters/dify/dsl_parser.go:237-238).  The code does not: *)
(* it follows the first edges as far as they lead, and falls back only if  *)
(* there is no step on that way (dsl_parser.go:257-277).                   *)
FallsBackToDocumentOrder == StoredSteps(InDocumentOrder)
=============================================================================
