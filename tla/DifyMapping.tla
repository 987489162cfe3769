---------------------------- MODULE DifyMapping ----------------------------
(***************************************************************************)
(* How one Dify application becomes capability candidates: dify.Map and    *)
(* the order of its workflow's steps (internal/adapters/dify/mapper.go,    *)
(* dsl_parser.go).  A title is a sequence of words; an external id is a    *)
(* slug, the lower-case words of a title, or a provider's or data set's    *)
(* own id, a sequence of one word.                                         *)
(*                                                                         *)
(* An app is [name, agentMode, nodes, edges]: nodes, in document order,    *)
(* are [node, kind, title, external] records with external = <<>> if the   *)
(* node names no provider, tool or data set, and edges [source, target].   *)
(***************************************************************************)
EXTENDS Naturals, Sequences, SequencesExt

CONSTANTS
    Lower,          \* Lower[w]: the word w in lower case
    DefaultTitles,  \* the titles Dify gives a node nobody has renamed, in lower case
    NoNode          \* what a candidate of the whole app comes from

-----------------------------------------------------------------------------
Each(Op(_), seq) == [i \in DOMAIN seq |-> Op(seq[i])]

(* The elements of seq at some of its positions, in order: a loop that     *)
(* appends.  SelectSeq would do, but for the proofs.                       *)
Kept(seq, positions) ==
    LET upTo[k \in Nat] ==
            IF k = 0 THEN <<>>
            ELSE IF k \in positions THEN Append(upTo[k - 1], seq[k]) ELSE upTo[k - 1]
    IN  upTo[Len(seq)]

Slugify(title) == Each(LAMBDA w : Lower[w], title)

FirstNonEmpty(title, other) == IF title # <<>> THEN title ELSE other

ToolKinds == {"tool", "http-request", "document-extractor"}
CapabilityKinds == ToolKinds \cup {"llm", "knowledge-retrieval"}

OfKind(nodes, kinds) == Kept(nodes, {i \in DOMAIN nodes : nodes[i].kind \in kinds})

NodesOfType(app, kind) == OfKind(app.nodes, {kind})

ToolLikeNodes(app) ==
    NodesOfType(app, "tool") \o NodesOfType(app, "http-request")
    \o NodesOfType(app, "document-extractor")

(* qualifiedNodeTitle: a renamed node goes by its title.                   *)
QualifiedTitle(app, n) ==
    IF n.title # <<>> /\ Slugify(n.title) \notin DefaultTitles
    THEN n.title
    ELSE app.name \o FirstNonEmpty(n.title, <<n.node>>)

WorkflowName(app) ==
    LET last == Last(app.name)
    IN  IF Lower[last] = "workflow" THEN app.name
        ELSE Append(IF last = "Agent" /\ Len(app.name) > 1 THEN Front(app.name) ELSE app.name,
                    "Workflow")

-----------------------------------------------------------------------------
StartNode(app) ==
    LET starts == NodesOfType(app, "start")
    IN  IF starts # <<>> THEN Head(starts).node ELSE Head(app.nodes).node

NodeIds(app) == {app.nodes[i].node : i \in DOMAIN app.nodes}

LeadsOn(app, node) == \E i \in DOMAIN app.edges : app.edges[i].source = node

(* Where the first edge of a node leads.                                   *)
FirstTarget(app, node) ==
    LET first == CHOOSE i \in DOMAIN app.edges :
                    /\ app.edges[i].source = node
                    /\ \A j \in 1..(i - 1) : app.edges[j].source # node
    IN  app.edges[first].target

(* One turn of the loop: along the first edge, unless it leaves the graph  *)
(* or leads back to where the walk has been.                               *)
Onward(app, visited) ==
    LET from == Last(visited)
    IN  IF LeadsOn(app, from) /\ FirstTarget(app, from) \in NodeIds(app) \ ToSet(visited)
        THEN Append(visited, FirstTarget(app, from))
        ELSE visited

WalkFrom(app) ==
    LET walk[k \in Nat] == IF k = 0 THEN <<StartNode(app)>> ELSE Onward(app, walk[k - 1])
    IN  walk

(* No walk is longer than there are nodes.                                 *)
Walk(app) == WalkFrom(app)[Len(app.nodes)]

(* byID: the last node of an id.                                           *)
NodeOf(app, node) ==
    LET last == CHOOSE i \in DOMAIN app.nodes :
                    /\ app.nodes[i].node = node
                    /\ \A j \in (i + 1)..Len(app.nodes) : app.nodes[j].node # node
    IN  app.nodes[last]

StepTitle(n) == FirstNonEmpty(n.title, <<n.node>>)

StepTitles(nodes) == Each(StepTitle, OfKind(nodes, CapabilityKinds))

Titles(app, way) == StepTitles(Each(LAMBDA node : NodeOf(app, node), way))

DocumentSteps(app) == StepTitles(app.nodes)

OrderedSteps(app) == FirstNonEmpty(Titles(app, Walk(app)), DocumentSteps(app))

-----------------------------------------------------------------------------
Candidate(type, id, refs, node, steps) ==
    [type |-> type, id |-> id, refs |-> refs, node |-> node, steps |-> steps]

RefTo(c) == [id |-> c.id, type |-> c.type]

RefsTo(mapped) == {RefTo(mapped[i]) : i \in DOMAIN mapped}

Provisioned(app, type, n) ==
    Candidate(type, FirstNonEmpty(n.external, Slugify(QualifiedTitle(app, n))),
              {}, n.node, <<>>)

Tools(app) == Each(LAMBDA n : Provisioned(app, "tool", n), ToolLikeNodes(app))

Knowledge(app) ==
    Each(LAMBDA n : Provisioned(app, "knowledge_data", n),
         NodesOfType(app, "knowledge-retrieval"))

Prompt(app, n) ==
    Candidate("prompt_template", Slugify(Append(QualifiedTitle(app, n), "Prompt")),
              {}, n.node, <<>>)

(* What an llm node does is a skill, bound to the app's tools and data.    *)
Skill(app, n) ==
    Candidate("skill", Slugify(QualifiedTitle(app, n)),
              RefsTo(Tools(app) \o Knowledge(app)) \cup {RefTo(Prompt(app, n))},
              n.node, <<>>)

(* In pairs.                                                               *)
PromptsAndSkills(app) ==
    LET llm == NodesOfType(app, "llm")
    IN  [k \in 1..(2 * Len(llm)) |->
            IF k % 2 = 1 THEN Prompt(app, llm[(k + 1) \div 2]) ELSE Skill(app, llm[k \div 2])]

Bound(app) == Tools(app) \o Knowledge(app) \o PromptsAndSkills(app)

Workflows(app) ==
    IF Len(app.nodes) < 2 THEN <<>>
    ELSE <<Candidate("workflow", Slugify(WorkflowName(app)), RefsTo(Bound(app)),
                     NoNode, OrderedSteps(app))>>

Agents(app) ==
    IF ~app.agentMode THEN <<>>
    ELSE <<Candidate("agent", Slugify(app.name), RefsTo(Bound(app) \o Workflows(app)),
                     NoNode, <<>>)>>

AppFirst(app) == Agents(app) \o Workflows(app) \o Bound(app)  \* mutant

(* dify.Map: what is declared a dependency comes before what declares it.  *)
Map(app) == Bound(app) \o Workflows(app) \o Agents(app)
=============================================================================
