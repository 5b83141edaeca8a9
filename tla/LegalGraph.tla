----------------------------- MODULE LegalGraph -----------------------------
(***************************************************************************)
(* The legal graph (legal_nodes, legal_edges) and its readers.             *)
(*                                                                         *)
(* _traverse_graph (core/legal_graph.py) walks breadth first with one      *)
(* statement per node and one per node's edges, so the graph may change    *)
(* under it; build_legal_path (core/rag/graphrag_traversal.py) is one      *)
(* recursive query; build_graph_chain (core/rag/graph_engine.py) asks      *)
(* Neo4j first where it is enabled, then Postgres, and keeps what it got   *)
(* in Redis for some time, even when all it got was an error.  The routes  *)
(* of lawapp-graph-rag-service hand out the cached chain and, straight     *)
(* from the database, the lists of tests, remedies and deadlines.          *)
(***************************************************************************)
EXTENDS Integers, Sequences, SequencesExt, Functions

CONSTANTS Nodes,
          Root,        \* the node of the claim type
          LocalNodes,  \* the nodes of the jurisdiction asked about
          NodeKind,    \* node_type of each node
          Prerequisites,   \* expected_prerequisites of the claim type
          Shapes,      \* the sets of edges the graph may start with
          MaxDepth,
          GraphTTL,    \* GRAPH_CHAIN_CACHE_TTL_S
          GraphEnd,    \* bound: the clock
          MaxEdits     \* bound: changes of the graph during one behaviour

ASSUME LegalGraphAssumption ==
    /\ IsFiniteSet(Nodes)
    /\ Root \in LocalNodes /\ LocalNodes \subseteq Nodes /\ Prerequisites \subseteq Nodes
    /\ Shapes \subseteq SUBSET (Nodes \X Nodes)
    /\ NodeKind \in [Nodes -> {"claim_type", "legal_test", "procedure", "remedy", "deadline"}]
    /\ MaxDepth \in Nat /\ GraphTTL \in Nat \ {0} /\ GraphEnd \in Nat /\ MaxEdits \in Nat

VARIABLES active,          \* nodes with is_active
          edges,           \* an edge has the jurisdiction of its first node
          edits,
          walk,            \* the traversal: step, queue, visited, nodes found,
                           \* the <<node, depth>> it is at
          always, ever,    \* history: the graph common to, and the union of, all
                           \* the graphs since the traversal began
          graphNow,        \* the clock, in units of which a build takes none
          graphUp,         \* whether the database answers
          neo,             \* what Neo4j answers: the nodes reached, or {} for nothing
          chain,           \* the entries in Redis: answer and expiry (0: none)
          served,          \* the last chain handed out, and when
          listed,          \* the last list handed out
          lastBad          \* history: when the graph last had no path to give

bfsVars == <<walk, always, ever>>
chainVars == <<graphNow, graphUp, neo, chain, served, listed, lastBad>>
legalGraphVars == <<active, edges, edits, bfsVars, chainVars>>

Graph(a, e) == [active |-> a, edges |-> e]

\* Reference: what can be reached from the root in at most MaxDepth steps through
\* active nodes of S.
Rings(g, S) ==
    LET ring[d \in 0..MaxDepth] ==
            IF d = 0 THEN {Root} \cap g.active \cap S
            ELSE ring[d - 1] \cup {m \in g.active \cap S : \E n \in ring[d - 1] : <<n, m>> \in g.edges}
    IN  ring
Within(g, S) == Rings(g, S)[MaxDepth]

-----------------------------------------------------------------------------
(* The breadth-first traversal.                                            *)

StartWalk ==
    /\ walk.step = "idle"
    /\ walk' = [step |-> "node", queue |-> <<<<Root, 0>>>>, visited |-> {Root}, found |-> {},
                at |-> <<Root, 0>>]
    /\ always' = Graph(active, edges) /\ ever' = Graph(active, edges)
    /\ UNCHANGED <<active, edges, edits>>

\* The next <<node, depth>> and what is left.
Pop(queue) == <<Head(queue), Tail(queue)>>

FetchNode ==
    /\ walk.step = "node" /\ walk.queue # <<>>
    /\ LET popped == Pop(walk.queue)
           node == popped[1][1]
           here == node \in active /\ node \in LocalNodes
       IN  walk' = [walk EXCEPT !.queue = popped[2],
                                !.found = IF here THEN @ \cup {node} ELSE @,
                                !.at = popped[1],
                                !.step = IF here /\ popped[1][2] < MaxDepth
                                         THEN "edges" ELSE "node"]
    /\ UNCHANGED <<active, edges, edits, always, ever>>

\* ORDER BY weight: any order of the targets.
FetchEdges ==
    /\ walk.step = "edges"
    /\ LET targets == {m \in Nodes \ walk.visited : <<walk.at[1], m>> \in edges}
       IN  \E order \in SetToSeqs(targets) :
              walk' = [walk EXCEPT
                  !.visited = @ \cup targets,
                  !.queue = @ \o [i \in DOMAIN order |-> <<order[i], walk.at[2] + 1>>],
                  !.step = "node"]
    /\ UNCHANGED <<active, edges, edits, always, ever>>

FinishWalk ==
    /\ walk.step = "node" /\ walk.queue = <<>>
    /\ walk' = [walk EXCEPT !.step = "done"]
    /\ UNCHANGED <<active, edges, edits, always, ever>>

-----------------------------------------------------------------------------
(* The recursive query and the chain that is cached.                       *)

\* The simple paths of the recursive query: active nodes below an active root of
\* the jurisdiction, whatever theirs is.
PathsUpTo ==
    LET upTo[d \in 0..MaxDepth] ==
            IF d = 0 THEN {<<n>> : n \in {Root} \cap active \cap LocalNodes}
            ELSE upTo[d - 1] \cup
                 UNION {{Append(p, m) : m \in {n \in active : <<Last(p), n>> \in edges
                                                              /\ ~ Contains(p, n)}} :
                           p \in upTo[d - 1]}
    IN  upTo
Paths == PathsUpTo[MaxDepth]
build_legal_path == IF graphUp THEN {Last(p) : p \in Paths} ELSE {}

\* What the claim type needs and the path lacks.
_identify_missing_prerequisites(path) == Prerequisites \ path

\* Mutant: an outage leaves the list of what is missing empty.
ChainSilentOnOutage ==
    [path |-> build_legal_path, engine |-> "postgres",
     missing |-> IF build_legal_path = {} THEN {} ELSE _identify_missing_prerequisites(build_legal_path)]

\* Without a root, or without a database, the reason stands for what is missing.
_postgres_chain ==
    [path |-> build_legal_path, engine |-> "postgres",
     missing |-> IF build_legal_path = {} THEN {"unavailable"}
                 ELSE _identify_missing_prerequisites(build_legal_path)]

\* Neo4j never reports anything missing.
_neo4j_chain == [path |-> neo, engine |-> "neo4j", missing |-> {}]

\* The routes read "from" and "to" of every edge; Neo4j's edges have neither, so
\* its chains of more than one node are answered with a 500.
ToModels(answer) ==
    IF answer.engine = "neo4j" /\ answer.path \ {Root} # {}
    THEN [path |-> {}, engine |-> "error", missing |-> {}] ELSE answer

Unexpired(route) == graphNow < chain[route].until

Remembered(answer) == [answer |-> answer, until |-> graphNow + GraphTTL]

\* Neo4j if it answers, Postgres otherwise; both are kept, under a key with the
\* text of the query in it.  Redis may be away: then nothing is read from it or
\* written to it.
build_graph_chain(route) ==
    LET built == IF neo # {} THEN _neo4j_chain ELSE _postgres_chain
        Serve(answer) == served' = [answer |-> ToModels(answer), at |-> graphNow]
    IN  \/ /\ Unexpired(route) /\ Serve(chain[route].answer)
           /\ UNCHANGED <<graphNow, graphUp, neo, chain, listed, lastBad>>
        \/ /\ Serve(built)
           /\ \/ ~ Unexpired(route) /\ chain' = [chain EXCEPT ![route] = Remembered(built)]
              \/ chain' = chain
           /\ lastBad' = IF built.path = {} THEN graphNow ELSE lastBad
           /\ UNCHANGED <<graphNow, graphUp, neo, listed>>

\* POST /api/graphrag/traverse, and POST /api/graph/search with a question about
\* the same claim type.
graphrag_traverse == build_graph_chain("traverse")
graph_search == build_graph_chain("search")

\* The lists: nodes of one kind on the path, built anew for each request.
OfKind(kinds) == {n \in build_legal_path : NodeKind[n] \in kinds}
traverse_requirements == OfKind({"legal_test", "procedure"})
find_remedies_for_claim == OfKind({"remedy"})
find_deadlines_for_claim == OfKind({"deadline"})

Listing(nodes) ==
    /\ listed' = nodes
    /\ UNCHANGED <<graphNow, graphUp, neo, chain, served, lastBad>>
get_requirements == Listing(traverse_requirements)
get_remedies == Listing(find_remedies_for_claim)
get_deadlines == Listing(find_deadlines_for_claim)

GraphTick ==
    /\ graphNow < GraphEnd /\ graphNow' = graphNow + 1
    /\ UNCHANGED <<graphUp, neo, chain, served, listed, lastBad>>

GraphFails ==
    /\ graphUp' = ~ graphUp
    /\ UNCHANGED <<graphNow, neo, chain, served, listed, lastBad>>

\* Neo4j, where it is enabled at all, goes away for good.
Neo4jFails ==
    /\ neo # {} /\ neo' = {}
    /\ UNCHANGED <<graphNow, graphUp, chain, served, listed, lastBad>>

-----------------------------------------------------------------------------
(* Whoever maintains the graph: linker, hydrator, migrations.              *)

EditGraph ==
    /\ edits < MaxEdits /\ edits' = edits + 1
    /\ \/ \E n \in Nodes : active' = (active \cup {n}) \ (active \cap {n}) /\ edges' = edges
       \/ \E n, m \in Nodes : /\ n # m
                              /\ edges' = (edges \cup {<<n, m>>}) \ (edges \cap {<<n, m>>})
                              /\ active' = active
    /\ always' = Graph(always.active \cap active', always.edges \cap edges')
    /\ ever' = Graph(ever.active \cup active', ever.edges \cup edges')
    /\ UNCHANGED walk

LegalGraphInit ==
    /\ active \in {Nodes, Nodes \ {Root}} /\ edges \in Shapes /\ edits = 0
    /\ walk = [step |-> "idle", queue |-> <<>>, visited |-> {}, found |-> {},
               at |-> <<Root, 0>>]
    /\ always = Graph(active, edges) /\ ever = Graph(active, edges)
    /\ graphNow = 0 /\ graphUp = TRUE /\ neo \in {{}, LocalNodes}
    /\ chain = [route \in {"traverse", "search"} |-> [answer |-> _neo4j_chain, until |-> 0]]
    /\ served = [answer |-> [path |-> Nodes, engine |-> "none", missing |-> {}], at |-> 0]
    /\ listed = {} /\ lastBad = -1

WalkStep ==
    (StartWalk \/ FetchNode \/ FetchEdges \/ FinishWalk \/ EditGraph) /\ UNCHANGED chainVars

ChainStep ==
    (graphrag_traverse \/ graph_search \/ get_requirements \/ get_remedies \/ get_deadlines
     \/ GraphTick \/ GraphFails \/ Neo4jFails)
    /\ UNCHANGED <<active, edges, edits, bfsVars>>

LegalGraphNext == WalkStep \/ ChainStep

LegalGraphSpec == LegalGraphInit /\ [][LegalGraphNext]_legalGraphVars

-----------------------------------------------------------------------------
(* Properties.                                                             *)

(***************************************************************************)
(* Whatever edits happen between its statements, the traversal returns all *)
(* that could be reached within MaxDepth throughout, and nothing that      *)
(* could not be reached with the edges and nodes of some moment; in a      *)
(* graph nobody edited it returns exactly that, and the recursive query    *)
(* returns the same and what lies behind or in other jurisdictions         *)
(* (legal_graph.py:129-189, graphrag_traversal.py:104-150).                *)
(***************************************************************************)
TraversalExact ==
    walk.step = "done" =>
        /\ Within(always, LocalNodes) \subseteq walk.found
        /\ walk.found \subseteq Within(ever, LocalNodes)
        /\ always = ever /\ graphUp =>
              /\ walk.found \subseteq build_legal_path
              /\ build_legal_path = Within(ever, Nodes)

(***************************************************************************)
(* A chain from Postgres, cached or not, that reports nothing missing has  *)
(* every prerequisite of the claim on it, also when what was cached was an *)
(* outage; and as long as nobody edits the graph and the database answers, *)
(* the lists of tests, remedies and deadlines never show a node the chain  *)
(* lacks (graph_engine.py:96-109, graphrag_traversal.py:227-391).          *)
(***************************************************************************)
ChainsHonest ==
    served.answer.engine = "postgres" =>
        /\ served.answer.missing = {} => Prerequisites \subseteq served.answer.path
        /\ edits = 0 /\ lastBad = -1 => listed \subseteq served.answer.path

\* Both: what the two engines answer about the graph can be relied on.
GraphAnswersHonest == TraversalExact /\ ChainsHonest
=============================================================================
