-------------------------------- MODULE DAG ---------------------------------
(***************************************************************************)
(* The class DAG of models/models.py: a graph of operator names and its     *)
(* layered topological sort.  The sort is a state machine here: a step pops *)
(* one name, or closes a layer.  Within a layer the order of names (that of *)
(* a Python set at first) is left out: the first len(queue) names are the   *)
(* set now, what is appended behind them the set next.                      *)
(***************************************************************************)
EXTENDS Naturals, FiniteSets, Sequences

CONSTANT Names        \* operator names

ASSUME NamesAssumption == IsFiniteSet(Names)

VARIABLES nodes, graph, inDegree,          \* the object
          deg, now, next, layer, layers    \* the locals of the sort

dagVars == <<nodes, graph, inDegree>>
sortVars == <<deg, now, next, layer, layers>>

Zero == [n \in Names |-> 0]

DagInit ==
    /\ nodes = {}
    /\ graph = {}
    /\ inDegree = Zero

\* add_node for op and each of deps, and add_edge from each of deps to op.
\* An edge is one append to graph[from]; its third part tells it from the
\* others between the same names.  A name gets its node, hence its zero in
\* in_degree, before any edge enters it.
AddEdges(op, deps) ==
    /\ nodes' = nodes \cup {op} \cup {deps[i] : i \in DOMAIN deps}
    /\ graph' = graph \cup {<<deps[i], op, Cardinality(graph) + i>> :
                               i \in DOMAIN deps}
    /\ inDegree' = [inDegree EXCEPT ![op] = @ + Len(deps)]

-----------------------------------------------------------------------------
(* layered_topological_sort *)

SortIdle ==
    /\ deg = Zero
    /\ now = {} /\ next = {} /\ layer = {}
    /\ layers = <<>>

StartSort ==
    /\ deg' = inDegree
    /\ now' = {n \in nodes : inDegree[n] = 0}
    /\ next' = {} /\ layer' = {}
    /\ layers' = <<>>

Edges(n, m) == {e \in graph : e[1] = n /\ e[2] = m}

Neighbours(n) == {e[2] : e \in {f \in graph : f[1] = n}}

\* A faulty variant: a neighbour is queued whatever it still waits for.
PopNodeEager(n) ==
    /\ n \in now
    /\ now' = now \ {n}
    /\ layer' = layer \cup {n}
    /\ deg' = [m \in Names |-> deg[m] - Cardinality(Edges(n, m))]
    /\ next' = next \cup Neighbours(n)
    /\ UNCHANGED layers

\* A faulty variant: the loop runs until the queue is empty, not over the
\* names that were in it when the layer began.
PopNodeSameLayer(n) ==
    /\ n \in now
    /\ layer' = layer \cup {n}
    /\ deg' = [m \in Names |-> deg[m] - Cardinality(Edges(n, m))]
    /\ now' = (now \ {n}) \cup {m \in Neighbours(n) : deg'[m] = 0}
    /\ UNCHANGED <<next, layers>>

\* One turn of the for loop over the layer, with its loop over graph[n].
PopNode(n) ==
    /\ n \in now
    /\ now' = now \ {n}
    /\ layer' = layer \cup {n}
    /\ deg' = [m \in Names |-> deg[m] - Cardinality(Edges(n, m))]
    /\ next' = next \cup {m \in Neighbours(n) : deg'[m] = 0}
    /\ UNCHANGED layers

\* A faulty variant: each name becomes a layer of its own.
CloseLayerEarly ==
    /\ layer # {}
    /\ layers' = Append(layers, layer)
    /\ now' = now \cup next
    /\ next' = {} /\ layer' = {}
    /\ UNCHANGED deg

CloseLayer ==
    /\ now = {} /\ layer # {}
    /\ layers' = Append(layers, layer)
    /\ now' = next
    /\ next' = {} /\ layer' = {}
    /\ UNCHANGED deg

\* The queue is empty.
SortOver == now = {} /\ layer = {}

\* sum(len(layer) for layer in layers)
LayeredCount == Cardinality({p \in (DOMAIN layers) \X Names : p[2] \in layers[p[1]]})

SortFindsCycle == LayeredCount # Cardinality(nodes)

EndSort ==
    /\ SortOver
    /\ deg' = Zero
    /\ now' = {} /\ next' = {} /\ layer' = {}
    /\ layers' = <<>>
=============================================================================
