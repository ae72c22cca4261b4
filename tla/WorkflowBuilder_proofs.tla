------------------------ MODULE WorkflowBuilder_proofs ------------------------
(***************************************************************************)
(* Theorems about WorkflowBuilder: for any finite set of names, any stages  *)
(* and any number of dependencies, what the layered sort computes.          *)
(***************************************************************************)
EXTENDS WorkflowBuilder, FiniteSetTheorems, TLAPS

-----------------------------------------------------------------------------
(* The inductive invariant *)

InEdges(m) == {e \in graph : e[2] = m}

Depends(m, n) == \E e \in graph : e[1] = n /\ e[2] = m

\* in_degree counts the edges, whose numbers are below the next one.
GraphInv ==
    /\ IsFiniteSet(graph)
    /\ \A e \in graph : e[3] <= Cardinality(graph) /\ {e[1], e[2]} \subseteq nodes
    /\ \A m \in Names : inDegree[m] = Cardinality(InEdges(m))

\* The graph tells what the stages tell.
StageInv ==
    /\ AllOperators \subseteq nodes
    /\ \A n \in nodes : n \in AllOperators \/ \E m \in Names : Depends(m, n)
    /\ \A s \in Stages : s \notin stages => operators[s] = {}
    /\ \A s \in Stages, m \in Names : dependencies[s][m] # {} => m \in operators[s]
    /\ \A m, n \in Names : n \in DependsOn(m) <=> Depends(m, n)

\* What lies in the layers of a plan, or of the sort's layers so far.
Laid(L) == UNION {L[i] : i \in DOMAIN L}

Apart(L) == \A i, j \in DOMAIN L : i # j => L[i] \cap L[j] = {}

Ordered(L) ==
    \A i \in DOMAIN L : \A m \in L[i] : \A n \in Names :
        Depends(m, n) => \E j \in DOMAIN L : j < i /\ n \in L[j]

Early(L) ==
    \A i \in DOMAIN L : \A m \in L[i] :
        i > 1 => \E n \in L[i - 1] : Depends(m, n)

Popped == Laid(layers) \cup layer

\* The edges a name still waits for.
Waiting(m) == {e \in graph : e[2] = m /\ e[1] \notin Popped}

\* in_degree is down to the edges from names not popped; a name is queued when
\* there are none left, and what is popped has all it depends on before it.
SortInv ==
    /\ ~DuplicateName /\ ~DependencyMissing
    /\ Popped \subseteq nodes /\ now \subseteq nodes /\ next \subseteq nodes
    /\ now \cap next = {} /\ layer \cap Laid(layers) = {}
    /\ layer = {} => next = {}
    /\ \A m \in Names : deg[m] = Cardinality(Waiting(m))
    /\ \A m \in nodes : (m \notin Popped /\ deg[m] = 0) <=> m \in now \cup next
    /\ Apart(layers) /\ Ordered(layers) /\ Early(layers)
    /\ \A m \in now \cup layer : \A n \in Names :
          Depends(m, n) => n \in Laid(layers)
    /\ \A m \in now \cup layer :
          Len(layers) > 0 => \E n \in layers[Len(layers)] : Depends(m, n)
    /\ \A m \in next : \E n \in layer : Depends(m, n)

\* Until the builder is used again its last outcome is true of it.
OutcomeInv ==
    /\ outcome = "built" => /\ Apart(workflow.layers) /\ Ordered(workflow.layers)
                            /\ Early(workflow.layers)
                            /\ Laid(workflow.layers) = AllOperators
    /\ outcome = "cycle" => Cyclic
    /\ outcome # "KeyError"

IInv ==
    /\ TypeOK
    /\ GraphInv
    /\ StageInv
    /\ building => SortInv
    /\ OutcomeInv

-----------------------------------------------------------------------------
(* Graph *)

\* Sets with nothing in common add up.
LEMMA Disjoint ==
    ASSUME NEW S, NEW T, IsFiniteSet(S), IsFiniteSet(T), S \cap T = {}
    PROVE  /\ IsFiniteSet(S \cup T)
           /\ Cardinality(S \cup T) = Cardinality(S) + Cardinality(T)
<1>1. Cardinality(S) \in Nat /\ Cardinality(T) \in Nat
  BY FS_CardinalityType
<1>2. Cardinality(S \cap T) = 0
  BY FS_EmptySet
<1>3. Cardinality(S \cup T) = Cardinality(S) + Cardinality(T) - Cardinality(S \cap T)
  BY FS_Union
<1>. QED
  BY <1>1, <1>2, <1>3, FS_Union

\* A declared dependency list has at most two names.
LEMMA ListType ==
    ASSUME NEW deps \in DependencyLists
    PROVE  /\ Len(deps) \in 0 .. 2 /\ DOMAIN deps = 1 .. Len(deps)
           /\ \A i \in DOMAIN deps : deps[i] \in Names
           /\ deps = <<>> <=> Len(deps) = 0
<1>1. CASE deps = <<>>
  BY <1>1
<1>2. CASE \E n \in Names : deps = <<n>>
  BY <1>2
<1>3. CASE deps \in Names \X Names
  <2>1. PICK n \in Names, m \in Names : deps = <<n, m>>
    BY <1>3
  <2>. QED
    BY <2>1
<1>. QED
  BY <1>1, <1>2, <1>3 DEF DependencyLists

NewEdges(op, deps) == {<<deps[i], op, Cardinality(graph) + i>> : i \in DOMAIN deps}

\* Each entry of the list makes one new edge.
LEMMA NewEdgesCount ==
    ASSUME NEW op \in Names, NEW deps \in DependencyLists, Cardinality(graph) \in Nat
    PROVE  /\ IsFiniteSet(NewEdges(op, deps))
           /\ Cardinality(NewEdges(op, deps)) = Len(deps)
<1>. DEFINE E(i) == <<deps[i], op, Cardinality(graph) + i>>
<1>1. CASE Len(deps) = 0
  <2>1. NewEdges(op, deps) = {}
    BY <1>1, ListType DEF NewEdges
  <2>. QED
    BY <1>1, <2>1, FS_EmptySet
<1>2. CASE Len(deps) = 1
  <2>1. NewEdges(op, deps) = {E(1)}
    BY <1>2, ListType DEF NewEdges
  <2>. QED
    BY <1>2, <2>1, FS_Singleton
<1>3. CASE Len(deps) = 2
  <2>1. NewEdges(op, deps) = {E(1)} \cup {E(2)}
    BY <1>3, ListType DEF NewEdges
  <2>2. E(2) \notin {E(1)}
    OBVIOUS
  <2>3. IsFiniteSet({E(1)}) /\ Cardinality({E(1)}) = 1
    BY FS_Singleton
  <2>. HIDE DEF E
  <2>4. /\ IsFiniteSet({E(1)} \cup {E(2)})
        /\ Cardinality({E(1)} \cup {E(2)}) = 2
    BY <2>2, <2>3, FS_AddElement
  <2>. QED
    BY <1>3, <2>1, <2>4
<1>. QED
  BY <1>1, <1>2, <1>3, ListType

\* add_edge counts in in_degree what it appends to the graph.
LEMMA AddEdgesGraph ==
    ASSUME TypeOK, GraphInv, NEW op \in Names, NEW deps \in DependencyLists,
           AddEdges(op, deps)
    PROVE  /\ nodes' \subseteq Names
           /\ graph' \subseteq Names \X Names \X Nat
           /\ inDegree' \in [Names -> Nat]
           /\ GraphInv'
<1>. DEFINE N == NewEdges(op, deps)
            C == Cardinality(graph)
<1>0. C \in Nat
  BY FS_CardinalityType DEF GraphInv
<1>1. graph' = graph \cup N
  BY DEF AddEdges, NewEdges
<1>2. /\ nodes' = nodes \cup {op} \cup {deps[i] : i \in DOMAIN deps}
      /\ inDegree' = [inDegree EXCEPT ![op] = @ + Len(deps)]
  BY DEF AddEdges
<1>3. IsFiniteSet(N) /\ Cardinality(N) = Len(deps)
  BY <1>0, NewEdgesCount
<1>4. /\ Len(deps) \in Nat
      /\ \A e \in N : e[1] \in nodes' /\ e[2] = op /\ e[3] \in Nat
                      /\ C < e[3] /\ e[3] <= C + Len(deps)
                      /\ e \in Names \X Names \X Nat
  BY <1>0, <1>2, ListType DEF NewEdges
<1>5. \A e \in graph : e[3] \in Nat /\ e[3] <= C /\ e[1] \in nodes' /\ e[2] \in nodes'
  BY <1>2 DEF TypeOK, GraphInv
<1>6. graph \cap N = {}
  BY <1>0, <1>4, <1>5
<1>7. IsFiniteSet(graph') /\ Cardinality(graph') = C + Len(deps)
  <2>1. IsFiniteSet(graph)
    BY DEF GraphInv
  <2>. HIDE DEF N
  <2>. QED
    BY <1>1, <1>3, <1>6, <2>1, Disjoint
<1>8. ASSUME NEW m \in Names
      PROVE  inDegree'[m] = Cardinality(InEdges(m)') /\ inDegree'[m] \in Nat
  <2>0. inDegree[m] \in Nat /\ inDegree[m] = Cardinality(InEdges(m))
    BY DEF TypeOK, GraphInv
  <2>1. CASE m = op
    <3>1. InEdges(m)' = InEdges(m) \cup N
      BY <1>1, <1>4, <2>1 DEF InEdges
    <3>2. InEdges(m) \cap N = {} /\ IsFiniteSet(InEdges(m))
      BY <1>6, FS_Subset DEF InEdges, GraphInv
    <3>3. Cardinality(InEdges(m) \cup N) = Cardinality(InEdges(m)) + Cardinality(N)
      <4>. HIDE DEF N
      <4>. QED
        BY <1>3, <3>2, Disjoint
    <3>4. inDegree'[m] = inDegree[m] + Len(deps)
      BY <1>2, <2>1 DEF TypeOK
    <3>. QED
      BY <1>3, <1>4, <2>0, <3>1, <3>3, <3>4
  <2>2. CASE m # op
    <3>1. InEdges(m)' = InEdges(m)
      BY <1>1, <1>4, <2>2 DEF InEdges
    <3>. QED
      BY <1>2, <2>0, <2>2, <3>1 DEF TypeOK
  <2>. QED
    BY <2>1, <2>2
<1>9. nodes' \subseteq Names /\ graph' \subseteq Names \X Names \X Nat
  BY <1>1, <1>2, <1>4, ListType DEF TypeOK
<1>10. inDegree' \in [Names -> Nat]
  BY <1>2, <1>8 DEF TypeOK
<1>11. \A e \in graph' : e[3] <= Cardinality(graph') /\ {e[1], e[2]} \subseteq nodes'
  BY <1>0, <1>1, <1>2, <1>4, <1>5, <1>7
<1>. QED
  BY <1>7, <1>8, <1>9, <1>10, <1>11 DEF GraphInv

\* The stage and the graph are given the same dependencies.
LEMMA AddOperatorStages ==
    ASSUME TypeOK, StageInv, NEW op \in Names, NEW deps \in DependencyLists,
           AddOperator(op, deps)
    PROVE  StageInv'
<1>. DEFINE D == {deps[i] : i \in DOMAIN deps}
<1>0. /\ current \in stages /\ current \in Stages /\ stages' = stages
      /\ op \notin operators[current] /\ D \subseteq Names
      /\ operators \in [Stages -> SUBSET Names]
      /\ dependencies \in [Stages -> [Names -> SUBSET Names]]
  BY ListType DEF AddOperator, TypeOK
<1>1. operators' = [operators EXCEPT ![current] = @ \cup {op}]
  BY DEF AddOperator, StageAddOperator
<1>2. dependencies[current][op] = {}
  BY <1>0 DEF StageInv
<1>3. \A s \in Stages, m \in Names :
         dependencies'[s][m] = IF s = current /\ m = op THEN D
                               ELSE dependencies[s][m]
  <2>1. CASE deps = <<>>
    <3>1. dependencies' = dependencies /\ D = {}
      BY <2>1 DEF AddOperator, StageAddOperator
    <3>. QED
      BY <1>2, <3>1
  <2>2. CASE deps # <<>>
    <3>1. dependencies' = [dependencies EXCEPT ![current][op] = D]
      BY <2>2 DEF AddOperator, StageAddOperator
    <3>. QED
      BY <1>0, <3>1
  <2>. QED
    BY <2>1, <2>2
<1>4. /\ graph' = graph \cup NewEdges(op, deps)
      /\ nodes' = nodes \cup {op} \cup D
  BY DEF AddOperator, AddEdges, NewEdges
<1>5. \A m, n \in Names : Depends(m, n)' <=> Depends(m, n) \/ (m = op /\ n \in D)
  <2>1. ASSUME NEW m, NEW n
        PROVE  (\E e \in NewEdges(op, deps) : e[1] = n /\ e[2] = m)
                  <=> m = op /\ n \in D
    <3>. DEFINE E(i) == <<deps[i], op, Cardinality(graph) + i>>
    <3>1. \A i : E(i)[1] = deps[i] /\ E(i)[2] = op
      OBVIOUS
    <3>2. NewEdges(op, deps) = {E(i) : i \in DOMAIN deps}
      BY DEF NewEdges
    <3>3. \A k : k \in D <=> \E i \in DOMAIN deps : k = deps[i]
      OBVIOUS
    <3>. HIDE DEF E, D
    <3>4. (\E e \in NewEdges(op, deps) : e[1] = n /\ e[2] = m)
             <=> \E i \in DOMAIN deps : E(i)[1] = n /\ E(i)[2] = m
      BY <3>2
    <3>. QED
      BY <3>1, <3>3, <3>4
  <2>. QED
    BY <1>4, <2>1 DEF Depends
<1>6. \A m, n \in Names : n \in DependsOn(m)' <=> n \in DependsOn(m) \/ (m = op /\ n \in D)
  <2>1. \A m, n \in Names :
           n \in DependsOn(m) <=> \E s \in stages : n \in dependencies[s][m]
    BY DEF DependsOn
  <2>2. \A m, n \in Names :
           n \in DependsOn(m)' <=> \E s \in stages : n \in dependencies'[s][m]
    BY <1>0 DEF DependsOn
  <2>3. stages \subseteq Stages
    BY DEF TypeOK
  <2>4. ASSUME NEW m \in Names, m # op
        PROVE  \A s \in stages : dependencies'[s][m] = dependencies[s][m]
    BY <1>3, <2>3, <2>4
  <2>5. /\ \A s \in stages : s # current => dependencies'[s][op] = dependencies[s][op]
        /\ dependencies'[current][op] = D
    BY <1>0, <1>3, <2>3
  <2>6. ASSUME NEW n \in Names
        PROVE  (\E s \in stages : n \in dependencies'[s][op])
                  <=> n \in D \/ \E s \in stages : n \in dependencies[s][op]
    <3>. HIDE DEF D
    <3>. QED
      BY <1>0, <1>2, <2>5
  <2>. HIDE DEF D
  <2>. QED
    BY <2>1, <2>2, <2>4, <2>6
<1>7. AllOperators' = AllOperators \cup {op}
  <2>1. stages \subseteq Stages
    BY DEF TypeOK
  <2>. QED
    BY <1>0, <1>1, <2>1 DEF AllOperators
<1>8. \A n \in nodes' : n \in AllOperators' \/ \E m \in Names : Depends(m, n)'
  <2>1. nodes \subseteq Names
    BY DEF TypeOK
  <2>. QED
    BY <1>0, <1>4, <1>5, <1>7, <2>1 DEF StageInv
<1>9. \A s \in Stages : s \notin stages' => operators'[s] = {}
  BY <1>0, <1>1 DEF StageInv
<1>10. \A s \in Stages, m \in Names : dependencies'[s][m] # {} => m \in operators'[s]
  BY <1>0, <1>1, <1>3 DEF StageInv
<1>11. AllOperators' \subseteq nodes'
  BY <1>4, <1>7 DEF StageInv
<1>12. \A m, n \in Names : n \in DependsOn(m)' <=> Depends(m, n)'
  BY <1>5, <1>6 DEF StageInv
<1>. QED
  BY <1>8, <1>9, <1>10, <1>11, <1>12 DEF StageInv

\* A new stage is empty.
LEMMA StageStages ==
    ASSUME TypeOK, StageInv, NEW s \in Stages, Stage(s)
    PROVE  StageInv'
<1>0. /\ stages' = stages \cup {s} /\ s \notin stages /\ operators' = operators
      /\ dependencies' = dependencies /\ nodes' = nodes /\ graph' = graph
  BY DEF Stage, dagVars
<1>1. operators[s] = {} /\ \A m \in Names : dependencies[s][m] = {}
  BY <1>0 DEF StageInv
<1>2. AllOperators' = AllOperators
  BY <1>0, <1>1 DEF AllOperators
<1>3. \A m \in Names : DependsOn(m)' = DependsOn(m)
  BY <1>0, <1>1 DEF DependsOn
<1>4. \A m, n : Depends(m, n)' = Depends(m, n)
  BY <1>0 DEF Depends
<1>. QED
  BY <1>0, <1>2, <1>3, <1>4 DEF StageInv

-----------------------------------------------------------------------------
(* Sort *)

\* Where no dependency is missing every node is an operator.
LEMMA NodesAreOperators ==
    ASSUME TypeOK, StageInv, ~DependencyMissing
    PROVE  nodes = AllOperators
<1>1. ASSUME NEW n \in nodes, NEW m \in Names, Depends(m, n)
      PROVE  n \in AllOperators
  <2>1. n \in DependsOn(m)
    BY <1>1 DEF StageInv, TypeOK
  <2>. QED
    BY <2>1 DEF DependsOn, DependencyMissing
<1>. QED
  BY <1>1 DEF StageInv

\* At first the sort waits for every edge.
LEMMA SortStarts ==
    ASSUME TypeOK, GraphInv, StageInv, BuildSorts
    PROVE  SortInv' /\ deg' \in [Names -> Nat] /\ now' \subseteq Names
<1>1. /\ deg' = inDegree /\ now' = {n \in nodes : inDegree[n] = 0}
      /\ next' = {} /\ layer' = {} /\ layers' = <<>>
      /\ UNCHANGED <<graph, nodes, inDegree, stages, operators, dependencies>>
      /\ ~DuplicateName /\ ~DependencyMissing
  BY DEF BuildSorts, StartSort, dagVars, stageVars
<1>2. ~DuplicateName' /\ ~DependencyMissing'
  BY <1>1 DEF DuplicateName, DependencyMissing, AllOperators
<1>3. Laid(layers)' = {} /\ Popped' = {} /\ Len(layers') = 0
  BY <1>1 DEF Laid, Popped
<1>4. \A m \in Names : Waiting(m)' = InEdges(m)
  BY <1>1, <1>3 DEF Waiting, InEdges
<1>5. Apart(layers)' /\ Ordered(layers)' /\ Early(layers)'
  BY <1>1 DEF Apart, Ordered, Early
<1>6. \A m \in now', n \in Names : ~Depends(m, n)'
  <2>1. SUFFICES ASSUME NEW m \in now', NEW n \in Names, Depends(m, n)'
                 PROVE  FALSE
    OBVIOUS
  <2>2. m \in Names /\ inDegree[m] = 0
    BY <1>1 DEF TypeOK
  <2>3. InEdges(m) = {}
    BY <2>2, FS_Subset, FS_EmptySet DEF GraphInv, InEdges
  <2>. QED
    BY <1>1, <2>1, <2>3 DEF Depends, InEdges
<1>7. \A m \in nodes' : (m \notin Popped' /\ deg'[m] = 0) <=> m \in now' \cup next'
  BY <1>1, <1>3
<1>8. \A m \in Names : deg'[m] = Cardinality(Waiting(m)')
  BY <1>1, <1>4 DEF GraphInv
<1>9. deg' \in [Names -> Nat] /\ now' \subseteq Names /\ now' \subseteq nodes'
  BY <1>1 DEF TypeOK
<1>. QED
  BY <1>1, <1>2, <1>3, <1>5, <1>6, <1>7, <1>8, <1>9 DEF SortInv

\* A name that is popped takes its edges off the counts of its neighbours.
LEMMA PopCounts ==
    ASSUME TypeOK, GraphInv, SortInv, NEW n \in Names, PopNode(n),
           UNCHANGED <<graph, nodes>>
    PROVE  /\ n \notin Popped /\ Popped' = Popped \cup {n}
           /\ Laid(layers)' = Laid(layers)
           /\ deg' \in [Names -> Nat]
           /\ \A m \in Names :
                 /\ deg'[m] = Cardinality(Waiting(m)')
                 /\ deg[m] = 0 => deg'[m] = 0
                 /\ deg[m] # 0 /\ deg'[m] = 0 => m \in Neighbours(n)
<1>1. /\ n \in now /\ layer' = layer \cup {n} /\ layers' = layers
      /\ deg' = [m \in Names |-> deg[m] - Cardinality(Edges(n, m))]
  BY DEF PopNode
<1>2. n \notin Popped
  BY <1>1 DEF SortInv
<1>3. Laid(layers)' = Laid(layers) /\ Popped' = Popped \cup {n}
  BY <1>1 DEF Laid, Popped
<1>4. ASSUME NEW m \in Names
      PROVE  /\ deg'[m] = Cardinality(Waiting(m)')
             /\ deg'[m] \in Nat
             /\ deg[m] = 0 => deg'[m] = 0
             /\ deg[m] # 0 /\ deg'[m] = 0 => m \in Neighbours(n)
  <2>1. /\ IsFiniteSet(Waiting(m)) /\ IsFiniteSet(Edges(n, m))
        /\ IsFiniteSet(Waiting(m)')
    BY FS_Subset DEF GraphInv, Waiting, Edges
  <2>2. Waiting(m)' = Waiting(m) \ Edges(n, m)
    BY <1>3 DEF Waiting, Edges
  <2>3. Waiting(m) \cap Edges(n, m) = Edges(n, m)
    BY <1>2 DEF Waiting, Edges
  <2>4. Cardinality(Waiting(m)') = Cardinality(Waiting(m)) - Cardinality(Edges(n, m))
    BY <2>1, <2>2, <2>3, FS_Difference
  <2>5. /\ deg[m] = Cardinality(Waiting(m)) /\ deg[m] \in Nat
        /\ deg'[m] = deg[m] - Cardinality(Edges(n, m))
    BY <1>1 DEF SortInv, TypeOK
  <2>6. Cardinality(Edges(n, m)) \in Nat /\ Cardinality(Waiting(m)') \in Nat
    BY <2>1, FS_CardinalityType
  <2>7. Cardinality(Edges(n, m)) # 0 => m \in Neighbours(n)
    <3>1. Cardinality(Edges(n, m)) # 0 => Edges(n, m) # {}
      BY FS_EmptySet
    <3>. QED
      BY <3>1 DEF Edges, Neighbours
  <2>. QED
    BY <2>4, <2>5, <2>6, <2>7
<1>5. deg' \in [Names -> Nat]
  BY <1>1, <1>4
<1>. QED
  BY <1>2, <1>3, <1>4, <1>5

\* One turn of the loop over a layer.
LEMMA SortPops ==
    ASSUME TypeOK, GraphInv, SortInv, NEW n \in Names, PopNode(n),
           UNCHANGED <<dagVars, stageVars>>
    PROVE  SortInv'
<1>0. UNCHANGED <<graph, nodes, stages, operators, dependencies>>
  BY DEF dagVars, stageVars
<1>1. /\ n \in now /\ now' = now \ {n} /\ layer' = layer \cup {n} /\ layers' = layers
      /\ next' = next \cup {m \in Neighbours(n) : deg'[m] = 0}
  BY DEF PopNode
<1>2. /\ n \notin Popped /\ Popped' = Popped \cup {n}
      /\ Laid(layers)' = Laid(layers)
      /\ \A m \in Names :
            /\ deg'[m] = Cardinality(Waiting(m)')
            /\ deg[m] = 0 => deg'[m] = 0
            /\ deg[m] # 0 /\ deg'[m] = 0 => m \in Neighbours(n)
  BY <1>0, PopCounts
<1>3. ~DuplicateName' /\ ~DependencyMissing'
  BY <1>0 DEF SortInv, DuplicateName, DependencyMissing, AllOperators
<1>4. \A m, k : Depends(m, k)' = Depends(m, k)
  BY <1>0 DEF Depends
<1>5. ASSUME NEW m \in Neighbours(n)
      PROVE  m \in nodes /\ m \notin Popped' /\ m \notin now /\ Depends(m, n)
  <2>1. m \in nodes /\ Depends(m, n)
    BY DEF Neighbours, Depends, GraphInv
  <2>2. n \notin Laid(layers)
    BY <1>2 DEF Popped
  <2>3. m \notin now \cup layer
    BY <2>1, <2>2 DEF SortInv
  <2>4. m \notin Laid(layers)
    BY <2>1, <2>2 DEF SortInv, Ordered, Laid
  <2>. QED
    BY <1>1, <1>2, <2>1, <2>3, <2>4 DEF Popped
<1>6. \A m \in nodes : (m \notin Popped' /\ deg'[m] = 0) <=> m \in now' \cup next'
  <2>1. SUFFICES ASSUME NEW m \in nodes
                 PROVE  (m \notin Popped' /\ deg'[m] = 0) <=> m \in now' \cup next'
    OBVIOUS
  <2>2. m \in Names /\ n \notin next
    BY <1>1 DEF TypeOK, SortInv
  <2>3. (m \notin Popped /\ deg[m] = 0) <=> m \in now \cup next
    BY DEF SortInv
  <2>4. CASE m \in now \cup next
    BY <1>1, <1>2, <1>5, <2>2, <2>3, <2>4
  <2>5. CASE m \notin now \cup next
    BY <1>1, <1>2, <1>5, <2>2, <2>3, <2>5
  <2>. QED
    BY <2>4, <2>5
<1>7. /\ Popped' \subseteq nodes /\ now' \subseteq nodes /\ next' \subseteq nodes
      /\ now' \cap next' = {} /\ layer' \cap Laid(layers)' = {} /\ layer' # {}
  BY <1>1, <1>2, <1>5 DEF SortInv, Popped
<1>8. Apart(layers)' /\ Ordered(layers)' /\ Early(layers)'
  BY <1>1, <1>4 DEF SortInv, Apart, Ordered, Early
<1>9. /\ \A m \in now' \cup layer' : \A k \in Names :
            Depends(m, k)' => k \in Laid(layers)'
      /\ \A m \in now' \cup layer' :
            Len(layers') > 0 => \E k \in layers'[Len(layers')] : Depends(m, k)'
  BY <1>1, <1>2, <1>4 DEF SortInv
<1>10. \A m \in next' : \E k \in layer' : Depends(m, k)'
  BY <1>1, <1>4, <1>5 DEF SortInv
<1>. QED
  BY <1>0, <1>2, <1>3, <1>6, <1>7, <1>8, <1>9, <1>10 DEF SortInv

\* A layer is closed: what has been queued meanwhile waits for nothing else.
LEMMA SortCloses ==
    ASSUME TypeOK, GraphInv, SortInv, CloseLayer, UNCHANGED <<dagVars, stageVars>>
    PROVE  SortInv' /\ layers' \in Seq(SUBSET Names) /\ Popped' = Popped
<1>. DEFINE k == Len(layers) + 1
<1>0. UNCHANGED <<graph, nodes, stages, operators, dependencies>>
  BY DEF dagVars, stageVars
<1>1. /\ now = {} /\ layer # {} /\ layers' = Append(layers, layer)
      /\ now' = next /\ next' = {} /\ layer' = {} /\ deg' = deg
  BY DEF CloseLayer
<1>2. /\ layers \in Seq(SUBSET Names) /\ layers' \in Seq(SUBSET Names)
      /\ DOMAIN layers = 1 .. Len(layers) /\ Len(layers) \in Nat
      /\ DOMAIN layers' = 1 .. k /\ Len(layers') = k
      /\ \A i \in DOMAIN layers : layers'[i] = layers[i]
      /\ layers'[k] = layer
  BY <1>1 DEF TypeOK
<1>3. Laid(layers)' = Laid(layers) \cup layer
  BY <1>2 DEF Laid
<1>4. Popped' = Popped
  BY <1>1, <1>3 DEF Popped
<1>5. ~DuplicateName' /\ ~DependencyMissing'
  BY <1>0 DEF SortInv, DuplicateName, DependencyMissing, AllOperators
<1>6. \A m, n : Depends(m, n)' = Depends(m, n)
  BY <1>0 DEF Depends
<1>7. \A m \in Names : Waiting(m)' = Waiting(m)
  BY <1>0, <1>4 DEF Waiting
<1>8. Apart(layers)'
  BY <1>2 DEF SortInv, Apart, Laid
<1>9. Ordered(layers)'
  <2>1. SUFFICES ASSUME NEW i \in DOMAIN layers', NEW m \in layers'[i],
                        NEW n \in Names, Depends(m, n)
                 PROVE  \E j \in DOMAIN layers' : j < i /\ n \in layers'[j]
    BY <1>6 DEF Ordered
  <2>2. CASE i \in DOMAIN layers
    BY <1>2, <2>1, <2>2 DEF SortInv, Ordered
  <2>3. CASE i = k
    <3>1. n \in Laid(layers)
      BY <1>2, <2>1, <2>3 DEF SortInv
    <3>2. PICK j \in DOMAIN layers : n \in layers[j]
      BY <3>1 DEF Laid
    <3>. QED
      BY <1>2, <2>3, <3>2
  <2>. QED
    BY <1>2, <2>2, <2>3
<1>10. Early(layers)'
  <2>1. SUFFICES ASSUME NEW i \in DOMAIN layers', NEW m \in layers'[i], i > 1
                 PROVE  \E n \in layers'[i - 1] : Depends(m, n)
    BY <1>6 DEF Early
  <2>2. CASE i \in DOMAIN layers
    BY <1>2, <2>1, <2>2 DEF SortInv, Early
  <2>3. CASE i = k
    BY <1>2, <2>1, <2>3 DEF SortInv
  <2>. QED
    BY <1>2, <2>2, <2>3
<1>11. \A m \in next, n \in Names : Depends(m, n) => n \in Popped
  <2>1. SUFFICES ASSUME NEW m \in next, NEW n \in Names, Depends(m, n), n \notin Popped
                 PROVE  FALSE
    OBVIOUS
  <2>2. m \in nodes /\ m \in Names /\ deg[m] = 0 /\ deg[m] = Cardinality(Waiting(m))
    BY DEF SortInv, TypeOK
  <2>3. IsFiniteSet(Waiting(m))
    BY FS_Subset DEF GraphInv, Waiting
  <2>4. Waiting(m) = {}
    BY <2>2, <2>3, FS_EmptySet
  <2>. QED
    BY <2>1, <2>4 DEF Waiting, Depends
<1>12. \A m \in nodes : (m \notin Popped' /\ deg'[m] = 0) <=> m \in now' \cup next'
  BY <1>1, <1>4 DEF SortInv
<1>13. /\ \A m \in next : \A n \in Names : Depends(m, n) => n \in Laid(layers)'
       /\ \A m \in next : \E n \in layers'[k] : Depends(m, n)
  BY <1>2, <1>3, <1>11 DEF SortInv, Popped
<1>14. Popped' \subseteq nodes /\ now' \subseteq nodes
  BY <1>1, <1>4 DEF SortInv
<1>15. \A m \in Names : deg'[m] = Cardinality(Waiting(m)')
  BY <1>1, <1>7 DEF SortInv
<1>. QED
  BY <1>0, <1>1, <1>2, <1>4, <1>5, <1>6, <1>8, <1>9, <1>10, <1>12, <1>13, <1>14, <1>15
  DEF SortInv

\* The names in layers that are apart are as many as the sum of the layers.
LEMMA LayeredNames ==
    ASSUME TypeOK, Apart(layers)
    PROVE  LayeredCount = Cardinality(Laid(layers))
<1>. DEFINE P == {p \in (DOMAIN layers) \X Names : p[2] \in layers[p[1]]}
            f == [p \in P |-> p[2]]
<1>1. \A i \in DOMAIN layers : layers[i] \subseteq Names
  BY DEF TypeOK
<1>2. IsFiniteSet(Laid(layers))
  <2>1. Laid(layers) \subseteq Names
    BY <1>1 DEF Laid
  <2>. QED
    BY <2>1, NamesAssumption, FS_Subset
<1>3. f \in [P -> Laid(layers)]
  BY DEF Laid
<1>4. \A p, r \in P : f[p] = f[r] => p = r
  BY DEF Apart
<1>5. \A n \in Laid(layers) : \E p \in P : f[p] = n
  <2>1. SUFFICES ASSUME NEW n \in Laid(layers)
                 PROVE  \E p \in P : f[p] = n
    OBVIOUS
  <2>2. PICK i \in DOMAIN layers : n \in layers[i]
    BY DEF Laid
  <2>3. <<i, n>> \in P /\ f[<<i, n>>] = n
    BY <1>1, <2>2
  <2>. QED
    BY <2>3
<1>6. f \in Injection(P, Laid(layers)) /\ f \in Surjection(P, Laid(layers))
  BY <1>3, <1>4, <1>5 DEF Injection, IsInjective, Surjection
<1>. QED
  BY <1>2, <1>6, FS_Injection DEF LayeredCount

\* A sort that has laid out fewer names than there are leaves names that wait
\* for one another.
LEMMA SortStuck ==
    ASSUME TypeOK, GraphInv, StageInv, SortInv, SortOver, SortFindsCycle
    PROVE  Cyclic
<1>. DEFINE S == nodes \ Laid(layers)
<1>1. /\ now = {} /\ layer = {} /\ next = {} /\ Popped = Laid(layers)
  BY DEF SortOver, SortInv, Popped
<1>2. nodes = AllOperators
  BY NodesAreOperators DEF SortInv
<1>3. S # {}
  <2>1. SUFFICES ASSUME S = {}
                 PROVE  FALSE
    OBVIOUS
  <2>2. Laid(layers) = nodes
    BY <1>1, <2>1 DEF SortInv
  <2>. QED
    BY <2>2, LayeredNames DEF SortInv, SortFindsCycle
<1>4. ASSUME NEW m \in S
      PROVE  DependsOn(m) \cap S # {}
  <2>1. m \in Names /\ deg[m] # 0 /\ deg[m] = Cardinality(Waiting(m))
    BY <1>1 DEF SortInv, TypeOK
  <2>2. Waiting(m) # {}
    BY <2>1, FS_EmptySet
  <2>3. PICK e \in graph : e[2] = m /\ e[1] \notin Laid(layers)
    BY <1>1, <2>2 DEF Waiting
  <2>4. e[1] \in nodes /\ e[1] \in Names /\ Depends(m, e[1])
    BY <2>3 DEF GraphInv, TypeOK, Depends
  <2>5. e[1] \in DependsOn(m)
    BY <2>1, <2>4 DEF StageInv
  <2>. QED
    BY <2>3, <2>4, <2>5
<1>. QED
  BY <1>2, <1>3, <1>4 DEF Cyclic

\* A sort that has laid out as many names as there are has laid out them all.
LEMMA SortComplete ==
    ASSUME TypeOK, StageInv, SortInv, ~SortFindsCycle
    PROVE  Laid(layers) = AllOperators /\ nodes = AllOperators
<1>1. nodes = AllOperators
  BY NodesAreOperators DEF SortInv
<1>2. Cardinality(Laid(layers)) = Cardinality(nodes)
  BY LayeredNames DEF SortInv, SortFindsCycle
<1>3. Laid(layers) \subseteq nodes /\ IsFiniteSet(nodes)
  BY NamesAssumption, FS_Subset DEF SortInv, Popped, TypeOK
<1>. QED
  BY <1>1, <1>2, <1>3, FS_Subset

-----------------------------------------------------------------------------
(* Every step *)

\* Nothing has been declared at first.
LEMMA InvInit == Init => IInv
<1>. SUFFICES ASSUME Init
              PROVE  IInv
  OBVIOUS
<1>. USE DEF Init, DagInit, SortIdle, Zero
<1>1. TypeOK
  <2>1. Zero \in [Names -> Nat]
    OBVIOUS
  <2>2. <<>> \in Seq(SUBSET Names)
    OBVIOUS
  <2>3. /\ operators \in [Stages -> SUBSET Names]
        /\ dependencies \in [Stages -> [Names -> SUBSET Names]]
    OBVIOUS
  <2>4. workflow \in [stages : SUBSET Stages, layers : Seq(SUBSET Names)]
    BY <2>2
  <2>5. nodes = {} /\ graph = {} /\ inDegree = Zero /\ deg = Zero
        /\ now = {} /\ next = {} /\ layer = {} /\ layers = <<>>
    OBVIOUS
  <2>. HIDE DEF Zero
  <2>. QED
    BY <2>1, <2>2, <2>3, <2>4, <2>5 DEF TypeOK, Outcomes
<1>2. GraphInv
  <2>1. \A m \in Names : InEdges(m) = {}
    BY DEF InEdges
  <2>. QED
    BY <2>1, FS_EmptySet DEF GraphInv
<1>3. StageInv
  BY DEF StageInv, AllOperators, DependsOn, Depends
<1>. QED
  BY <1>1, <1>2, <1>3 DEF IInv, OutcomeInv

\* The builder's calls and the steps of the sort keep the invariant.
LEMMA InvNext == IInv /\ [Next]_vars => IInv'
<1>. SUFFICES ASSUME IInv, [Next]_vars
              PROVE  IInv'
  OBVIOUS
<1>. USE DEF IInv
<1>1. ASSUME UNCHANGED <<dagVars, stageVars>>
      PROVE  /\ GraphInv' /\ StageInv'
             /\ AllOperators' = AllOperators /\ Cyclic' = Cyclic
             /\ \A L : /\ Apart(L)' = Apart(L) /\ Ordered(L)' = Ordered(L)
                       /\ Early(L)' = Early(L) /\ Laid(L)' = Laid(L)
  <2>1. GraphInv'
    BY <1>1 DEF dagVars, GraphInv, InEdges
  <2>2. \A m, n : Depends(m, n)' = Depends(m, n)
    BY <1>1 DEF dagVars, Depends
  <2>3. AllOperators' = AllOperators /\ \A m : DependsOn(m)' = DependsOn(m)
    BY <1>1 DEF stageVars, AllOperators, DependsOn
  <2>4. StageInv'
    BY <1>1, <2>2, <2>3 DEF dagVars, stageVars, StageInv
  <2>. QED
    BY <2>1, <2>2, <2>3, <2>4 DEF Cyclic, Apart, Ordered, Early, Laid
<1>2. CASE UNCHANGED vars
  <2>1. UNCHANGED <<dagVars, stageVars>> /\ UNCHANGED <<sortVars, building, outcome, workflow>>
    BY <1>2 DEF vars
  <2>2. TypeOK'
    BY <2>1 DEF TypeOK, dagVars, stageVars, sortVars
  <2>3. building' => SortInv'
    BY <2>1 DEF dagVars, stageVars, sortVars, SortInv, DuplicateName, DependencyMissing,
                AllOperators, Laid, Popped, Waiting, Apart, Ordered, Early, Depends
  <2>. QED
    BY <1>1, <2>1, <2>2, <2>3 DEF OutcomeInv
<1>3. ASSUME NEW s \in Stages, Stage(s)
      PROVE  IInv'
  <2>1. StageInv'
    BY <1>3, StageStages
  <2>2. TypeOK' /\ GraphInv' /\ outcome' = "none" /\ ~building'
    BY <1>3 DEF Stage, TypeOK, Outcomes, dagVars, sortVars, GraphInv, InEdges
  <2>. QED
    BY <2>1, <2>2 DEF OutcomeInv
<1>4. ASSUME NEW op \in Names, NEW deps \in DependencyLists, AddOperator(op, deps)
      PROVE  IInv'
  <2>0. /\ AddEdges(op, deps) /\ StageAddOperator(op, deps) /\ current \in Stages
        /\ outcome' = "none" /\ ~building' /\ building' = building
        /\ UNCHANGED <<sortVars, stages, current, workflow>>
    BY <1>4 DEF AddOperator, TypeOK
  <2>1. StageInv'
    BY <1>4, AddOperatorStages
  <2>2. /\ nodes' \subseteq Names
        /\ graph' \subseteq Names \X Names \X Nat
        /\ inDegree' \in [Names -> Nat]
        /\ GraphInv'
    BY <2>0, AddEdgesGraph
  <2>3. /\ operators' \in [Stages -> SUBSET Names]
        /\ dependencies' \in [Stages -> [Names -> SUBSET Names]]
    <3>1. {deps[i] : i \in DOMAIN deps} \subseteq Names
      BY ListType
    <3>. QED
      BY <2>0, <3>1 DEF StageAddOperator, TypeOK
  <2>4. TypeOK'
    BY <2>0, <2>2, <2>3 DEF TypeOK, sortVars, Outcomes
  <2>. QED
    BY <2>0, <2>1, <2>2, <2>4 DEF OutcomeInv
<1>5. CASE BuildRejects
  <2>1. /\ UNCHANGED <<dagVars, stageVars>> /\ UNCHANGED <<sortVars, building, workflow>>
        /\ outcome' \in {"duplicate", "missing"} /\ ~building
    BY <1>5 DEF BuildRejects
  <2>2. TypeOK'
    BY <2>1 DEF TypeOK, dagVars, stageVars, sortVars, Outcomes
  <2>. QED
    BY <1>1, <2>1, <2>2 DEF OutcomeInv
<1>6. CASE BuildSorts
  <2>1. /\ UNCHANGED <<dagVars, stageVars>> /\ workflow' = workflow
        /\ outcome' = "none" /\ building' = TRUE
        /\ next' = {} /\ layer' = {} /\ layers' = <<>>
    BY <1>6 DEF BuildSorts, StartSort
  <2>2. SortInv' /\ deg' \in [Names -> Nat] /\ now' \subseteq Names
    BY <1>6, SortStarts
  <2>3. TypeOK'
    BY <2>1, <2>2 DEF TypeOK, dagVars, stageVars, Outcomes
  <2>. QED
    BY <1>1, <2>1, <2>2, <2>3 DEF OutcomeInv
<1>7. CASE SortStep
  <2>0. /\ building /\ SortInv /\ UNCHANGED <<dagVars, stageVars>>
        /\ UNCHANGED <<building, outcome, workflow>>
    BY <1>7 DEF SortStep
  <2>1. CASE CloseLayer
    <3>1. SortInv' /\ layers' \in Seq(SUBSET Names)
      BY <2>0, <2>1, SortCloses
    <3>2. TypeOK'
      BY <2>0, <2>1, <3>1 DEF TypeOK, dagVars, stageVars, CloseLayer
    <3>. QED
      BY <1>1, <2>0, <3>1, <3>2 DEF OutcomeInv
  <2>2. ASSUME NEW n \in Names, PopNode(n)
        PROVE  IInv'
    <3>1. SortInv'
      BY <2>0, <2>2, SortPops
    <3>2. deg' \in [Names -> Nat]
      BY <2>0, <2>2, PopCounts DEF dagVars
    <3>3. next' \subseteq Names /\ now' \subseteq Names /\ layer' \subseteq Names
          /\ layers' = layers
      BY <2>2 DEF PopNode, Neighbours, TypeOK
    <3>4. TypeOK'
      BY <2>0, <3>2, <3>3 DEF TypeOK, dagVars, stageVars
    <3>. QED
      BY <1>1, <2>0, <3>1, <3>4 DEF OutcomeInv
  <2>. QED
    BY <1>7, <2>1, <2>2 DEF SortStep
<1>8. CASE BuildFails \/ BuildReturns
  <2>0. /\ SortInv /\ SortOver /\ EndSort /\ building' = FALSE
        /\ UNCHANGED <<dagVars, stageVars>>
    BY <1>8 DEF BuildFails, BuildReturns
  <2>1. /\ deg' \in [Names -> Nat] /\ now' \subseteq Names /\ next' \subseteq Names
        /\ layer' \subseteq Names /\ layers' \in Seq(SUBSET Names)
    BY <2>0 DEF EndSort, Zero
  <2>2. CASE BuildFails
    <3>1. outcome' = "cycle" /\ workflow' = workflow /\ Cyclic
      BY <2>0, <2>2, SortStuck DEF BuildFails
    <3>2. TypeOK'
      BY <2>0, <2>1, <3>1 DEF TypeOK, dagVars, stageVars, Outcomes
    <3>. QED
      BY <1>1, <2>0, <3>1, <3>2 DEF OutcomeInv
  <2>3. CASE BuildReturns
    <3>1. Laid(layers) = AllOperators /\ nodes = AllOperators
      BY <2>0, <2>3, SortComplete DEF BuildReturns
    <3>2. outcome' = "built" /\ workflow' = [stages |-> stages, layers |-> layers]
      BY <2>3, <3>1 DEF BuildReturns
    <3>3. TypeOK'
      BY <2>0, <2>1, <3>2 DEF TypeOK, dagVars, stageVars, Outcomes
    <3>4. workflow'.layers = layers
      BY <3>2
    <3>5. OutcomeInv'
      <4>1. Apart(layers) /\ Ordered(layers) /\ Early(layers)
        BY <2>0 DEF SortInv
      <4>. QED
        BY <1>1, <2>0, <3>1, <3>2, <3>4 DEF OutcomeInv, SortInv, Apart, Ordered, Early,
                                            Laid, Depends, dagVars
    <3>. QED
      BY <1>1, <2>0, <3>3, <3>5
  <2>. QED
    BY <1>8, <2>2, <2>3
<1>. QED
  BY <1>2, <1>3, <1>4, <1>5, <1>6, <1>7, <1>8 DEF Next

\* The invariant holds in every reachable state.
LEMMA Invariant == Spec => []IInv
BY InvInit, InvNext, PTL DEF Spec

-----------------------------------------------------------------------------
(* The theorems *)

\* Every variable keeps its type; in particular no count of in_degree falls
\* below zero.
THEOREM TypeCorrect == Spec => []TypeOK
BY Invariant, PTL DEF IInv

\* A plan that build has returned gives every operator one layer, after the
\* layers of all it depends on.
THEOREM PlansRespectDependencies == Spec => []PlanRespectsDependencies
<1>1. IInv => PlanRespectsDependencies
  <2>. SUFFICES ASSUME IInv, outcome = "built"
                PROVE  PlanRespectsDependencies
    BY DEF PlanRespectsDependencies
  <2>. DEFINE L == workflow.layers
  <2>1. /\ Apart(L) /\ Ordered(L) /\ Laid(L) = AllOperators
        /\ DOMAIN L \subseteq Nat /\ AllOperators \subseteq Names
    BY DEF IInv, OutcomeInv, TypeOK, AllOperators
  <2>2. ASSUME NEW op \in AllOperators
        PROVE  Cardinality(LayersOf(op)) = 1
    <3>1. PICK i \in DOMAIN L : op \in L[i]
      BY <2>1 DEF Laid
    <3>2. LayersOf(op) = {i}
      BY <2>1, <3>1 DEF LayersOf, Apart
    <3>. QED
      BY <3>2, FS_Singleton
  <2>3. ASSUME NEW op \in AllOperators, NEW dep \in DependsOn(op),
               NEW i \in LayersOf(op), NEW j \in LayersOf(dep)
        PROVE  j < i
    <3>1. dep \in Names /\ op \in Names
      BY <2>1 DEF IInv, TypeOK, DependsOn
    <3>2. Depends(op, dep)
      BY <3>1 DEF IInv, StageInv
    <3>3. PICK h \in DOMAIN L : h < i /\ dep \in L[h]
      BY <2>1, <3>1, <3>2 DEF Ordered, LayersOf
    <3>4. h = j
      BY <2>1, <3>3 DEF Apart, LayersOf
    <3>. QED
      BY <3>3, <3>4
  <2>. QED
    BY <2>1, <2>2, <2>3 DEF PlanRespectsDependencies, Laid
<1>. QED
  BY <1>1, Invariant, PTL

\* An operator of a returned plan is as early as its dependencies let it.
THEOREM PlansAreEarliest == Spec => []PlanIsEarliest
<1>1. IInv => PlanIsEarliest
  <2>. SUFFICES ASSUME IInv, outcome = "built",
                       NEW i \in DOMAIN workflow.layers, NEW op \in workflow.layers[i],
                       i > 1
                PROVE  \E dep \in DependsOn(op) : dep \in workflow.layers[i - 1]
    BY DEF PlanIsEarliest
  <2>1. workflow.layers \in Seq(SUBSET Names)
    BY DEF IInv, TypeOK
  <2>2. PICK n \in workflow.layers[i - 1] : Depends(op, n)
    BY DEF IInv, OutcomeInv, Early
  <2>3. op \in Names /\ n \in Names
    BY <2>1, <2>2 DEF IInv, TypeOK, Depends
  <2>. QED
    BY <2>2, <2>3 DEF IInv, StageInv
<1>. QED
  BY <1>1, Invariant, PTL

\* A nonempty set of positions in a sequence has a first one.
LEMMA FirstPosition ==
    ASSUME NEW n \in Nat, NEW I \in SUBSET (1 .. n), I # {}
    PROVE  \E i \in I : \A j \in I : i <= j
<1>. DEFINE T == {1 .. i : i \in I}
            R == StrictSubsetOrdering(1 .. n)
<1>1. IsWellFoundedOn(R, FiniteSubsetsOf(1 .. n))
  BY FS_StrictSubsetOrderingWellFounded
<1>2. T \subseteq FiniteSubsetsOf(1 .. n) /\ T # {}
  <2>1. \A i \in I : 1 .. i \subseteq 1 .. n /\ IsFiniteSet(1 .. i)
    BY FS_Interval
  <2>. QED
    BY <2>1 DEF FiniteSubsetsOf
<1>3. PICK K \in T : \A M \in T : ~(<<M, K>> \in R)
  <2>. HIDE DEF R, T
  <2>. QED
    BY <1>1, <1>2, WFMin
<1>4. PICK i \in I : K = 1 .. i
  OBVIOUS
<1>5. ASSUME NEW j \in I, j < i
      PROVE  FALSE
  <2>1. 1 .. j \subseteq 1 .. i /\ 1 .. j # 1 .. i /\ 1 .. j \in T
    <3>1. i \in 1 .. i /\ i \notin 1 .. j
      BY <1>5
    <3>. QED
      BY <1>5, <3>1
  <2>2. <<1 .. j, K>> \in R
    BY <1>4, <2>1 DEF StrictSubsetOrdering
  <2>. QED
    BY <1>3, <2>1, <2>2
<1>6. \A j \in I : i <= j
  BY <1>5
<1>. QED
  BY <1>6

\* build fails with a cycle only if operators wait for one another, returns a
\* plan only if none do, and never looks for an operator that is not there.
THEOREM CyclesAreRefused == Spec => []CyclesRefused
<1>1. ASSUME IInv, outcome = "built", Cyclic
      PROVE  FALSE
  <2>. DEFINE L == workflow.layers
  <2>1. PICK S \in SUBSET AllOperators :
           S # {} /\ \A op \in S : DependsOn(op) \cap S # {}
    BY <1>1 DEF Cyclic
  <2>2. /\ Ordered(L) /\ Laid(L) = AllOperators /\ AllOperators \subseteq Names
        /\ Len(L) \in Nat /\ DOMAIN L = 1 .. Len(L)
    BY <1>1 DEF IInv, OutcomeInv, TypeOK, AllOperators
  <2>. DEFINE I == {i \in 1 .. Len(L) : L[i] \cap S # {}}
  <2>3. I # {}
    BY <2>1, <2>2 DEF Laid
  <2>4. PICK i \in I : \A j \in I : i <= j
    BY <2>2, <2>3, FirstPosition
  <2>5. PICK op \in S : op \in L[i]
    BY <2>4
  <2>6. PICK dep \in S : dep \in DependsOn(op)
    BY <2>1
  <2>7. Depends(op, dep) /\ dep \in Names
    BY <1>1, <2>2, <2>5, <2>6 DEF IInv, StageInv
  <2>8. PICK j \in DOMAIN L : j < i /\ dep \in L[j]
    BY <2>2, <2>5, <2>7 DEF Ordered
  <2>9. j \in I
    BY <2>2, <2>8
  <2>. QED
    BY <2>2, <2>4, <2>8, <2>9
<1>2. IInv => CyclesRefused
  BY <1>1 DEF IInv, OutcomeInv, CyclesRefused
<1>. QED
  BY <1>2, Invariant, PTL

-----------------------------------------------------------------------------
(* The plan is the only one *)

\* What PlanRespectsDependencies and PlanIsEarliest ask, of any plan.
Respects(L) ==
    /\ Laid(L) = AllOperators
    /\ \A i \in DOMAIN L : \A op \in L[i] : \A dep \in DependsOn(op) :
          \E j \in DOMAIN L : j < i /\ dep \in L[j]

Earliest(L) ==
    \A i \in DOMAIN L : \A op \in L[i] :
        i > 1 => \E dep \in DependsOn(op) : dep \in L[i - 1]

\* In plan A, layer m has a name that lies in a higher layer of plan B.
LowerIn(A, B, m) ==
    m \in DOMAIN A /\ \E k \in DOMAIN B : m < k /\ A[m] \cap B[k] # {}

\* What holds such a name back in B lies lower in A, and there is such a name
\* as well.
LEMMA LowerStill ==
    ASSUME NEW K \in Seq(SUBSET Names), NEW L \in Seq(SUBSET Names),
           Respects(K), Earliest(L), NEW m, LowerIn(K, L, m)
    PROVE  \E h \in DOMAIN K : h < m /\ LowerIn(K, L, h)
<1>1. DOMAIN K = 1 .. Len(K) /\ DOMAIN L = 1 .. Len(L) /\ Len(K) \in Nat /\ Len(L) \in Nat
  OBVIOUS
<1>2. PICK k \in DOMAIN L : m \in DOMAIN K /\ m < k /\ K[m] \cap L[k] # {}
  BY DEF LowerIn
<1>3. PICK op : op \in K[m] /\ op \in L[k]
  BY <1>2
<1>4. k > 1 /\ k - 1 \in DOMAIN L
  BY <1>1, <1>2
<1>5. PICK dep \in DependsOn(op) : dep \in L[k - 1]
  BY <1>3, <1>4 DEF Earliest
<1>6. PICK h \in DOMAIN K : h < m /\ dep \in K[h]
  BY <1>2, <1>3, <1>5 DEF Respects
<1>7. h < k - 1 /\ dep \in K[h] \cap L[k - 1]
  BY <1>1, <1>2, <1>5, <1>6
<1>. QED
  BY <1>4, <1>6, <1>7 DEF LowerIn

\* So there is no lowest such layer, and none at all: the two plans agree.
LEMMA NoneLower ==
    ASSUME NEW K \in Seq(SUBSET Names), NEW L \in Seq(SUBSET Names),
           Respects(K), Earliest(L)
    PROVE  \A m : ~LowerIn(K, L, m)
<1>. DEFINE I == {m \in 1 .. Len(K) : LowerIn(K, L, m)}
<1>1. Len(K) \in Nat /\ I \in SUBSET (1 .. Len(K)) /\ DOMAIN K = 1 .. Len(K)
  OBVIOUS
<1>2. \A m : LowerIn(K, L, m) => m \in I
  BY <1>1 DEF LowerIn
<1>3. ASSUME NEW m \in I
      PROVE  \E h \in I : h < m
  BY <1>1, <1>3, LowerStill
<1>4. I = {}
  <2>. HIDE DEF I
  <2>1. ASSUME NEW n \in I, \A m \in I : n <= m
        PROVE  FALSE
    BY <1>1, <1>3, <2>1
  <2>. QED
    BY <1>1, <2>1, FirstPosition
<1>. QED
  BY <1>2, <1>4

LEMMA PlansAgree ==
    ASSUME NEW K \in Seq(SUBSET Names), NEW L \in Seq(SUBSET Names),
           Respects(K), Earliest(K), Respects(L), Earliest(L)
    PROVE  \A op : \A i \in DOMAIN K, j \in DOMAIN L :
              op \in K[i] /\ op \in L[j] => i = j
<1>. SUFFICES ASSUME NEW op, NEW i \in DOMAIN K, NEW j \in DOMAIN L,
                     op \in K[i], op \in L[j], i # j
              PROVE  FALSE
  OBVIOUS
<1>1. i \in Nat /\ j \in Nat
  OBVIOUS
<1>2. LowerIn(K, L, i) \/ LowerIn(L, K, j)
  BY <1>1 DEF LowerIn
<1>3. ~LowerIn(K, L, i)
  BY NoneLower
<1>4. ~LowerIn(L, K, j)
  BY NoneLower
<1>. QED
  BY <1>2, <1>3, <1>4

\* The plan build returns is the only one that respects the dependencies and is
\* as early as it can be: it depends on what was declared and not on the order
\* of the calls, of the stages or of the queue.
PlanIsOnlyOne ==
    outcome = "built" =>
        \A L \in Seq(SUBSET Names) : Respects(L) /\ Earliest(L) =>
            \A op \in AllOperators :
                {i \in DOMAIN L : op \in L[i]} = LayersOf(op)

THEOREM PlansAreUnique == Spec => []PlanIsOnlyOne
<1>1. ASSUME IInv, outcome = "built"
      PROVE  /\ workflow.layers \in Seq(SUBSET Names)
             /\ Respects(workflow.layers) /\ Earliest(workflow.layers)
  <2>. DEFINE W == workflow.layers
  <2>1. W \in Seq(SUBSET Names) /\ Ordered(W) /\ Early(W) /\ Laid(W) = AllOperators
    BY <1>1 DEF IInv, OutcomeInv, TypeOK
  <2>2. AllOperators \subseteq Names /\ \A op \in Names : DependsOn(op) \subseteq Names
    BY <1>1 DEF IInv, TypeOK, AllOperators, DependsOn
  <2>3. \A m, n \in Names : n \in DependsOn(m) <=> Depends(m, n)
    BY <1>1 DEF IInv, StageInv
  <2>4. \A i \in DOMAIN W : W[i] \subseteq Names
    BY <2>1
  <2>5. Respects(W)
    BY <2>1, <2>2, <2>3, <2>4 DEF Respects, Ordered
  <2>6. Earliest(W)
    <3>. SUFFICES ASSUME NEW i \in DOMAIN W, NEW op \in W[i], i > 1
                  PROVE  \E dep \in DependsOn(op) : dep \in W[i - 1]
      BY DEF Earliest
    <3>1. PICK n \in W[i - 1] : Depends(op, n)
      BY <2>1 DEF Early
    <3>2. i - 1 \in DOMAIN W
      BY <2>1
    <3>. QED
      BY <2>3, <2>4, <3>1, <3>2
  <2>. QED
    BY <2>1, <2>5, <2>6
<1>2. ASSUME IInv, outcome = "built", NEW L \in Seq(SUBSET Names),
             Respects(L), Earliest(L), NEW op \in AllOperators
      PROVE  {i \in DOMAIN L : op \in L[i]} = LayersOf(op)
  <2>. DEFINE W == workflow.layers
  <2>1. \A i \in DOMAIN L, j \in LayersOf(op) : op \in L[i] => i = j
    <3>1. W \in Seq(SUBSET Names) /\ Respects(W) /\ Earliest(W)
      BY <1>1, <1>2
    <3>2. \A n : \A i \in DOMAIN L, j \in DOMAIN W : n \in L[i] /\ n \in W[j] => i = j
      <4>. HIDE DEF W
      <4>. QED
        BY <1>2, <3>1, PlansAgree
    <3>. QED
      BY <3>2 DEF LayersOf
  <2>2. PICK i \in DOMAIN L : op \in L[i]
    BY <1>2 DEF Respects, Laid
  <2>3. LayersOf(op) # {}
    BY <1>1, <1>2 DEF Respects, Laid, LayersOf
  <2>. QED
    BY <2>1, <2>2, <2>3 DEF LayersOf
<1>3. IInv => PlanIsOnlyOne
  BY <1>2 DEF PlanIsOnlyOne
<1>. QED
  BY <1>3, Invariant, PTL

-----------------------------------------------------------------------------
(* The sort ends *)

\* What the sort has left to do: names to pop, and a layer to close.
SortLeft == 2 * Cardinality(Names \ Popped) + (IF layer = {} THEN 0 ELSE 1)

\* Every step of the sort leaves it less to do, cycles or not: a name that is
\* popped is never queued again.
SortRunsOut ==
    [][building /\ building' =>
          SortLeft \in Nat /\ SortLeft' \in Nat /\ SortLeft' < SortLeft]_vars

THEOREM SortTakesFinitelyManySteps == Spec => SortRunsOut
<1>1. ASSUME IInv, [Next]_vars, building, building', vars' # vars
      PROVE  SortLeft \in Nat /\ SortLeft' \in Nat /\ SortLeft' < SortLeft
  <2>1. SortStep
    BY <1>1 DEF Next, Stage, AddOperator, BuildRejects, BuildSorts, BuildFails,
                BuildReturns, IInv, TypeOK
  <2>2. TypeOK /\ GraphInv /\ SortInv /\ UNCHANGED <<dagVars, stageVars>>
    BY <1>1, <2>1 DEF IInv, SortStep
  <2>3. \A S : /\ IsFiniteSet(Names \ S) /\ Cardinality(Names \ S) \in Nat
               /\ \A n \in Names \ S :
                     Cardinality(Names \ (S \cup {n})) = Cardinality(Names \ S) - 1
    <3>. TAKE S
    <3>1. IsFiniteSet(Names \ S) /\ Cardinality(Names \ S) \in Nat
      BY NamesAssumption, FS_Subset, FS_CardinalityType
    <3>2. ASSUME NEW n \in Names \ S
          PROVE  Cardinality(Names \ (S \cup {n})) = Cardinality(Names \ S) - 1
      <4>1. Names \ (S \cup {n}) = (Names \ S) \ {n}
        OBVIOUS
      <4>. QED
        BY <3>1, <4>1, FS_RemoveElement
    <3>. QED
      BY <3>1, <3>2
  <2>4. CASE CloseLayer
    <3>1. Popped' = Popped /\ layer # {} /\ layer' = {}
      BY <2>2, <2>4, SortCloses DEF CloseLayer
    <3>2. Cardinality(Names \ Popped) \in Nat
      BY <2>3
    <3>3. Cardinality(Names \ Popped') = Cardinality(Names \ Popped)
      BY <3>1
    <3>. QED
      BY <3>1, <3>2, <3>3 DEF SortLeft
  <2>5. ASSUME NEW n \in Names, PopNode(n)
        PROVE  SortLeft \in Nat /\ SortLeft' \in Nat /\ SortLeft' < SortLeft
    <3>1. n \notin Popped /\ Popped' = Popped \cup {n}
      BY <2>2, <2>5, PopCounts DEF dagVars, stageVars
    <3>2. Cardinality(Names \ Popped') = Cardinality(Names \ Popped) - 1
      <4>1. n \in Names \ Popped
        BY <3>1
      <4>. HIDE DEF Popped
      <4>. QED
        BY <2>3, <3>1, <4>1
    <3>3. Cardinality(Names \ Popped) \in Nat /\ Cardinality(Names \ Popped') \in Nat
      BY <2>3
    <3>. QED
      BY <3>2, <3>3 DEF SortLeft
  <2>. QED
    BY <2>1, <2>4, <2>5 DEF SortStep
<1>2. IInv /\ [Next]_vars =>
        [building /\ building' =>
            SortLeft \in Nat /\ SortLeft' \in Nat /\ SortLeft' < SortLeft]_vars
  BY <1>1
<1>. QED
  BY <1>2, Invariant, PTL DEF Spec, SortRunsOut
=============================================================================
