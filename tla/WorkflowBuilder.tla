--------------------------- MODULE WorkflowBuilder ---------------------------
(***************************************************************************)
(* builders/workflow_builder.py: stages of operators with dependencies,     *)
(* mirrored in a DAG, and build, which checks them and lays the operators   *)
(* out in layers.  The calls are synchronous; a build takes several steps   *)
(* here only because the sort does.                                         *)
(***************************************************************************)
EXTENDS DAG

CONSTANTS Stages,     \* stage names
          NoStage,    \* _current_stage before the first stage
          MaxEdges    \* bound: dependencies declared in all

ASSUME BuilderAssumption ==
    /\ NoStage \notin Stages
    /\ MaxEdges \in Nat

VARIABLES stages,        \* self.stages, by name
          current,       \* self._current_stage
          operators,     \* Stage.operators
          dependencies,  \* Stage.dependencies
          building,      \* is the sort of build under way
          outcome,       \* of the last build, until the builder is used again
          workflow       \* the last Workflow returned: its stages, which are
                         \* the builder's own objects, and execution_layers

stageVars == <<stages, current, operators, dependencies>>

vars == <<dagVars, sortVars, stageVars, building, outcome, workflow>>

AllOperators == UNION {operators[s] : s \in stages}

DependencyLists == {<<>>} \cup {<<n>> : n \in Names} \cup (Names \X Names)

Init ==
    /\ DagInit
    /\ SortIdle
    /\ stages = {}
    /\ current = NoStage
    /\ operators = [s \in Stages |-> {}]
    /\ dependencies = [s \in Stages |-> [n \in Names |-> {}]]
    /\ building = FALSE
    /\ outcome = "none"
    /\ workflow = [stages |-> {}, layers |-> <<>>]

Stage(s) ==
    /\ ~building
    /\ s \notin stages
    /\ stages' = stages \cup {s}
    /\ current' = s
    /\ outcome' = "none"
    /\ UNCHANGED <<dagVars, sortVars, operators, dependencies, building, workflow>>

StageAddOperator(op, deps) ==
    /\ operators' = [operators EXCEPT ![current] = @ \cup {op}]
    /\ dependencies' = IF deps = <<>> THEN dependencies
                       ELSE [dependencies EXCEPT ![current][op] =
                                {deps[i] : i \in DOMAIN deps}]

\* A faulty variant: the DAG is updated before the stage refuses the name.
AddOperatorDagFirst(op, deps) ==
    /\ ~building
    /\ current # NoStage
    /\ Cardinality(graph) + Len(deps) <= MaxEdges
    /\ AddEdges(op, deps)
    /\ IF op \in operators[current] THEN UNCHANGED <<operators, dependencies>>
       ELSE StageAddOperator(op, deps)
    /\ outcome' = "none"
    /\ UNCHANGED <<sortVars, stages, current, building, workflow>>

\* Without a stage, or for a name the stage has, the call raises and changes
\* nothing.
AddOperator(op, deps) ==
    /\ ~building
    /\ current # NoStage
    /\ op \notin operators[current]
    /\ Cardinality(graph) + Len(deps) <= MaxEdges
    /\ StageAddOperator(op, deps)
    /\ AddEdges(op, deps)
    /\ outcome' = "none"
    /\ UNCHANGED <<sortVars, stages, current, building, workflow>>

-----------------------------------------------------------------------------
(* build *)

DuplicateName ==
    \E s, u \in stages : s # u /\ operators[s] \cap operators[u] # {}

DependencyMissing ==
    \E s \in stages : \E op \in Names : ~(dependencies[s][op] \subseteq AllOperators)

BuildRejects ==
    /\ ~building
    /\ DuplicateName \/ DependencyMissing
    /\ outcome' = IF DuplicateName THEN "duplicate" ELSE "missing"
    /\ UNCHANGED <<dagVars, sortVars, stageVars, building, workflow>>

BuildSorts ==
    /\ ~building
    /\ ~DuplicateName
    /\ ~DependencyMissing
    /\ StartSort
    /\ building' = TRUE
    /\ outcome' = "none"
    /\ UNCHANGED <<dagVars, stageVars, workflow>>

SortStep ==
    /\ building
    /\ CloseLayer \/ \E n \in Names : PopNode(n)
    /\ UNCHANGED <<dagVars, stageVars, building, outcome, workflow>>

BuildFails ==
    /\ building
    /\ SortOver
    /\ SortFindsCycle
    /\ EndSort
    /\ building' = FALSE
    /\ outcome' = "cycle"
    /\ UNCHANGED <<dagVars, stageVars, workflow>>

\* all_operators[name] raises for a name that is no operator.
BuildReturns ==
    /\ building
    /\ SortOver
    /\ ~SortFindsCycle
    /\ EndSort
    /\ building' = FALSE
    /\ IF nodes \subseteq AllOperators
       THEN /\ outcome' = "built"
            /\ workflow' = [stages |-> stages, layers |-> layers]
       ELSE /\ outcome' = "KeyError"
            /\ UNCHANGED workflow
    /\ UNCHANGED <<dagVars, stageVars>>

Next ==
    \/ \E s \in Stages : Stage(s)
    \/ \E op \in Names, deps \in DependencyLists : AddOperator(op, deps)
    \/ BuildRejects
    \/ BuildSorts
    \/ SortStep
    \/ BuildFails
    \/ BuildReturns

Spec == Init /\ [][Next]_vars

-----------------------------------------------------------------------------
(* Properties *)

Outcomes == {"none", "duplicate", "missing", "cycle", "KeyError", "built"}

TypeOK ==
    /\ nodes \subseteq Names
    /\ graph \subseteq Names \X Names \X Nat
    /\ inDegree \in [Names -> Nat]
    /\ deg \in [Names -> Nat]
    /\ now \subseteq Names /\ next \subseteq Names /\ layer \subseteq Names
    /\ layers \in Seq(SUBSET Names)
    /\ stages \subseteq Stages
    /\ current \in stages \cup {NoStage}
    /\ operators \in [Stages -> SUBSET Names]
    /\ dependencies \in [Stages -> [Names -> SUBSET Names]]
    /\ building \in BOOLEAN
    /\ outcome \in Outcomes
    /\ workflow \in [stages : SUBSET Stages, layers : Seq(SUBSET Names)]

\* What op was declared to depend on, in whatever stage.
DependsOn(op) == UNION {dependencies[s][op] : s \in stages}

LayersOf(op) == {i \in DOMAIN workflow.layers : op \in workflow.layers[i]}

\* In the workflow a build has returned, every operator of every stage has
\* one layer, and comes after everything it depends on.
PlanRespectsDependencies ==
    outcome = "built" =>
        /\ UNION {workflow.layers[i] : i \in DOMAIN workflow.layers} = AllOperators
        /\ \A op \in AllOperators : Cardinality(LayersOf(op)) = 1
        /\ \A op \in AllOperators : \A dep \in DependsOn(op) :
              \A i \in LayersOf(op), j \in LayersOf(dep) : j < i

\* The plan is as parallel as it can be: an operator that is not in the first
\* layer depends on one in the layer just before its own.
PlanIsEarliest ==
    outcome = "built" =>
        \A i \in DOMAIN workflow.layers : \A op \in workflow.layers[i] :
            i > 1 => \E dep \in DependsOn(op) : dep \in workflow.layers[i - 1]

\* Some operators wait for one another.
Cyclic ==
    \E S \in SUBSET AllOperators :
        S # {} /\ \A op \in S : DependsOn(op) \cap S # {}

\* A build that passed the checks on names fails exactly when no order
\* exists, and finds an operator for every node: the DAG, which add_operator
\* keeps beside the stages, tells the same story as the stages do.
CyclesRefused ==
    /\ outcome = "cycle" => Cyclic
    /\ outcome = "built" => ~Cyclic
    /\ outcome # "KeyError"
=============================================================================
