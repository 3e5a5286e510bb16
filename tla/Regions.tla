------------------------------- MODULE Regions -------------------------------
(***************************************************************************)
(* The hybrid region planner of the legacy compiler (region/): nodes are   *)
(* classified by strategy, cut into regions along one topological order,   *)
(* the boundaries and dependencies of the regions derived, the plan        *)
(* verified, and a program emitted that calls the regions in turn.         *)
(***************************************************************************)
EXTENDS LegacyGraph

(***************************************************************************)
(* StrategyClassification                                                  *)
(***************************************************************************)
\* shapeKnowledge: an empty shape is a scalar's only for a constant.
Knowledge(node) ==
    IF node.shape = <<>> THEN IF node.op = "Constant" THEN "static" ELSE "unknown"
    ELSE IF -1 \in Range(node.shape) THEN "dynamic" ELSE "static"

Strategy(node) ==
    CASE node.op \in {"Input", "Output", "Transfer", "Softmax"} -> "fallback"
      [] node.op = "Constant" -> "aot"
      [] Knowledge(node) = "static" -> "aot"
      [] Knowledge(node) = "dynamic" -> "jit"
      [] OTHER -> "fallback"

\* Dimensions are positive or -1, and a constant has none of -1.
Classifiable(g) ==
    \A n \in DOMAIN g.node :
        /\ \A d \in Range(g.node[n].shape) : d = -1 \/ d > 0
        /\ g.node[n].op = "Constant" => Knowledge(g.node[n]) # "dynamic"

(***************************************************************************)
(* TopologicalRegionFormer, RegionGraph                                    *)
(***************************************************************************)
\* Kahn's order; among the nodes that are ready, the one stored first.
RECURSIVE Topological(_, _)
Topological(g, done) ==
    LET ready == SelectSeq(g.order, LAMBDA n : n \notin Range(done) /\ Range(g.node[n].ins) \subseteq Range(done))
    IN IF ready = <<>> THEN done ELSE Topological(g, Append(done, ready[1]))

\* Mutant of Joins: a node joins the region before it whatever its strategy is.
JoinsAnyStrategy(g, regions, n) ==
    regions # <<>> /\ \E m \in Range(g.node[n].ins) : m \in Range(Last(regions).nodes)

\* A node joins the region before it when it reads from it and has its strategy.
Joins(g, regions, n) ==
    /\ regions # <<>> /\ Last(regions).strategy = Strategy(g.node[n])
    /\ \E m \in Range(g.node[n].ins) : m \in Range(Last(regions).nodes)

Cut(g) ==
    FoldLeft(LAMBDA regions, n :
                IF Joins(g, regions, n) THEN [regions EXCEPT ![Len(regions)].nodes = Append(@, n)]
                ELSE Append(regions, [strategy |-> Strategy(g.node[n]), nodes |-> <<n>>]),
             <<>>, Topological(g, <<>>))

Distinct(s) == FoldLeft(LAMBDA t, x : IF x \in Range(t) THEN t ELSE Append(t, x), <<>>, s)

\* RegionGraph::finalize: what a region reads from others, in the order of its first use;
\* what others read of it, or the program returns; and which region reads from which.
RegionInputs(g, region) ==
    Distinct(SelectSeq(FlattenSeq([k \in DOMAIN region.nodes |-> g.node[region.nodes[k]].ins]),
                       LAMBDA n : n \notin Range(region.nodes)))
RegionOutputs(g, region) ==
    SelectSeq(region.nodes, LAMBDA n : \/ g.node[n].op = "Output"
                                       \/ \E m \in Range(g.node[n].outs) : m \notin Range(region.nodes))
Finalized(g, regions) ==
    [k \in DOMAIN regions |-> [strategy |-> regions[k].strategy, nodes |-> regions[k].nodes,
                               inputs |-> RegionInputs(g, regions[k]),
                               outputs |-> RegionOutputs(g, regions[k])]]
Dependencies(plan) ==
    {d \in (DOMAIN plan) \X (DOMAIN plan) :
        d[1] # d[2] /\ \E n \in Range(plan[d[2]].inputs) : n \in Range(plan[d[1]].nodes)}

Plan(g) == Finalized(g, Cut(g))

(***************************************************************************)
(* RegionVerifier, RegionPlanVerifier, and the emitter's own checks        *)
(***************************************************************************)
\* The order in which regions run: the lowest numbered of those whose sources have run.
RECURSIVE RegionOrder(_, _)
RegionOrder(plan, done) ==
    LET ready == {k \in DOMAIN plan \ Range(done) :
                    \A d \in Dependencies(plan) : d[2] = k => d[1] \in Range(done)}
    IN IF ready = {} THEN done
       ELSE RegionOrder(plan, Append(done, CHOOSE k \in ready : \A j \in ready : k <= j))

Before(s, x, y) == \E i, j \in DOMAIN s : i < j /\ s[i] = x /\ s[j] = y

\* RG003 to RG010: every node of the graph is in one region, once, and no region is empty.
MembershipVerified(g, plan) ==
    /\ \A n \in DOMAIN g.node : Cardinality({k \in DOMAIN plan : n \in Range(plan[k].nodes)}) = 1
    /\ \A k \in DOMAIN plan :
        /\ plan[k].nodes # <<>> /\ Range(plan[k].nodes) \subseteq DOMAIN g.node
        /\ Len(plan[k].nodes) = Cardinality(Range(plan[k].nodes))

\* RG011: within a region, producers come before their readers.
OrderVerified(g, plan) ==
    \A k \in DOMAIN plan : \A n \in Range(plan[k].nodes) :
        \A m \in Range(g.node[n].ins) \cap Range(plan[k].nodes) : Before(plan[k].nodes, m, n)

\* RG012, RG013: the boundaries derived once more, from the region of every node.
Membership(g, plan) == [n \in DOMAIN g.node |-> CHOOSE k \in DOMAIN plan : n \in Range(plan[k].nodes)]
ExpectedInputs(g, plan, k) ==
    {m \in DOMAIN g.node : /\ Membership(g, plan)[m] # k
                           /\ \E n \in Range(plan[k].nodes) : m \in Range(g.node[n].ins)}
ExpectedOutputs(g, plan, k) ==
    {n \in Range(plan[k].nodes) : \/ g.node[n].op = "Output"
                                  \/ \E m \in Range(g.node[n].outs) : Membership(g, plan)[m] # k}
BoundariesVerified(g, plan) ==
    \A k \in DOMAIN plan : /\ Range(plan[k].inputs) = ExpectedInputs(g, plan, k)
                            /\ Range(plan[k].outputs) = ExpectedOutputs(g, plan, k)

\* RG014 to RG021: a dependency carries values its destination reads, is derived from the
\* operands, and the dependencies have an order.
DependenciesVerified(g, plan) ==
    /\ Dependencies(plan) = {<<Membership(g, plan)[e[1]], Membership(g, plan)[e[2]]>> : e \in g.edges}
                            \ {<<k, k>> : k \in DOMAIN plan}
    /\ Len(RegionOrder(plan, <<>>)) = Len(plan)

\* RP007 to RP014: the decisions replayed, and the regions they form.
Replayed(g, plan) ==
    /\ \A k \in DOMAIN plan : \A n \in Range(plan[k].nodes) : Strategy(g.node[n]) = plan[k].strategy
    /\ plan = Plan(g)

PlanVerified(g, plan) ==
    /\ MembershipVerified(g, plan) /\ OrderVerified(g, plan) /\ BoundariesVerified(g, plan)
    /\ DependenciesVerified(g, plan) /\ Replayed(g, plan)

\* RPE003, RPE004, RPE006 to RPE008.
Emittable(g, plan) ==
    LET order == RegionOrder(plan, <<>>)
        available(k) == UNION {Range(plan[order[j]].outputs) : j \in 1..(k - 1)}
    IN /\ ArityHolds(g)
       /\ \A n \in DOMAIN g.node : g.node[n].op = "Reshape" =>
            Cardinality({i \in DOMAIN g.node[n].shape : g.node[n].shape[i] = -1}) <= 1
       /\ \A k \in DOMAIN order :
            LET r == plan[order[k]] IN
            /\ Range(r.inputs) \subseteq available(k)
            /\ Range(r.outputs) \subseteq Range(r.inputs) \cup Range(r.nodes)
            /\ \A i \in DOMAIN r.nodes : Range(g.node[r.nodes[i]].ins)
                    \subseteq Range(r.inputs) \cup {r.nodes[j] : j \in 1..(i - 1)}

(***************************************************************************)
(* The emitted program, run                                                *)
(***************************************************************************)
\* _region_<k>: its nodes in order, from the values it is passed; it returns its outputs.
RunRegion(g, region, values, in) ==
    LET step(local, n) ==
            (n :> IF g.node[n].op = "Input"
                  THEN [shape |-> ResultShape("Input", g.node[n].shape, <<>>), data |-> in[g.node[n].name]]
                  ELSE Apply(g.node[n].op, g.node[n].shape, g.node[n].attr,
                             [i \in DOMAIN g.node[n].ins |-> local[g.node[n].ins[i]]])) @@ local
        local == FoldLeft(step, [n \in Range(region.inputs) |-> values[n]], region.nodes)
    IN [n \in Range(region.outputs) |-> local[n]] @@ values

\* run_region_plan: the outputs by name.
RunPlan(g, plan, in) ==
    LET values == FoldLeft(LAMBDA v, k : RunRegion(g, plan[k], v, in), <<>>, RegionOrder(plan, <<>>))
        outputs == {n \in DOMAIN g.node : g.node[n].op = "Output"}
    IN [name \in {g.node[n].name : n \in outputs} |-> values[CHOOSE n \in outputs : g.node[n].name = name]]
=============================================================================
