--------------------------- MODULE LegacyCompiler ----------------------------
(***************************************************************************)
(* The legacy compiler from modules to a region plan (main.cpp,            *)
(* prepareGraph and runPlanning): link, verify, canonicalize, fold,        *)
(* rewrite, fuse, eliminate, verify, infer shapes, plan, emit.  One step   *)
(* is one import, one pass, or one round of a pass that has rounds.        *)
(***************************************************************************)
EXTENDS ModuleLinker, Regions

CONSTANTS
    Programs,    \* the programs compiled, in families
    Samples      \* the numbers given to the inputs of a program

VARIABLES
    program,
    phase,
    visit,       \* the modules visited
    lowering,    \* the graph being lowered
    graph,       \* the graph being optimised
    plan         \* the regions, once planned

vars == <<program, phase, visit, lowering, graph, plan>>

Init ==
    /\ \E family \in Range(Programs) : program \in family
    /\ phase = "visiting"
    /\ visit = StartVisit /\ lowering = StartLowering
    /\ graph = EmptyGraph /\ plan = <<>>

Stop(why) == phase' = why /\ UNCHANGED <<program, visit, lowering, graph, plan>>

VisitImport ==
    /\ phase = "visiting" /\ Visiting(visit)
    /\ visit' = VisitStep(program, visit)
    /\ UNCHANGED <<program, phase, lowering, graph, plan>>

\* Every stage of the linker runs only when those before it had nothing to report.
Validate ==
    /\ phase = "visiting" /\ ~Visiting(visit)
    /\ IF visit.ok /\ Validated(program, visit) /\ ~CallsCycle(program, visit)
       THEN phase' = "lowering" /\ UNCHANGED <<program, visit, lowering, graph, plan>>
       ELSE Stop("unlinked")

Lower ==
    /\ phase = "lowering" /\ lowering = StartLowering
    /\ lowering' = FoldLeft(LAMBDA acc, m : LowerModule(program, visit, acc, m), lowering, visit.order)
    /\ UNCHANGED <<program, phase, visit, graph, plan>>

\* The linked graph is verified and canonicalized.
Canonicalize ==
    /\ phase = "lowering" /\ lowering # StartLowering
    /\ IF lowering.ok /\ Verified(lowering.graph)
       THEN LET node == lowering.graph.node
                commutative == {n \in DOMAIN node : node[n].op \in {"Add", "Multiply"}} IN
            /\ \E swapped \in SUBSET commutative : graph' = Canonicalized(lowering.graph, swapped)
            /\ phase' = "folding" /\ UNCHANGED <<program, visit, lowering, plan>>
       ELSE Stop(IF lowering.ok THEN "rejected" ELSE "unlinked")

\* Every node the graph had, in order; a node that is folded away has no later turn.
Fold ==
    /\ phase = "folding" /\ graph' = FoldLeft(FoldAt, graph, graph.order)
    /\ phase' = IF graph'.failed THEN "threw" ELSE "rewriting"
    /\ UNCHANGED <<program, visit, lowering, plan>>

\* The first node of the graph that matches is rewritten and the round starts again; a
\* graph that is no longer valid is an exception.
Rewrite ==
    /\ phase = "rewriting"
    /\ LET matches == SelectSeq(graph.order, LAMBDA n : DoubleRelu(graph, n)) IN
        IF matches = <<>> THEN phase' = "fusing" /\ UNCHANGED graph
        ELSE /\ graph' = RewriteAt(graph, matches[1])
             /\ phase' = IF ~graph'.failed /\ Verified(graph') THEN phase ELSE "threw"
    /\ UNCHANGED <<program, visit, lowering, plan>>

\* Every node the graph had, a fused ReLU excepted.
Fuse ==
    /\ phase = "fusing"
    /\ graph' = FoldLeft(LAMBDA g, n : IF Fusible(g, n) THEN FuseAt(g, n) ELSE g, graph, graph.order)
    /\ phase' = IF graph'.failed THEN "threw" ELSE "eliminating"
    /\ UNCHANGED <<program, visit, lowering, plan>>

Eliminate ==
    /\ phase = "eliminating"
    /\ IF Dead(graph) = <<>> THEN phase' = "inferring" /\ UNCHANGED graph
       ELSE graph' = DropDead(graph) /\ UNCHANGED phase
    /\ UNCHANGED <<program, visit, lowering, plan>>

\* The second verification, and the shapes.
Infer ==
    /\ phase = "inferring"
    /\ IF ~Verified(graph) THEN phase' = "threw" /\ UNCHANGED graph
       ELSE LET inferred == Inferred(graph) IN
            graph' = inferred.graph /\ phase' = IF inferred.ok THEN "planning" ELSE "rejected"
    /\ UNCHANGED <<program, visit, lowering, plan>>

PlanRegions ==
    /\ phase = "planning"
    /\ IF Classifiable(graph)
       THEN plan' = Plan(graph) /\ phase' = IF PlanVerified(graph, Plan(graph)) THEN "planned" ELSE "misplanned"
       ELSE phase' = "rejected" /\ UNCHANGED plan
    /\ UNCHANGED <<program, visit, lowering, graph>>

Next ==
    \/ VisitImport \/ Validate \/ Lower \/ Canonicalize \/ Fold \/ Rewrite \/ Fuse \/ Eliminate
    \/ Infer \/ PlanRegions

Spec == Init /\ [][Next]_vars

-----------------------------------------------------------------------------
Outputs(p) == {s \in Range(p[Entry].statements) : s.op = "Output"}
InputNames(p) == {NodeName(Entry, 0, s) : s \in {t \in Range(p[Entry].statements) : t.op = "Input"}}
OutputMeaning(s, in) == ValueMeans(program, Entry, s.name, in)

\* From the end of linking to the last pass, the graph computes at every output what the
\* source says, functions called by value and imports looked up by name.  A program whose
\* shapes do not fit means nothing.
GraphMeansSource ==
    phase \in {"folding", "rewriting", "fusing", "eliminating", "inferring", "planning", "planned"} =>
        \A sample \in Samples : \A s \in Outputs(program) :
            LET in == [x \in InputNames(program) |-> sample]
                meaning == OutputMeaning(s, in)
                nodes == {n \in DOMAIN graph.node : graph.node[n].name = NodeName(Entry, 0, s)}
            IN /\ Cardinality(nodes) = 1
               /\ meaning.shape # Bad => \A n \in nodes : Values(graph, in)[n] = meaning

\* No pass throws, and whatever a pass has just done, the two adjacency lists and the edges
\* tell the same story, no list names a node twice, and operands are as many as the operation
\* takes and stored before their reader (shape inference relies on it).
GraphStaysConsistent ==
    /\ phase # "threw"
    /\ phase \notin {"visiting", "lowering", "unlinked", "rejected"} =>
        /\ Verified(graph) /\ Range(graph.order) = DOMAIN graph.node
        /\ \A n \in DOMAIN graph.node : IsInjective(graph.node[n].ins) /\ IsInjective(graph.node[n].outs)
        /\ \A e \in graph.edges : Before(graph.order, e[1], e[2])

\* A graph that can be classified is planned and emitted without complaint, and the
\* regions, run in the order the emitted program calls them and given only what it passes
\* them, return what the source means.
PlanRunsTheSource ==
    /\ phase # "misplanned"
    /\ phase = "planned" =>
        /\ Emittable(graph, plan)
        /\ \A sample \in Samples :
            LET in == [x \in InputNames(program) |-> sample] IN
            \A s \in Outputs(program) :
                OutputMeaning(s, in).shape # Bad =>
                    RunPlan(graph, plan, in)[NodeName(Entry, 0, s)] = OutputMeaning(s, in)

(***************************************************************************)
(* Which programs are well formed, by closure instead of by traversal      *)
(***************************************************************************)
Closure(R, S) ==
    LET path[n \in 0..Cardinality(S)] ==
            IF n = 0 THEN R ELSE path[n - 1] \cup
                {e \in S \X S : \E m \in S : <<e[1], m>> \in path[n - 1] /\ <<m, e[2]>> \in R}
    IN path[Cardinality(S)]

Imports(p) == {e \in (DOMAIN p) \X (DOMAIN p) : \E i \in Range(p[e[1]].imports) : i[2] = e[2]}
Reached(p) == {Entry} \cup {m \in DOMAIN p : <<Entry, m>> \in Closure(Imports(p), DOMAIN p)}

\* The calls in a module's functions, each with its caller.
FunctionNames(p) == UNION {{<<m, f.name>> : f \in Range(p[m].functions)} : m \in DOMAIN p}
CalleesIn(f) == {s.callee : s \in {t \in Range(f.locals) : IsCall(t)}}
Calls(p) ==
    UNION {UNION {{<<<<m, f.name>>, <<SourceTargets(p, m, r), r[2]>>>> : r \in CalleesIn(f)}
                    : f \in Range(p[m].functions)} : m \in Reached(p)}

\* A reference finds its name in its own module, or exported by an imported one.
Found(p, m, r, Names(_, _)) ==
    IF r[1] = "" THEN r[2] \in Names(m, FALSE)
    ELSE \E i \in Range(p[m].imports) : i[1] = r[1] /\ r[2] \in Names(i[2], TRUE)

WellLinked(p) ==
    LET Named(s, exported) == {x.name : x \in {y \in Range(s) : exported => y.exported}}
        Assigned(m, exported) == Named(p[m].statements, exported)
        Bodies(m, exported) == Named(p[m].functions, exported)
        CallsOf(m) == {s.callee : s \in {t \in Range(p[m].statements) : IsCall(t)}}
                      \cup UNION {CalleesIn(f) : f \in Range(p[m].functions)}
    IN /\ \A m \in Reached(p) :
            /\ p[m].parses /\ <<m, m>> \notin Closure(Imports(p), DOMAIN p)
            /\ \A i, j \in Range(p[m].imports) : i[1] = j[1] <=> i[2] = j[2]
            /\ \A r \in UNION {Range(s.args) : s \in Range(p[m].statements)} : Found(p, m, r, Assigned)
            /\ \A r \in CallsOf(m) : Found(p, m, r, Bodies)
       /\ \A f \in FunctionNames(p) : <<f, f>> \notin Closure(Calls(p), FunctionNames(p))

\* The linker accepts exactly the well linked programs, in whatever order it meets modules
\* and functions: a module imported twice is no cycle, nor is a function called twice.
LinksTheWellLinked ==
    /\ phase \in {"folding", "rejected"} => WellLinked(program)
    /\ phase = "unlinked" => ~WellLinked(program)
=============================================================================
