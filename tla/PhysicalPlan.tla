---------------------------- MODULE PhysicalPlan ----------------------------
(***************************************************************************)
(* Physical memory planning and fusion of one TensorRegion, and the order  *)
(* in which the native backends consume the plan.                          *)
(*                                                                         *)
(* A region is extracted node by node (TensorRegion.cpp), then grouped and *)
(* assigned to slots (PhysicalPlan.cpp), verified, and walked by a backend *)
(* (NativeCpu.cpp emits the walk, NativeGpu.cpp runs it).  A node's id is  *)
(* its position; scalar nodes other than Index results are left out.  What *)
(* a slot holds is named by the node whose value it is, Garbage otherwise. *)
(***************************************************************************)
EXTENDS Integers, Sequences, FiniteSets

CONSTANTS
    OpNodes,     \* bound: the operations, with the size of the regions each occurs in
    ShapeNodes,  \* bound: the same for dtype, rank and extents, as one class;
                 \* "zero" has no bytes
    Devices,     \* subset of {"host", "gpu"}
    OptionSets,  \* PhysicalPlanOptions to plan with
    MaxProtected, \* bound: values with an obligation or a barrier
    BarrierNodes, \* bound: nodes of a region with fusion barriers
    Obliged(_, _, _) \* bound: a region, device and options with planning obligations

AllOps == {"Input", "TensorLiteral", "Alias", "Copy", "Elementwise", "Extension", "Index"}

Ops == DOMAIN OpNodes
Shapes == DOMAIN ShapeNodes

ASSUME RegionAssumption ==
    /\ Ops \subseteq AllOps /\ OpNodes \in [Ops -> Nat] /\ ShapeNodes \in [Shapes -> Nat]
    /\ MaxProtected \in Nat /\ BarrierNodes \in Nat
ASSUME DeviceAssumption == Devices \subseteq {"host", "gpu"}
ASSUME OptionAssumption == OptionSets \subseteq [reuse : BOOLEAN, fusion : BOOLEAN]

VARIABLES
    phase,     \* extract, fuse, assign, verify, execute, then done, rejected
               \* or unsupported
    nodes,     \* TensorRegion::nodes
    output,    \* TensorRegion::output
    device, options, protected, barriers, \* the planner's other inputs
    pos,       \* the node the current pass is at
    groups,    \* PhysicalPlan::fusionGroups, each the sequence of its nodes
    slots,     \* PhysicalPlan::slots
    slotOf,    \* PhysicalValuePlan::slot of each node, 0 for none
    contents,  \* what each slot's memory holds during execution
    available  \* values the backend has produced so far

region == <<nodes, output, device, options, protected, barriers>>
plan == <<groups, slots, slotOf>>
memory == <<contents, available>>
vars == <<phase, pos, region, plan, memory>>

Garbage == 0
Ids == 1..Len(nodes)

(***************************************************************************)
(* Facts about the region.                                                 *)
(***************************************************************************)
Deps(v) == nodes[v].deps
Tensor(v) == nodes[v].op # "Index"
Zero(v) == nodes[v].shape = "zero"
Elementwise(v) == nodes[v].op \in {"Elementwise", "Extension"}
Fusible(v) == nodes[v].op # "Extension"
KernelOp(v) == Elementwise(v) \/ nodes[v].op = "Index"

\* canonicalAlias: the physical root of a value.
Root(v) == nodes[v].root

ReadsRoot(v, r) == {i \in DOMAIN Deps(v) : Root(Deps(v)[i]) = r}

\* Operands of nodes other than aliases that denote r, with multiplicity.
FusionUses(r) ==
    {u \in Ids \X (1..2) : nodes[u[1]].op # "Alias" /\ u[2] \in ReadsRoot(u[1], r)}

ProtectedRoot(r) == \E v \in Ids : Root(v) = r /\ v \in protected \cup barriers

\* Mutant of Retained: obligations other than the region output are forgotten.
RetainedOutputOnly(r) == \E v \in Ids : Root(v) = r /\ v = output

Retained(r) == \E v \in Ids : Root(v) = r /\ (v = output \/ v \in protected)

\* requiredLifetime: inclusive positions; a retained root lives past the last node.
LastObligation(r) ==
    IF Retained(r) THEN Len(nodes) + 1
    ELSE CHOOSE k \in {r} \cup {v \in Ids : ReadsRoot(v, r) # {}} :
            \A v \in Ids : ReadsRoot(v, r) # {} => v <= k

\* Mutant of Overlaps: half-open intervals, an operation may reuse its operand.
OverlapsHalfOpen(r, s) == ~(LastObligation(r) <= s \/ LastObligation(s) <= r)

Overlaps(r, s) == ~(LastObligation(r) < s \/ LastObligation(s) < r)

-----------------------------------------------------------------------------
Init ==
    /\ phase = "extract"
    /\ nodes = <<>> /\ output = 0
    /\ device = "none" /\ options = [reuse |-> FALSE, fusion |-> FALSE]
    /\ protected = {} /\ barriers = {}
    /\ pos = 1
    /\ groups = <<>> /\ slots = <<>> /\ slotOf = <<>>
    /\ contents = <<>> /\ available = {}

(***************************************************************************)
(* extractStrictRegion: parameters become the leading Input nodes, each    *)
(* instruction one node over earlier tensor values; elementwise operands   *)
(* agree in shape (their order plays no part in planning).  verifyRegion   *)
(* re-checks what these guards establish.                                  *)
(***************************************************************************)
Operands(op) ==
    LET values == {v \in Ids : Tensor(v)} IN
    CASE op \in {"Input", "TensorLiteral"} -> {<<>>}
      [] op \in {"Alias", "Copy", "Index"} -> {<<v>> : v \in values}
      [] OTHER -> {<<v>> : v \in values} \cup
                  {d \in values \X values : d[1] <= d[2] /\ nodes[d[1]].shape = nodes[d[2]].shape}

\* roots(): an alias shares the root of its source, any other value is its own.  The view roots
\* a caller may declare (`viewRoots`) are left out: no backend declares any.
RootOf(op, deps) == IF op = "Alias" THEN nodes[deps[1]].root ELSE Len(nodes) + 1

Extract ==
    /\ phase = "extract"
    /\ \A v \in Ids : Len(nodes) < OpNodes[nodes[v].op] /\ Len(nodes) < ShapeNodes[nodes[v].shape]
    /\ \E op \in Ops : \E deps \in Operands(op) : \E shape \in Shapes :
        /\ Len(nodes) < OpNodes[op] /\ Len(nodes) < ShapeNodes[shape]
        /\ op = "Input" => \A v \in Ids : nodes[v].op = "Input"
        /\ deps # <<>> => shape = nodes[deps[1]].shape
        /\ nodes' = Append(nodes, [op |-> op, deps |-> deps, shape |-> shape,
                                   root |-> RootOf(op, deps)])
    /\ UNCHANGED <<phase, pos, output, device, options, protected, barriers, plan, memory>>

Protections == {p \in SUBSET Ids : Cardinality(p) <= MaxProtected}
Unprotected == {{}}

\* The returned expression is evaluated last and is the region's output.  The caller
\* picks device and options, and names obligations and fusion barriers.
StartPlanning ==
    /\ phase = "extract" /\ nodes # <<>>
    /\ output' = Len(nodes)
    /\ device' \in Devices /\ options' \in OptionSets
    /\ protected' \in IF Obliged(nodes, device', options') THEN Protections ELSE Unprotected
    /\ barriers' \in IF Len(nodes) <= BarrierNodes THEN Protections ELSE Unprotected
    /\ Cardinality(protected' \cup barriers') <= MaxProtected
    /\ phase' = "fuse"
    /\ slotOf' = [v \in Ids |-> 0]
    /\ UNCHANGED <<pos, nodes, groups, slots, memory>>

NextNode(next) ==
    IF pos = Len(nodes) THEN phase' = next /\ pos' = 1
    ELSE pos' = pos + 1 /\ UNCHANGED phase

(***************************************************************************)
(* makeFusionGroups, one node per step.                                    *)
(***************************************************************************)
Last(s) == s[Len(s)]

OneConsumer(tail, v) == {u[1] : u \in FusionUses(tail)} = {v}

\* Mutant of SingleUse: a diamond through two operands of one node fuses too, and so
\* does a value that another node reads.
SingleUseUnchecked(tail, v) == ReadsRoot(v, tail) # {}

SingleUse(tail, v) == OneConsumer(tail, v) /\ Cardinality(FusionUses(tail)) = 1

\* Mutant of OperandsReady: operands are not compared with the group's first node.
OperandsAssumedReady(v, tail, front) == TRUE

\* No operand but the tail is materialised after the group begins.
OperandsReady(v, tail, front) ==
    \A i \in DOMAIN Deps(v) : Root(Deps(v)[i]) # tail => Root(Deps(v)[i]) <= front

Extends(v, group) ==
    LET tail == Last(group) IN
    /\ options.fusion
    /\ Elementwise(v) /\ Fusible(v) /\ Elementwise(tail) /\ Fusible(tail)
    /\ ~ProtectedRoot(v) /\ ~ProtectedRoot(tail) /\ Root(output) # tail
    /\ nodes[tail].shape = nodes[v].shape
    /\ SingleUse(tail, v) /\ OperandsReady(v, tail, group[1])

Fuse ==
    /\ phase = "fuse"
    /\ groups' = IF ~KernelOp(pos) THEN groups
                 ELSE IF groups # <<>> /\ Extends(pos, Last(groups))
                 THEN [groups EXCEPT ![Len(groups)] = Append(@, pos)]
                 ELSE Append(groups, <<pos>>)
    /\ NextNode("assign")
    /\ UNCHANGED <<region, slots, slotOf, memory>>

GroupOf(v) == CHOOSE g \in {groups[i] : i \in DOMAIN groups} : v \in {g[i] : i \in DOMAIN g}

FusedIntermediate(v) ==
    \E i \in DOMAIN groups : \E j \in 1..(Len(groups[i]) - 1) : groups[i][j] = v

(***************************************************************************)
(* Slot assignment, one node per step: the first compatible slot, or a new *)
(* one.  Aliases take the slot of their root.                              *)
(***************************************************************************)
Materialized(v) == ~FusedIntermediate(Root(v))

Reusable(r) ==
    /\ options.reuse /\ Materialized(r) /\ ~Zero(r)
    /\ nodes[r].op # "Input" /\ ~Retained(r)

\* Mutant of Compatible: the candidate's own reusability is not asked.
CompatibleAnySlot(s, r) ==
    slots[s].shape = nodes[r].shape /\ \A q \in slots[s].roots : ~Overlaps(q, r)

Compatible(s, r) ==
    /\ slots[s].reusable /\ slots[s].shape = nodes[r].shape
    /\ \A q \in slots[s].roots : ~Overlaps(q, r)

NewSlot == Len(slots) + 1

NeedsSlot(r) == Tensor(r) /\ Root(r) = r /\ Materialized(r) /\ ~Zero(r)

Assign ==
    LET candidates == {s \in DOMAIN slots : Reusable(pos) /\ Compatible(s, pos)}
        chosen == IF candidates = {} THEN NewSlot
                  ELSE CHOOSE s \in candidates : \A t \in candidates : s <= t
    IN
    /\ phase = "assign"
    /\ IF NeedsSlot(pos)
       THEN /\ slotOf' = [v \in Ids |-> IF Tensor(v) /\ Root(v) = pos THEN chosen
                                        ELSE slotOf[v]]
            /\ slots' = IF candidates = {}
                        THEN Append(slots, [shape |-> nodes[pos].shape, roots |-> {pos},
                                            external |-> nodes[pos].op = "Input",
                                            reusable |-> Reusable(pos)])
                        ELSE [slots EXCEPT ![chosen].roots = @ \cup {pos}]
       ELSE UNCHANGED <<slots, slotOf>>
    /\ NextNode("verify")
    /\ UNCHANGED <<region, groups, memory>>

(***************************************************************************)
(* verifyPhysicalPlan, run by the planner on its own result.               *)
(***************************************************************************)
SlotVerifies(s) ==
    LET roots == slots[s].roots IN
    /\ \A q, r \in roots : q # r => ~Overlaps(q, r)
    /\ ~(slots[s].external /\ slots[s].reusable)
    /\ Cardinality(roots) > 1 => slots[s].reusable
    /\ \A r \in roots :
        /\ slots[s].shape = nodes[r].shape
        /\ (r = output \/ r \in protected) => ~slots[s].reusable /\ Cardinality(roots) = 1
        /\ slots[s].reusable = Reusable(r)
        /\ slots[s].external = (nodes[r].op = "Input")

\* What the verifier compares with stored lifetimes, classes and groups is left out: the plan
\* of the model is its slots, the rest is a function of the region.
PlanVerifies ==
    /\ \A s \in DOMAIN slots : SlotVerifies(s)
    /\ \A v \in Ids : Tensor(v) => ((slotOf[v] # 0) <=> (Materialized(v) /\ ~Zero(v)))

Verify ==
    /\ phase = "verify"
    /\ phase' = IF PlanVerifies THEN "execute" ELSE "rejected"
    /\ contents' = [s \in DOMAIN slots |-> Garbage]
    /\ UNCHANGED <<pos, region, plan, available>>

(***************************************************************************)
(* Execution in node order.  A fusion group runs as one loop or kernel when *)
(* its first node is reached and writes its last node's slot.              *)
(***************************************************************************)
\* The memory of v holds the value of v.
Holding(v) == Zero(v) \/ contents[slotOf[v]] = Root(v)

Group == GroupOf(pos)
GroupInputs(g) ==
    {r \in Ids : \E i \in DOMAIN g : ReadsRoot(g[i], r) # {}} \ {g[i] : i \in DOMAIN g}

\* The values step pos reads.  An alias reads nothing: it is another name.
Reads ==
    CASE Elementwise(pos) -> IF Group[1] = pos THEN GroupInputs(Group) ELSE {}
      [] nodes[pos].op \in {"Copy", "Index"} -> {Root(Deps(pos)[1])}
      [] OTHER -> {}

\* The value step pos produces, 0 for none.
Produces ==
    IF Elementwise(pos) THEN (IF Group[1] = pos THEN Last(Group) ELSE 0)
    ELSE IF nodes[pos].op = "Alias" THEN 0 ELSE pos

\* Generated host code clears the target vector before its loop over the operands;
\* a kernel reads an element before it writes that element.
ClearsOperand(target) ==
    device = "host" /\ Elementwise(pos) /\ \E r \in Reads : slotOf[r] = slotOf[target]

\* Host emission gives up (BACKEND-INVALID-PLAN) on a result that has no slot.
LacksSlot == device = "host" /\ Produces # 0 /\ nodes[pos].op \notin {"Input", "Index"}
             /\ slotOf[Produces] = 0

Unsupported ==
    /\ phase = "execute" /\ LacksSlot
    /\ phase' = "unsupported"
    /\ UNCHANGED <<pos, region, plan, memory>>

Execute ==
    /\ phase = "execute" /\ ~LacksSlot
    /\ IF Produces = 0 THEN UNCHANGED memory
       ELSE /\ available' = available \cup {Produces}
            /\ IF Tensor(Produces) /\ slotOf[Produces] # 0
               THEN contents' = [contents EXCEPT ![slotOf[Produces]] =
                    IF (\A r \in Reads : r \in available /\ Holding(r)) /\ ~ClearsOperand(Produces)
                    THEN Produces ELSE Garbage]
               ELSE UNCHANGED contents
    /\ NextNode("done")
    /\ UNCHANGED <<region, plan>>

Next == Extract \/ StartPlanning \/ Fuse \/ Assign \/ Verify \/ Execute \/ Unsupported

Spec == Init /\ [][Next]_vars

-----------------------------------------------------------------------------
(***************************************************************************)
(* Properties.                                                             *)
(***************************************************************************)
\* The planner never rejects its own plan.
BuildAcceptsItself == phase # "rejected"

\* Whatever a step reads has been produced: no group starts before one of its
\* operands, and nothing outside a group reads a value the group keeps in registers.
ReadsAreAvailable ==
    phase = "execute" => \A r \in Reads : r \in available

\* Whatever a step reads is still in its slot, and so is the output at the end
\* ("shares that allocation only among the slot's proven non-interfering roots").
ReadsSeeTheirValue ==
    /\ phase = "execute" => \A r \in Reads : r \in available => Holding(r)
    /\ (phase = "done" /\ Tensor(output)) => Holding(output)

\* The same, for plans that reuse slots or fuse kernels but do not do both.
ReadsSeeTheirValueUnlessBoth ==
    ~(options.reuse /\ options.fusion) => ReadsSeeTheirValue

\* The region output and every value under an obligation, once computed correctly,
\* stays in its slot to the region boundary, with reuse and fusion both on.
RetainedValuesStay ==
    [][\A v \in Ids : (phase = "execute" /\ Tensor(v) /\ (v = output \/ v \in protected)
                       /\ Root(v) \in available /\ Holding(v)) => Holding(v)']_vars
=============================================================================
