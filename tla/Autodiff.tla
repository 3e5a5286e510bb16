------------------------------ MODULE Autodiff ------------------------------
(***************************************************************************)
(* Reverse-mode differentiation of a straight-line function of a verified, *)
(* owned module: a forward function that also returns what the backward    *)
(* one needs, and a backward function from those saves and an output       *)
(* cotangent to the gradients of the requested parameters.  Save reasons,  *)
(* provenance and spans are left out.                                      *)
(***************************************************************************)
EXTENDS Evaluator

EligibleOps ==
    {"Integer", "Float", "Boolean", "LoadBinding", "Negate", "Add", "Subtract", "Multiply",
     "ElementMultiply", "Matmul", "Transpose", "Sum", "StopGradient", "Extension"}

\* The numbers of a set of values or parameters, in order.
InOrder(ids) ==
    IF ids = {} THEN <<>> ELSE SelectSeq([k \in 1..Max(ids) |-> k], LAMBDA k : k \in ids)
BodyInstructions(f) == SelectSeq(f.blocks[1].steps, IsInstruction)

\* The type and shape of every value of a function.
Facts(f) ==
    [id \in {p.id : p \in Range(f.parameters)} \union {i.id : i \in Range(BodyInstructions(f))} |->
        IF \E p \in Range(f.parameters) : p.id = id
        THEN LET p == CHOOSE p \in Range(f.parameters) : p.id = id
             IN [type |-> p.type, shape |-> p.shape]
        ELSE LET i == CHOOSE i \in Range(BodyInstructions(f)) : i.id = id
             IN [type |-> i.type, shape |-> i.shape]]

\* wrt is the sequence of the parameters the gradient is taken of.
Eligible(m, ownership, g, wrt) ==
    LET f == m[g]
    IN /\ Verify(m) /\ ownership.errors = {}
       /\ wrt # <<>> /\ \A j, k \in DOMAIN wrt : wrt[j] = wrt[k] => j = k
       /\ \A k \in DOMAIN wrt : /\ wrt[k] \in DOMAIN f.parameters
                                /\ DifferentiableType(f.parameters[wrt[k]].type)
                                /\ f.parameters[wrt[k]].access = "Read"
       /\ DifferentiableType(f.result)
       /\ "Mutates" \notin ownership.effects[g]
       /\ \A s \in Range(f.blocks[1].steps) :
             /\ s.step # "structured"
             /\ s.step = "write" => s.declaration
             /\ s.step = "instruction" =>
                   s.op \in EligibleOps /\ (s.op = "Extension" => Registry[s.operation].derivative)

ReturnedBy(f) ==
    f.blocks[1].steps[SelectInSeq(f.blocks[1].steps, LAMBDA s : s.step = "flow" /\ s.kind = "Return")].value

\* The primal values the backward function reads, or takes a shape from, in the order of their ids.
Saves(f, wrt) ==
    LET facts == Facts(f)
        tensors(i) == \E k \in DOMAIN i.operands : IsTensor(facts[i.operands[k]].type)
        neededBy(i) ==
            CASE i.op \in {"Multiply", "ElementMultiply", "Matmul"} -> Range(i.operands)
              [] i.op \in {"Add", "Subtract"} -> IF tensors(i) THEN Range(i.operands) ELSE {}
              [] i.op = "Sum" -> {i.operands[1]}
              [] i.op = "Extension" ->
                    {i.operands[k] : k \in Registry[i.operation].savedInputs}
                    \union (IF Registry[i.operation].savesOutput THEN {i.id} ELSE {})
              [] OTHER -> {}
        needed == UNION {neededBy(i) : i \in Range(BodyInstructions(f))}
    IN InOrder({f.parameters[k].id : k \in Range(wrt)}
               \union {id \in needed : DifferentiableType(facts[id].type)})

\* The primal function, returning its result and then the saves.
Forward(f, saves) ==
    LET facts == Facts(f)
        ids == <<ReturnedBy(f)>> \o saves
        type == TupleType(<<f.result>> \o [k \in DOMAIN saves |-> facts[saves[k]].type])
        next == Max(DOMAIN facts) + 1
        at == SelectInSeq(f.blocks[1].steps, LAMBDA s : s.step = "flow" /\ s.kind = "Return")
        tuple == [Instruction("Tuple", ids) EXCEPT !.id = next, !.type = type]
    IN [f EXCEPT !.result = type, !.generated = TRUE,
                 !.blocks[1].returned = next,
                 !.blocks[1].steps = SubSeq(@, 1, at - 1) \o <<tuple, Flow("Return", next)>>
                                     \o SubSeq(@, at + 1, Len(@))]

-----------------------------------------------------------------------------
(* The backward function is built by a builder g: its steps, the next      *)
(* value, the cotangent of each primal value, and the value just emitted.  *)

EmitBack(g, op, fact, operands, axis, effect) ==
    [g EXCEPT !.steps = Append(@, [Instruction(op, operands) EXCEPT
                                    !.id = g.next, !.type = fact.type, !.shape = fact.shape,
                                    !.axis = axis, !.effect = effect, !.view = (op = "Transpose")]),
              !.next = @ + 1, !.out = g.next]
EmitPure(g, op, fact, operands) == EmitBack(g, op, fact, operands, 0, "Pure")

\* Mutant: the last cotangent of a value that is used twice replaces the first.
ReplaceContribution(g, target, contribution) ==
    IF DifferentiableType(g.facts[target].type)
    THEN [g EXCEPT !.cotangent = With(@, target, contribution)] ELSE g

\* Cotangents of a value add up; a value that is not differentiable has none.
AddContribution(g, target, contribution) ==
    IF ~DifferentiableType(g.facts[target].type) THEN g
    ELSE IF target \notin DOMAIN g.cotangent
    THEN [g EXCEPT !.cotangent = With(@, target, contribution)]
    ELSE LET added == EmitPure(g, "Add", g.facts[target], <<g.cotangent[target], contribution>>)
         IN [added EXCEPT !.cotangent[target] = added.out]

\* The value a binding stood for when it was loaded.
AliasSource(f) ==
    FoldLeft(LAMBDA r, s :
                CASE s.step = "instruction" /\ s.op = "LoadBinding" /\ s.binding \in DOMAIN r.bound ->
                        [r EXCEPT !.alias = With(@, s.id, r.bound[s.binding])]
                  [] s.step = "write" -> [r EXCEPT !.bound = With(@, s.binding, s.value)]
                  [] OTHER -> r,
             [bound |-> [b \in {p.binding : p \in Range(f.parameters)} |-> b], alias |-> <<>>],
             f.blocks[1].steps).alias

Reduced(g, i, k, value) ==
    EmitBack(g, "ReduceToShape", g.facts[i.operands[k]], <<value, g.saved[i.operands[k]]>>, 0,
             "CheckedFailure")

BackSum(g, i, dz) ==
    LET tensors == \E k \in 1..2 : IsTensor(g.facts[i.operands[k]].type)
        contribute(h, k) ==
            LET reduced == IF tensors THEN Reduced(h, i, k, dz) ELSE [h EXCEPT !.out = dz]
                signed == IF i.op = "Subtract" /\ k = 2
                          THEN EmitPure(reduced, "Negate", g.facts[i.operands[k]], <<reduced.out>>)
                          ELSE reduced
            IN AddContribution(signed, i.operands[k], signed.out)
    IN contribute(contribute(g, 1), 2)

BackProduct(g, i, dz) ==
    LET product == g.facts[i.id]
        contribute(h, k) ==
            LET times == EmitPure(h, i.op, product, <<dz, g.saved[i.operands[3 - k]]>>)
                reduced == IF IsTensor(product.type) THEN Reduced(times, i, k, times.out) ELSE times
            IN AddContribution(reduced, i.operands[k], reduced.out)
    IN contribute(contribute(g, 1), 2)

BackMatmul(g, i, dz) ==
    LET a == i.operands[1]
        b == i.operands[2]
        transposed(h, id) ==
            EmitPure(h, "Transpose", [g.facts[id] EXCEPT !.shape = Reverse(@)], <<g.saved[id]>>)
        bt == transposed(g, b)
        at == transposed(bt, a)
        left == EmitBack(at, "Matmul", g.facts[a], <<dz, bt.out>>, 0, "CheckedFailure")
        leftAdded == AddContribution(left, a, left.out)
        right == EmitBack(leftAdded, "Matmul", g.facts[b], <<at.out, dz>>, 0, "CheckedFailure")
    IN AddContribution(right, b, right.out)

\* The declared gradient of one input of a research operation, emitted node by node.
WithNode(acc, h, fact) == [g |-> h, nodes |-> Append(acc.nodes, [id |-> h.out, fact |-> fact])]
EmitNode(acc, node, input(_)) ==
    LET left == acc.nodes[node.left]
        right == acc.nodes[node.right]
        fact == IF IsTensor(left.fact.type) THEN left.fact ELSE right.fact
        scalar == [type |-> F32, shape |-> <<>>]
    IN CASE node.opcode = "Input" -> [acc EXCEPT !.nodes = Append(@, input(node.input))]
         [] node.opcode = "Constant" ->
                WithNode(acc, [EmitPure(acc.g, "Float", scalar, <<>>) EXCEPT
                                !.steps[Len(acc.g.steps) + 1].constant = <<node.constant>>], scalar)
         [] node.opcode = "Negate" ->
                WithNode(acc, EmitPure(acc.g, "Negate", left.fact, <<left.id>>), left.fact)
         [] node.opcode = "Multiply" /\ IsTensor(fact.type) ->
                WithNode(acc, EmitPure(acc.g, "ElementMultiply", fact, <<left.id, right.id>>), fact)
         [] OTHER -> WithNode(acc, EmitPure(acc.g, node.opcode, fact, <<left.id, right.id>>), fact)
RecipeDone(g, i, k, done, root) ==
    IF root.fact # g.facts[i.operands[k]] THEN [g EXCEPT !.error = "ADV12"]
    ELSE AddContribution(done.g, i.operands[k], root.id)
BackRecipe(g, op, i, k, done) == RecipeDone(g, i, k, done, done.nodes[op.gradients[k].root])
BackInput(g, op, i, dz, k) ==
    LET saved(id) == IF id \in DOMAIN g.saved THEN g.saved[id] ELSE 0
        input(n) == CASE n <= op.arity -> [id |-> saved(i.operands[n]), fact |-> g.facts[i.operands[n]]]
                      [] n = op.arity + 1 -> [id |-> saved(i.id), fact |-> g.facts[i.id]]
                      [] OTHER -> [id |-> dz, fact |-> g.facts[i.id]]
        unsaved == \E node \in Range(op.gradients[k].nodes) :
                        node.opcode = "Input" /\ input(node.input).id = 0
    IN CASE g.error # "" -> g
         [] unsaved -> [g EXCEPT !.error = "ADV11"]
         [] OTHER -> BackRecipe(g, op, i, k,
                                FoldLeft(LAMBDA acc, node : EmitNode(acc, node, input),
                                         [g |-> g, nodes |-> <<>>], op.gradients[k].nodes))
BackExtension(g, op, i, dz) ==
    FoldLeft(LAMBDA h, k : BackInput(h, op, i, dz, k), g, InOrder(op.differentiable))

Passed(g, target) == AddContribution(g, target, g.out)
Backpropagate(alias, g, i) ==
    LET dz == g.cotangent[i.id]
        operand == i.operands[1]
    IN CASE g.error # "" \/ i.id \notin DOMAIN g.cotangent -> g
         [] i.op = "LoadBinding" -> IF i.id \in DOMAIN alias THEN AddContribution(g, alias[i.id], dz) ELSE g
         [] i.op = "Negate" -> Passed(EmitPure(g, "Negate", g.facts[operand], <<dz>>), operand)
         [] i.op \in {"Add", "Subtract"} -> BackSum(g, i, dz)
         [] i.op \in {"Multiply", "ElementMultiply"} -> BackProduct(g, i, dz)
         [] i.op = "Matmul" -> BackMatmul(g, i, dz)
         [] i.op = "Transpose" -> Passed(EmitPure(g, "Transpose", g.facts[operand], <<dz>>), operand)
         [] i.op = "Sum" -> Passed(EmitBack(g, "BroadcastToShape", g.facts[operand],
                                            <<dz, g.saved[operand]>>, i.axis, "CheckedFailure"), operand)
         [] i.op = "Extension" -> BackExtension(g, Registry[i.operation], i, dz)
         [] OTHER -> g

\* A parameter no cotangent reached has a zero gradient.
AddGradient(g, id) ==
    IF id \in DOMAIN g.cotangent THEN [g EXCEPT !.gradients = Append(@, g.cotangent[id])]
    ELSE [EmitPure(g, "ZeroLike", g.facts[id], <<g.saved[id]>>)
            EXCEPT !.gradients = Append(@, g.next)]
GradientType(f, wrt) ==
    IF Len(wrt) = 1 THEN f.parameters[wrt[1]].type
    ELSE TupleType([k \in DOMAIN wrt |-> f.parameters[wrt[k]].type])
ReturnGradients(g, type) ==
    IF Len(g.gradients) = 1 THEN [g EXCEPT !.out = g.gradients[1]]
    ELSE EmitPure(g, "Tuple", [type |-> type, shape |-> <<>>], g.gradients)
Gradients(g, f, wrt) ==
    ReturnGradients(FoldLeft(LAMBDA h, k : AddGradient(h, f.parameters[k].id), g, wrt),
                    GradientType(f, wrt))

BackwardFunction(parameters, type, g) ==
    LET block == [EmptyBlock(0) EXCEPT !.steps = Append(g.steps, Flow("Return", g.out)),
                                       !.terminated = TRUE]
    IN [error |-> g.error,
        function |-> [parameters |-> parameters, result |-> type, blocks |-> <<block>>,
                      generated |-> TRUE]]
BackwardFrom(f, saves, wrt, facts, out) ==
    LET parameter(k, fact) == [id |-> k, binding |-> k, name |-> k, type |-> fact.type,
                               shape |-> fact.shape, access |-> "Read"]
        seed == Len(saves) + 1
        start == [steps |-> <<>>, next |-> seed + 1, out |-> 0, facts |-> facts,
                  saved |-> [id \in Range(saves) |-> SelectInSeq(saves, LAMBDA s : s = id)],
                  cotangent |-> [id \in {out} |-> seed], error |-> "", gradients |-> <<>>]
    IN BackwardFunction(
            [k \in DOMAIN saves |-> parameter(k, facts[saves[k]])]
                \o <<parameter(seed, [type |-> f.result, shape |-> facts[out].shape])>>,
            GradientType(f, wrt),
            Gradients(FoldLeft(LAMBDA g, i : Backpropagate(AliasSource(f), g, i), start,
                               Reverse(BodyInstructions(f))),
                      f, wrt))
Backward(f, saves, wrt) == BackwardFrom(f, saves, wrt, Facts(f), ReturnedBy(f))

-----------------------------------------------------------------------------
(* The audit of a generated pair, and the derivative as a whole.           *)

AuditOk(source, g, wrt, saves, functions) ==
    LET f == source[g]
        backward == functions[2]
        types(ids) == [k \in DOMAIN ids |-> Facts(backward)[ids[k]].type]
        contract(i) ==
            LET t == types(i.operands)
            IN CASE i.op = "ReduceToShape" ->
                        /\ Len(t) = 2 /\ DifferentiableType(t[1]) /\ DifferentiableType(t[2])
                        /\ i.type = t[2]
                        /\ IsTensor(t[1]) /\ IsTensor(t[2]) => t[1].rank >= t[2].rank
                 [] i.op = "BroadcastToShape" ->
                        /\ Len(t) = 2 /\ DifferentiableType(t[1]) /\ DifferentiableType(t[2])
                        /\ i.type = t[2] /\ IsTensor(t[2]) /\ i.axis < t[2].rank
                        /\ t[1].rank + 1 = t[2].rank
                 [] OTHER -> TRUE
        requested == [k \in DOMAIN wrt |-> f.parameters[wrt[k]].type]
    IN /\ Verify(functions)
       /\ \A j, k \in DOMAIN saves : saves[j] = saves[k] => j = k
       /\ Range(saves) \subseteq DOMAIN Facts(f)
       /\ Len(backward.parameters) = Len(saves) + 1
       /\ \A k \in DOMAIN saves : backward.parameters[k].type = Facts(f)[saves[k]].type
       /\ \A i \in Range(BodyInstructions(backward)) : contract(i)
       /\ backward.result = IF Len(wrt) = 1 THEN requested[1] ELSE TupleType(requested)

\* The generated module, or why there is none.
Refused(why) == [status |-> why, functions |-> <<>>, saves |-> <<>>]
Audited(m, g, wrt, saves, functions) ==
    IF AuditOk(m, g, wrt, saves, functions)
    THEN [status |-> "ok", functions |-> functions, saves |-> saves]
    ELSE Refused("audit")
Paired(m, g, wrt, saves, backward) ==
    IF backward.error # "" THEN Refused(backward.error)
    ELSE Audited(m, g, wrt, saves, <<Forward(m[g], saves), backward.function>>)
Generated(m, g, wrt, saves) == Paired(m, g, wrt, saves, Backward(m[g], saves, wrt))
Differentiate(m, ownership, g, wrt) ==
    IF Eligible(m, ownership, g, wrt) THEN Generated(m, g, wrt, Saves(m[g], wrt))
    ELSE Refused("ineligible")

\* Forward, then backward on the saves and the seed: the run of the last call made.
RunBackward(derivative, seed, forward) ==
    LET saved == Tail(ResultOf(forward).elements)
    IN IF forward.failure # "" THEN forward
       ELSE IF Len(saved) # Len(derivative.saves) THEN Fail(forward, "TH010-FORWARD-CONTRACT")
       ELSE EvaluateCall(derivative.functions, 2, Append(saved, seed), <<>>)
ExecuteVjp(derivative, arguments, seed) ==
    RunBackward(derivative, seed, EvaluateCall(derivative.functions, 1, arguments, <<>>))
=============================================================================
