------------------------------ MODULE Verifier ------------------------------
(***************************************************************************)
(* The independent IR verifier.  It walks the blocks of a function in the  *)
(* order they were numbered, with the types, shapes and binding slots that *)
(* are accessible at each step, and trusts nothing the analyzer knew.  A   *)
(* verification is one Boolean here: which error it gives, and the source  *)
(* provenance of steps, are left out.                                      *)
(***************************************************************************)
EXTENDS Analyzer

\* What is known at a point of the walk; a value or slot is accessible if in its domain.
Walk(types, shapes, slots, value, binding) ==
    [ok |-> TRUE, types |-> types, shapes |-> shapes, slots |-> slots,
     value |-> value, binding |-> binding, block |-> 1]
And(v, holds) == [v EXCEPT !.ok = v.ok /\ holds]
With(f, x, y) == x :> y @@ f

Accessible(v, ids) == \A k \in DOMAIN ids : ids[k] \in DOMAIN v.types
OptionalI64(v, id) == id = 0 \/ (id \in DOMAIN v.types /\ v.types[id] = I64)
SelectorsOk(v, selectors) ==
    \A k \in DOMAIN selectors :
        LET s == selectors[k]
        IN /\ s.slice = (s.index = 0)
           /\ s.slice \/ (s.start = 0 /\ s.end = 0 /\ s.by = 0)
           /\ \A id \in {s.index, s.start, s.end, s.by} : OptionalI64(v, id)

\* The instruction a check guards.
Guards(check, i) ==
    CASE check.kind = "Bounds" ->
            /\ i.op \in {"Index", "Slice"} /\ i.operands = <<check.operands[1]>>
            /\ check.axis \in DOMAIN i.selectors
            /\ i.selectors[check.axis].index = check.operands[2]
      [] check.kind = "Slice" ->
            /\ i.op = "Slice" /\ i.operands = check.operands
            /\ check.axis \in DOMAIN i.selectors
            /\ i.selectors[check.axis] = check.selectors[1]
      [] check.kind = "Broadcast" ->
            /\ i.op \in {"Add", "Subtract", "Multiply", "ElementMultiply"}
            /\ i.operands = check.operands
      [] check.kind = "MatmulShape" -> i.op = "Matmul" /\ i.operands = check.operands
      [] OTHER -> i.op = "Extension" /\ Range(check.operands) \subseteq Range(i.operands)

\* Every check is followed by what it guards before control can leave the block.
Attached(steps) ==
    \A c \in DOMAIN steps : steps[c].step = "check" =>
        \E j \in (c + 1)..Len(steps) :
            /\ IsInstruction(steps[j]) /\ Guards(steps[c], steps[j])
            /\ \A k \in c..j : steps[k].step \notin {"flow", "structured"}

CheckOk(v, c) ==
    LET type(k) == v.types[c.operands[k]]
    IN /\ Accessible(v, c.operands) /\ SelectorsOk(v, c.selectors)
       /\ CASE c.kind = "Bounds" -> /\ Len(c.operands) = 2 /\ IsTensor(type(1)) /\ type(2) = I64
                                    /\ c.axis \in 1..type(1).rank
            [] c.kind = "Slice" -> /\ Len(c.operands) = 1 /\ IsTensor(type(1))
                                   /\ c.axis \in 1..type(1).rank
                                   /\ Len(c.selectors) = 1 /\ c.selectors[1].slice
            [] c.kind = "ExtensionShape" -> Len(c.operands) = 2 /\ IsTensor(type(1)) /\ type(1) = type(2)
            [] OTHER -> Len(c.operands) = 2 /\ IsTensor(type(1)) /\ IsTensor(type(2))

(***************************************************************************)
(* The operand and result contract of every instruction.                   *)
(***************************************************************************)
\* Known extents agree where the target does not stretch.
ReducesTo(source, target) ==
    /\ Len(source) >= Len(target)
    /\ \A d \in DOMAIN target :
          LET x == source[d + Len(source) - Len(target)]
          IN Unknown \in {x, target[d]} \/ target[d] \in {1, x}
BroadcastsAlong(source, target, axis) ==
    LET kept == RemoveAt(target, axis + 1)
    IN \A d \in DOMAIN kept : Unknown \in {source[d], kept[d]} \/ source[d] = kept[d]

IndexOk(i, object) ==
    LET slices == SelectSeq(i.selectors, LAMBDA s : s.slice)
        rank == object.rank - (Len(i.selectors) - Len(slices))
    IN /\ IsTensor(object) /\ Len(i.selectors) <= object.rank /\ NumericScalar(Dtype(object))
       /\ i.type = IF rank > 0 THEN TensorType(Dtype(object), rank) ELSE Dtype(object)
       /\ (i.op = "Slice") = (slices # <<>>)
       /\ i.view = (rank > 0)

ExtensionOk(v, steps, k, i, op) ==
    LET like == i.operands[op.like]
        other(n) == i.operands[n]
        clash(n) == \E d \in DOMAIN v.shapes[like] :
                        /\ Unknown \notin {v.shapes[like][d], v.shapes[other(n)][d]}
                        /\ v.shapes[like][d] # v.shapes[other(n)][d]
        checked(n) == \E j \in 1..(k - 1) :
                        /\ steps[j].step = "check" /\ steps[j].kind = "ExtensionShape"
                        /\ steps[j].operands = <<like, other(n)>>
    IN /\ i.operation \in DOMAIN Registry /\ ValidOperation(op) /\ Len(i.operands) = op.arity
       /\ i.access = [n \in DOMAIN i.operands |-> "Read"]
       /\ i.effect = IF op.mayTrap THEN "CheckedFailure" ELSE "Pure"
       /\ IsTensor(i.type) /\ Dtype(i.type) = F32
       /\ i.type.rank \in op.minimumRank..op.maximumRank
       /\ \A n \in DOMAIN i.operands : v.types[other(n)] = i.type
       /\ i.shape = v.shapes[like]
       /\ \A n \in DOMAIN i.operands \ {op.like} : other(n) # like =>
             /\ ~clash(n)
             /\ (Known(v.shapes[like]) /\ Known(v.shapes[other(n)])) \/ checked(n)

CallOk(m, i, types) ==
    /\ i.callee \in DOMAIN m
    /\ i.type = m[i.callee].result
    /\ types = [k \in DOMAIN m[i.callee].parameters |-> m[i.callee].parameters[k].type]
    /\ i.access = [k \in DOMAIN m[i.callee].parameters |-> m[i.callee].parameters[k].access]

ContractOk(m, f, b, k, v) ==
    LET i == f.blocks[b].steps[k]
        types == [n \in DOMAIN i.operands |-> v.types[i.operands[n]]]
        unary == Len(types) = 1
        binary == Len(types) = 2
        slot == i.binding \in DOMAIN v.slots /\ v.slots[i.binding].type = i.type
        rank == Max({types[n].rank : n \in DOMAIN types} \union {0})
    IN CASE i.op = "Integer" -> types = <<>> /\ i.type = I64
         [] i.op = "Float" -> types = <<>> /\ i.type = F32
         [] i.op = "Boolean" -> types = <<>> /\ i.type = Bool
         [] i.op = "LoadBinding" -> types = <<>> /\ slot
         [] i.op = "TensorLiteral" ->
                NumericTensor(i.type) /\ \A n \in DOMAIN types : types[n] = Dtype(i.type)
         [] i.op = "Tuple" -> i.type = TupleType(types)
         [] i.op = "Copy" -> types = <<i.type>> /\ i.binding = 0
         [] i.op = "Move" -> types = <<i.type>> /\ slot
         [] i.op = "MutableBorrow" ->
                types = <<i.type>> /\ slot /\ v.slots[i.binding].mutable /\ IsTensor(i.type)
         [] i.op = "Negate" -> types = <<i.type>> /\ ExecutableType(i.type) /\ NumericScalar(Dtype(i.type))
         [] i.op \in {"Add", "Subtract", "Multiply", "ElementMultiply"} ->
                /\ binary /\ NumericScalar(Dtype(types[1])) /\ Dtype(types[1]) = Dtype(types[2])
                /\ i.type = IF rank > 0 THEN TensorType(Dtype(types[1]), rank) ELSE types[1]
                /\ i.op = "Multiply" => rank = 0
         [] i.op = "Matmul" ->
                /\ binary /\ types[1] = types[2] /\ i.type = types[1]
                /\ IsTensor(i.type) /\ i.type.rank = 2 /\ NumericScalar(Dtype(i.type))
         [] i.op \in {"Index", "Slice"} -> unary /\ IndexOk(i, types[1])
         [] i.op = "Transpose" -> types = <<i.type>> /\ IsTensor(i.type) /\ i.type.rank = 2 /\ i.view
         [] i.op = "Sum" ->
                /\ binary /\ IsTensor(types[1]) /\ NumericScalar(Dtype(types[1])) /\ types[2] = I64
                /\ i.axis < types[1].rank
                /\ i.type = IF types[1].rank = 1 THEN Dtype(types[1])
                            ELSE TensorType(Dtype(types[1]), types[1].rank - 1)
         [] i.op \in {"StopGradient", "ZeroLike"} -> types = <<i.type>> /\ DifferentiableType(i.type)
         [] i.op = "ReduceToShape" ->
                /\ binary /\ DifferentiableType(types[1]) /\ DifferentiableType(types[2])
                /\ i.type = types[2] /\ types[1].rank >= types[2].rank
                /\ i.shape = v.shapes[i.operands[2]]
                /\ ReducesTo(v.shapes[i.operands[1]], v.shapes[i.operands[2]])
         [] i.op = "BroadcastToShape" ->
                /\ binary /\ DifferentiableType(types[1]) /\ DifferentiableType(types[2])
                /\ i.type = types[2] /\ IsTensor(types[2]) /\ i.axis < types[2].rank
                /\ types[1].rank + 1 = types[2].rank
                /\ i.shape = v.shapes[i.operands[2]]
                /\ BroadcastsAlong(v.shapes[i.operands[1]], v.shapes[i.operands[2]], i.axis)
         [] i.op = "Extension" -> ExtensionOk(v, f.blocks[b].steps, k, i, Registry[i.operation])
         [] OTHER -> CallOk(m, i, types)

InspectInstruction(m, f, b, k, v) ==
    LET i == f.blocks[b].steps[k]
    IN [And(v, /\ Accessible(v, i.operands) /\ SelectorsOk(v, i.selectors)
               /\ ValidType(i.type) /\ ShapeFits(i.type, i.shape)
               /\ i.id = v.value /\ i.id \notin DOMAIN v.types
               /\ ContractOk(m, f, b, k, v))
        EXCEPT !.value = @ + 1, !.types = With(@, i.id, i.type), !.shapes = With(@, i.id, i.shape)]

\* A declaration takes the next binding and a new name; a rebind keeps its slot's type.
InspectWrite(f, b, v, names, w) ==
    LET metas == {meta \in Range(f.blocks[b].bindings) : meta.id = w.binding}
        meta == CHOOSE x \in metas : TRUE
        typed == w.value \in DOMAIN v.types
    IN IF ~w.declaration
       THEN And(v, /\ typed /\ w.binding \in DOMAIN v.slots
                   /\ v.slots[w.binding] = [type |-> v.types[w.value], mutable |-> TRUE])
       ELSE IF metas = {} THEN And(v, FALSE)
       ELSE [And(v, /\ typed /\ w.binding = v.binding /\ meta.value = w.value
                    /\ meta.type = v.types[w.value] /\ ShapeFits(meta.type, meta.shape)
                    /\ meta.name \notin names)
             EXCEPT !.binding = @ + 1,
                    !.slots = With(@, w.binding, [type |-> meta.type, mutable |-> meta.mutable])]

ScanOk(m, v, s) ==
    LET step == m[s.stepFunction]
        sequence == v.types[s.sequence]
        initial == v.types[s.initialState]
        element == IF sequence.rank = 1 THEN Dtype(sequence)
                   ELSE TensorType(Dtype(sequence), sequence.rank - 1)
        captures == [k \in DOMAIN s.captures |-> v.types[s.captures[k]]]
    IN /\ s.stepFunction \in DOMAIN m
       /\ Accessible(v, <<s.sequence, s.initialState>> \o s.captures)
       /\ NumericTensor(sequence)
       /\ [k \in DOMAIN step.parameters |-> step.parameters[k].type] =
                <<element, initial>> \o captures
       /\ \A p \in Range(step.parameters) : p.access = "Read" /\ ScanRuntimeType(p.type)
       /\ step.result = TupleType(<<s.outputType, initial>>)
       /\ ScalarOutput(s.outputType) \/ VectorOutput(s.outputType)
       /\ Len(s.outputShape) = s.outputType.rank /\ Known(s.outputShape)
       /\ s.result = v.value

(***************************************************************************)
(* Blocks.  A nested block is inspected with what is accessible before it; *)
(* only the counters it used are kept.                                     *)
(***************************************************************************)
Keep(inner, v) ==
    [v EXCEPT !.ok = inner.ok, !.value = inner.value, !.binding = inner.binding,
              !.block = inner.block]

RECURSIVE Inspect(_, _, _, _, _, _, _)

InspectStructured(m, f, b, v, s, inLoop) ==
    LET nested(block, w, loop, induction) ==
            IF block = 0 THEN w ELSE Keep(Inspect(m, f, block, w, b, loop, induction), w)
        i64(id) == id \in DOMAIN v.types /\ v.types[id] = I64
        bool == s.condition \in DOMAIN v.types /\ v.types[s.condition] = Bool
        condition == {i \in Range(f.blocks[s.conditionBlock].steps) :
                        IsInstruction(i) /\ i.id = s.condition /\ i.type = Bool}
    IN CASE s.kind = "If" ->
                nested(s.elseBlock,
                       nested(s.thenBlock, And(v, bool /\ s.thenBlock # 0), inLoop, 0), inLoop, 0)
         [] s.kind = "ForRange" ->
                nested(s.bodyBlock, And(v, i64(s.start) /\ i64(s.end) /\ s.bodyBlock # 0), TRUE,
                       s.induction)
         [] s.kind = "While" ->
                nested(s.bodyBlock,
                       And(nested(s.conditionBlock, v, inLoop, 0), condition # {}), TRUE, 0)
         [] OTHER ->
                LET type == TupleType(<<Collected(s.outputType), v.types[s.initialState]>>)
                IN [And(v, ScanOk(m, v, s) /\ ValidType(type)) EXCEPT
                        !.value = @ + 1, !.types = With(@, s.result, type),
                        !.shapes = With(@, s.result, <<>>)]

Inspect(m, f, b, v, parent, inLoop, induction) ==
    LET block == f.blocks[b]
        declares(k) == block.steps[k].step = "write" /\ block.steps[k].declaration
        nameOf(k) == {meta.name : meta \in {x \in Range(block.bindings) : x.id = block.steps[k].binding}}
        names(k) == UNION {nameOf(j) : j \in {j \in 1..(k - 1) : declares(j)}}
                    \union {meta.name : meta \in {x \in Range(block.bindings) : x.id = induction}}
                    \union (IF parent = 0 THEN {p.name : p \in Range(f.parameters)} ELSE {})
        start == IF induction = 0 THEN v
                 ELSE [And(v, induction = v.binding /\ \E meta \in Range(block.bindings) :
                            meta.id = induction /\ meta.value = 0 /\ meta.type = I64 /\ ~meta.mutable)
                       EXCEPT !.binding = @ + 1,
                              !.slots = With(@, induction, [type |-> I64, mutable |-> FALSE])]
        flow(w, k) ==
            LET s == block.steps[k]
            IN And(w, /\ k = Len(block.steps)
                      /\ IF s.kind = "Return"
                         THEN s.value \in DOMAIN w.types /\ w.types[s.value] = f.result
                         ELSE inLoop /\ s.value = 0)
        visit(w, k) ==
            LET s == block.steps[k]
            IN CASE s.step = "check" -> And(w, CheckOk(w, s))
                 [] s.step = "write" -> InspectWrite(f, b, w, names(k), s)
                 [] s.step = "flow" -> flow(w, k)
                 [] s.step = "structured" -> InspectStructured(m, f, b, w, s, inLoop)
                 [] OTHER -> InspectInstruction(m, f, b, k, w)
        entered == [And(start, /\ b = v.block /\ block.parent = parent /\ block.terminated
                               /\ Attached(block.steps)) EXCEPT !.block = @ + 1]
    IN FoldLeft(visit, entered, [k \in DOMAIN block.steps |-> k])

ParameterOk(f, k) ==
    LET p == f.parameters[k]
    IN /\ p.id = k /\ p.binding = k /\ ValidType(p.type) /\ ShapeFits(p.type, p.shape)
       /\ p.access \in Modes
       /\ p.access = "MutableBorrow" => IsTensor(p.type)

FunctionOk(m, f) ==
    LET count == Len(f.parameters)
        start == Walk([k \in 1..count |-> f.parameters[k].type],
                      [k \in 1..count |-> f.parameters[k].shape],
                      [k \in 1..count |-> [type |-> f.parameters[k].type,
                                           mutable |-> f.parameters[k].access = "MutableBorrow"]],
                      count + 1, count + 1)
    IN /\ ValidType(f.result)
       /\ \A k \in 1..count : ParameterOk(f, k)
       /\ Inspect(m, f, 1, start, 0, FALSE, 0).ok
       /\ AlwaysReturns(f, 1)

Verify(m) == \A k \in DOMAIN m : FunctionOk(m, m[k])
=============================================================================
