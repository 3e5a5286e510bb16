----------------------------- MODULE Evaluator -----------------------------
(***************************************************************************)
(* The reference evaluator of a verified module.  A run r keeps the values *)
(* and binding slots of the current frame, the signal that leaves a block, *)
(* the failure that ends everything, and the counters behind the limits.   *)
(*                                                                         *)
(* The evaluator copies values, so it never sees what ownership protects.  *)
(* Each value and slot therefore also has a handle: the tensor objects and *)
(* the view roots a native execution would hold, with the record of the    *)
(* analysis (objects as resources; a root is the depth of a frame and a    *)
(* binding of it).  r.misuse collects what such an execution may not do.   *)
(***************************************************************************)
EXTENDS Ownership

CONSTANTS
    MaxDepth,           \* 64 calls in the code
    MaxIterations,      \* 100000 loop iterations in the code
    MaxSteps            \* 1000000 steps in the code
ASSUME LimitsAssumption == {MaxDepth, MaxIterations, MaxSteps} \subseteq Nat \ {0}

LimitFailures == {"TH005-CALL-DEPTH", "TH005C-STEP-LIMIT", "TH005-RESOURCE-LIMIT"}

Slot(value, handle) == [value |-> value, handle |-> handle, state |-> "usable"]
\* pinned gives some instructions the value they must have instead of their own.
NewRun(pinned) ==
    [depth |-> 0, steps |-> 0, iterations |-> 0, objects |-> 1, misuse |-> {}, failure |-> "",
     values |-> <<>>, handles |-> <<>>, slots |-> <<>>, signal |-> "Normal", returned |-> 0,
     pinned |-> pinned, reshaped |-> FALSE]

Fail(r, id) == IF r.failure = "" THEN [r EXCEPT !.failure = id] ELSE r
Stopped(r) == r.failure # "" \/ r.signal # "Normal"
Misuse(r, holds, what) == IF holds THEN r ELSE [r EXCEPT !.misuse = @ \union {what}]
Give(r, id, value, handle) ==
    IF IsFailure(value) THEN Fail(r, value.id)
    ELSE [r EXCEPT !.values = With(@, id, value), !.handles = With(@, id, handle)]
GuardIteration(r) ==
    IF r.iterations = MaxIterations THEN Fail(r, "TH005C-STEP-LIMIT")
    ELSE [r EXCEPT !.iterations = @ + 1]

-----------------------------------------------------------------------------
(* Handles.                                                                *)

LocalRoots(r, handle) == {root \in AllRoots(handle) : root[1] = r.depth}

\* The slots some of whose roots are gone dangle.
Unroot(r, bindings) ==
    [r EXCEPT !.slots = [id \in DOMAIN @ |->
        IF \E b \in bindings : <<r.depth, b>> \in AllRoots(@[id].handle)
        THEN [@[id] EXCEPT !.state = "dangling"] ELSE @[id]]]

\* The slots that alias objects about to be mutated go stale, except the one they are borrowed of.
Outdate(r, objects, source) ==
    [r EXCEPT !.slots = [id \in DOMAIN @ |->
        IF id # source /\ Intersects(objects, AllResources(@[id].handle))
        THEN [@[id] EXCEPT !.state = "stale"] ELSE @[id]]]

ViewHandle(r, base) ==
    [NoResource EXCEPT
        !.resources = AllResources(base),
        !.roots = AllRoots(base) \union
                  (IF LocalRoots(r, base) # {} \/ base.source = 0 THEN {}
                   ELSE {<<r.depth, base.source>>})]

Handle(r, i) ==
    CASE i.op = "LoadBinding" -> [r.slots[i.binding].handle EXCEPT !.source = i.binding]
      [] i.op = "Tuple" -> [NoResource EXCEPT
                                !.elements = [k \in DOMAIN i.operands |-> r.handles[i.operands[k]]]]
      [] i.op \in {"Move", "MutableBorrow", "StopGradient"} -> r.handles[i.operands[1]]
      [] i.op \in {"Index", "Slice", "Transpose"} ->
            IF ResourceType(i.type) THEN ViewHandle(r, r.handles[i.operands[1]]) ELSE NoResource
      [] OTHER -> TypedFresh(r.objects, i.type)

\* What an instruction does to the handles other than its own.
Touch(f, r, i) ==
    CASE i.op = "LoadBinding" ->
            Misuse(r, i.id \in MoveInputs(f) \/ r.slots[i.binding].state = "usable",
                   r.slots[i.binding].state)
      [] i.op = "Move" ->
            Unroot([Misuse(r, r.slots[i.binding].state = "usable", r.slots[i.binding].state)
                        EXCEPT !.slots[i.binding].state = "moved"], {i.binding})
      [] OTHER -> r

\* A call that borrows mutably: nothing else may hold what it borrows while it runs or later.
Borrows(f, callee, r, i) ==
    LET objects(k) == AllResources(r.handles[i.operands[k]])
        borrowed == {k \in DOMAIN i.operands : callee.parameters[k].access = "MutableBorrow"}
        read == UNION {AllResources(r.slots[p.binding].handle) :
                        p \in {p \in Range(f.parameters) : p.access = "Read"}}
        shared(k) == \E n \in DOMAIN i.operands \ {k} : Intersects(objects(k), objects(n))
        checked == Misuse(Misuse(r, \A k \in borrowed : ~Intersects(objects(k), read), "read-only"),
                          \A k \in borrowed : ~shared(k), "shared")
    IN FoldSet(LAMBDA k, acc : Outdate(acc, objects(k), BorrowSource(f, i.operands[k])),
               checked, borrowed)

\* What is returned holds no view of the frame and nothing its mutable parameters hold.
LeaveFrame(f, r, id) ==
    LET borrowed == {p.binding : p \in {p \in Range(f.parameters) : p.access = "MutableBorrow"}}
    IN Misuse(Misuse(r, LocalRoots(r, r.handles[id]) = {}, "returned view"),
              \A b \in borrowed :
                ~Intersects(AllResources(r.handles[id]), AllResources(r.slots[b].handle)),
              "returned borrow")

-----------------------------------------------------------------------------
(* Checks and instructions.                                                *)

CheckFailure(r, c) ==
    LET operand(k) == r.values[c.operands[k]]
    IN CASE c.kind = "Bounds" ->
                IF operand(2).number \in 0..(operand(1).shape[c.axis] - 1) THEN ""
                ELSE "TH-SPEC-BOUNDS"
         [] c.kind = "Slice" ->
                SelectorFailure(r.values, c.selectors[1], operand(1).shape[c.axis])
         [] c.kind = "Broadcast" ->
                IF Broadcasts(operand(1), operand(2)) THEN "" ELSE "TH-SPEC-BROADCAST"
         [] c.kind = "MatmulShape" ->
                IF operand(1).shape[2] = operand(2).shape[1] THEN "" ELSE "TH-SPEC-SHAPE"
         [] OTHER -> IF operand(1).shape = operand(2).shape THEN "" ELSE "TH021-SHAPE"

LiteralValue(i, numbers) ==
    LET offset(c) == IF Len(c) = 1 THEN c[1] + 1 ELSE c[1] * i.shape[2] + c[2] + 1
    IN TensorValue(Dtype(i.type).kind, i.shape,
                   [c \in Coordinates(i.shape) |-> numbers[offset(c)].number])

ExtensionValue(op, inputs) ==
    LET lane(c) == EvaluateRecipe(op.forward, [k \in DOMAIN inputs |-> inputs[k].at[c]])
        lanes == Coordinates(inputs[1].shape)
    IN IF \E k \in DOMAIN inputs : inputs[k].shape # inputs[1].shape THEN Failure("TH021-SHAPE")
       ELSE IF \E c \in lanes : lane(c) = <<>> THEN Failure("TH021-DIVIDE-BY-ZERO")
       ELSE TensorValue("f32", inputs[1].shape, [c \in lanes |-> lane(c)[1]])

InstructionValue(r, i) ==
    LET operand(k) == r.values[i.operands[k]]
        operands == [k \in DOMAIN i.operands |-> operand(k)]
    IN CASE i.op = "Integer" -> Int64(i.constant[1])
         [] i.op = "Float" -> Float(i.constant[1])
         [] i.op = "Boolean" -> Boolean(i.constant = <<1>>)
         [] i.op = "LoadBinding" -> r.slots[i.binding].value
         [] i.op = "TensorLiteral" -> LiteralValue(i, operands)
         [] i.op = "Tuple" -> TupleValue(operands)
         [] i.op \in {"Copy", "Move", "MutableBorrow"} -> operand(1)
         [] i.op = "StopGradient" -> IF i.id \in DOMAIN r.pinned THEN r.pinned[i.id] ELSE operand(1)
         [] i.op = "Negate" -> NegateValue(operand(1))
         [] i.op \in {"Add", "Subtract"} -> Elementwise(i.op, operand(1), operand(2))
         [] i.op \in {"Multiply", "ElementMultiply"} -> Elementwise("Multiply", operand(1), operand(2))
         [] i.op = "Matmul" -> MatmulValue(operand(1), operand(2))
         [] i.op \in {"Index", "Slice"} -> IndexValue(r.values, operand(1), i.selectors)
         [] i.op = "Transpose" -> TransposeValue(operand(1))
         [] i.op = "Sum" -> SumValue(operand(1), i.axis)
         [] i.op = "ZeroLike" -> ZeroLikeValue(operand(1))
         [] i.op = "ReduceToShape" -> ReduceToShapeValue(operand(1), operand(2))
         [] i.op = "BroadcastToShape" -> BroadcastToShapeValue(operand(1), operand(2), i.axis)
         [] OTHER -> ExtensionValue(Registry[i.operation], operands)

Typed(value, type) ==
    IF IsFailure(value) \/ RuntimeType(value, type) THEN value ELSE Failure("TH005-RUNTIME-TYPE")

-----------------------------------------------------------------------------
(* Blocks, calls, loops and scans.                                         *)

RECURSIVE Execute(_, _, _, _), ForLoop(_, _, _, _, _, _), WhileLoop(_, _, _, _)

\* The callee's frame at its end; Back gives the caller its own frame again.
ReturnedFrom(done) == IF done.signal = "Return" THEN done ELSE Fail(done, "TH005-INVALID-IR")
Invoke(m, g, arguments, handles, r) ==
    LET parameters == m[g].parameters
        entered == [r EXCEPT !.depth = @ + 1, !.values = arguments, !.handles = handles,
                             !.slots = [k \in DOMAIN arguments |-> Slot(arguments[k], handles[k])]]
    IN CASE r.depth = MaxDepth -> Fail(r, "TH005-CALL-DEPTH")
         [] \E k \in DOMAIN arguments : ~RuntimeType(arguments[k], parameters[k].type) ->
                Fail(r, "TH005-RUNTIME-TYPE")
         [] OTHER -> ReturnedFrom(Execute(m, m[g], 1, entered))
Back(done, r) ==
    [done EXCEPT !.depth = r.depth, !.values = r.values, !.handles = r.handles, !.slots = r.slots,
                 !.signal = r.signal, !.returned = r.returned]

TakeResult(done, r, i) ==
    IF done.failure # "" THEN done
    ELSE Give(Back(done, r), i.id, Typed(done.values[done.returned], i.type),
              done.handles[done.returned])
CallFrom(m, r, i) ==
    TakeResult(Invoke(m, i.callee, [k \in DOMAIN i.operands |-> r.values[i.operands[k]]],
                      [k \in DOMAIN i.operands |-> r.handles[i.operands[k]]], r), r, i)
CallStep(m, f, r, i) == CallFrom(m, Borrows(f, m[i.callee], r, i), i)

InstructionStep(m, f, r, i) ==
    IF i.op = "Call" THEN CallStep(m, f, r, i)
    ELSE Give([Touch(f, r, i) EXCEPT !.objects = @ + 1], i.id,
              Typed(InstructionValue(r, i), i.type), Handle(r, i))

\* A rebind drops what the binding held; reshaped remembers one that changed a tensor's shape.
WriteStep(r, w) ==
    LET value == r.values[w.value]
        dropped == IF w.declaration THEN r ELSE Unroot(r, {w.binding})
    IN [dropped EXCEPT !.slots = With(@, w.binding, Slot(value, r.handles[w.value])),
                       !.reshaped = @ \/ (~w.declaration /\ IsTensorValue(value)
                                          /\ r.slots[w.binding].value.shape # value.shape)]

FlowStep(f, r, s) ==
    IF s.kind = "Return" THEN [LeaveFrame(f, r, s.value) EXCEPT !.signal = "Return", !.returned = s.value]
    ELSE [r EXCEPT !.signal = s.kind]

\* Checked signed induction: the last iteration never increments.
ForBody(m, f, r, s, i) ==
    IF Stopped(r) THEN r
    ELSE Execute(m, f, s.bodyBlock,
                 [r EXCEPT !.slots = With(@, s.induction, Slot(Int64(i), NoResource))])
ForNext(m, f, body, s, i, end) ==
    CASE body.failure # "" \/ body.signal = "Return" -> body
      [] body.signal = "Break" \/ i = MaxI64 -> [body EXCEPT !.signal = "Normal"]
      [] OTHER -> ForLoop(m, f, [body EXCEPT !.signal = "Normal"], s, i + 1, end)
ForLoop(m, f, r, s, i, end) ==
    IF Stopped(r) \/ i >= end THEN r
    ELSE ForNext(m, f, ForBody(m, f, GuardIteration(r), s, i), s, i, end)

WhileTest(m, f, r, s) == IF Stopped(r) THEN r ELSE Execute(m, f, s.conditionBlock, r)
WhileNext(m, f, body, s) ==
    CASE body.failure # "" \/ body.signal = "Return" -> body
      [] body.signal = "Break" -> [body EXCEPT !.signal = "Normal"]
      [] OTHER -> WhileLoop(m, f, [body EXCEPT !.signal = "Normal"], s)
WhileBody(m, f, tested, s) ==
    CASE tested.failure # "" -> tested
      [] tested.signal # "Normal" -> Fail(tested, "TH005-INVALID-IR")
      [] ~tested.values[s.condition].truth -> tested
      [] OTHER -> WhileNext(m, f, Execute(m, f, s.bodyBlock, tested), s)
WhileLoop(m, f, r, s) == WhileBody(m, f, WhileTest(m, f, GuardIteration(r), s), s)

\* One call of the step per leading element, the state handed on.
PairFailure(pair, current, s, stateType) ==
    CASE ~RuntimeType(pair[1], s.outputType) -> "TH012-OUTPUT-TYPE"
      [] IsTensor(s.outputType) /\ ShapeOf(pair[1]) # s.outputShape -> "TH012-OUTPUT-SHAPE"
      [] ~RuntimeType(pair[2], stateType) -> "TH012-NEXT-STATE-TYPE"
      [] ~SameRuntimeShape(current, pair[2], stateType) -> "TH012-STATE-SHAPE"
      [] OTHER -> ""
ScanTake(m, r, s, acc, done) ==
    LET pair == done.values[done.returned].elements
        handle == done.handles[done.returned].elements
        failed == PairFailure(pair, acc.current, s, m[s.stepFunction].result.elements[2])
    IN IF done.failure # "" THEN [acc EXCEPT !.r = done]
       ELSE [r |-> IF failed = "" THEN Back(done, r) ELSE Fail(done, failed),
             outputs |-> Append(acc.outputs, pair[1]), current |-> pair[2],
             handle |-> IF Len(handle) = 2 THEN handle[2] ELSE done.handles[done.returned]]
ScanInvoke(m, r, s, acc, index, guarded) ==
    LET captured(at) == [k \in DOMAIN s.captures |-> at[s.captures[k]]]
        sequence == r.values[s.sequence]
        element == IF Len(sequence.shape) = 1 THEN NoResource
                   ELSE [r.handles[s.sequence] EXCEPT !.source = 0]
    IN IF guarded.failure # "" THEN [acc EXCEPT !.r = guarded]
       ELSE ScanTake(m, r, s, acc,
                     Invoke(m, s.stepFunction,
                            <<LeadingElement(sequence, index), acc.current>> \o captured(r.values),
                            <<element, acc.handle>> \o captured(r.handles), guarded))
ScanResult(s, last) ==
    IF last.r.failure # "" THEN last.r
    ELSE Give([last.r EXCEPT !.objects = @ + 1], s.result,
              TupleValue(<<StackOutputs(last.outputs, s.outputType, s.outputShape), last.current>>),
              [NoResource EXCEPT !.elements = <<TypedFresh(last.r.objects, Collected(s.outputType)),
                                                last.handle>>])
ScanStep(m, f, r, s) ==
    ScanResult(s, FoldLeft(LAMBDA acc, k :
                                IF acc.r.failure # "" THEN acc
                                ELSE ScanInvoke(m, r, s, acc, k - 1, GuardIteration(acc.r)),
                           [r |-> r, outputs |-> <<>>, current |-> r.values[s.initialState],
                            handle |-> r.handles[s.initialState]],
                           [k \in 1..r.values[s.sequence].shape[1] |-> k]))

StructuredStep(m, f, r, s) ==
    CASE s.kind = "If" ->
            LET chosen == IF r.values[s.condition].truth THEN s.thenBlock ELSE s.elseBlock
            IN IF chosen = 0 THEN r ELSE Execute(m, f, chosen, r)
      [] s.kind = "ForRange" ->
            ForLoop(m, f, r, s, r.values[s.start].number, r.values[s.end].number)
      [] s.kind = "While" -> WhileLoop(m, f, r, s)
      [] OTHER -> ScanStep(m, f, r, s)

CheckStep(r, failure) == IF failure = "" THEN r ELSE Fail(r, failure)
StepOf(m, f, r, s) ==
    CASE s.step = "check" -> CheckStep(r, CheckFailure(r, s))
      [] s.step = "write" -> WriteStep(r, s)
      [] s.step = "flow" -> FlowStep(f, r, s)
      [] s.step = "structured" -> StructuredStep(m, f, r, s)
      [] OTHER -> InstructionStep(m, f, r, s)
Take(m, f, r, s) ==
    CASE Stopped(r) -> r
      [] r.steps = MaxSteps -> Fail(r, "TH005-RESOURCE-LIMIT")
      [] OTHER -> StepOf(m, f, [r EXCEPT !.steps = @ + 1], s)

\* The bindings of a block are gone after it.
Execute(m, f, b, r) ==
    Unroot(FoldLeft(LAMBDA acc, s : Take(m, f, acc, s), r, f.blocks[b].steps),
           {meta.id : meta \in Range(f.blocks[b].bindings)})

\* A call from outside: a verified module, and arguments that hold distinct tensors.
CallVerified(m, g, arguments, pinned) ==
    Invoke(m, g, arguments,
           [k \in DOMAIN arguments |-> TypedFresh(-k, m[g].parameters[k].type)], NewRun(pinned))
EvaluateCall(m, g, arguments, pinned) ==
    IF Verify(m) THEN CallVerified(m, g, arguments, pinned)
    ELSE Fail(NewRun(pinned), "TH005-INVALID-IR")
ResultOf(r) == r.values[r.returned]
=============================================================================
