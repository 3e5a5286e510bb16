------------------------------ MODULE Analyzer ------------------------------
(***************************************************************************)
(* The semantic analyzer: surface syntax to IR with types, static shape    *)
(* facts, constants, runtime checks where a fact is not known, and access  *)
(* modes.  Every function states its result type and follows the functions *)
(* it scans with, so result inference is left out; so are imports, the     *)
(* module initializer and the spelling of names and literals.              *)
(*                                                                         *)
(* Analysis threads one state s through the syntax.  s.error stops it, and *)
(* s.out is the value just emitted with its fact.                          *)
(***************************************************************************)
EXTENDS Values, Extensions

\* Surface syntax.
Name(name) == [node |-> "name", name |-> name]
IntLit(n) == [node |-> "int", number |-> n]
RealLit(n) == [node |-> "real", number |-> n]
BoolLit(b) == [node |-> "truth", number |-> IF b THEN 1 ELSE 0]
Literal(rows) == [node |-> "literal", rows |-> rows]
TupleExpr(elements) == [node |-> "tuple", elements |-> elements]
Own(kind, operand) == [node |-> "own", kind |-> kind, operand |-> operand]
Minus(operand) == [node |-> "minus", operand |-> operand]
Binary(op, left, right) == [node |-> "binary", op |-> op, left |-> left, right |-> right]
Call(function, arguments) ==
    [node |-> "call", callee |-> "function", function |-> function, arguments |-> arguments]
CallNamed(callee, arguments) ==
    [node |-> "call", callee |-> callee, function |-> 0, arguments |-> arguments]
Step(function) == [node |-> "step", function |-> function]
Transposed(object) == [node |-> "transposed", object |-> object]
At(object, axes) == [node |-> "index", object |-> object, axes |-> axes]
Pick(value) == [slice |-> FALSE, value |-> value]
Span(start, end, by) == [slice |-> TRUE, start |-> start, end |-> end, by |-> by]

Let(name, value) == [stmt |-> "let", name |-> name, mutable |-> FALSE, value |-> value]
LetMut(name, value) == [stmt |-> "let", name |-> name, mutable |-> TRUE, value |-> value]
Rebind(name, value) == [stmt |-> "rebind", name |-> name, value |-> value]
Return(value) == [stmt |-> "return", value |-> value]
Do(value) == [stmt |-> "do", value |-> value]
If(condition, then, else) ==
    [stmt |-> "if", condition |-> condition, then |-> then, else |-> else]
For(variable, start, end, body) ==
    [stmt |-> "for", variable |-> variable, start |-> start, end |-> end, body |-> body]
While(condition, body) == [stmt |-> "while", condition |-> condition, body |-> body]
Break == [stmt |-> "break"]
Continue == [stmt |-> "continue"]
Param(name, type, access) == [name |-> name, type |-> type, access |-> access]
Fn(parameters, result, body) == [parameters |-> parameters, result |-> result, body |-> body]

-----------------------------------------------------------------------------
\* What is known of a value: <<>> is no constant.
Fact(type, shape, constant) == [type |-> type, shape |-> shape, constant |-> constant]
Numeric(type) == NumericScalar(type) \/ NumericTensor(type)

Failed(s) == s.error # ""
Require(s, holds, id) == IF Failed(s) \/ holds THEN s ELSE [s EXCEPT !.error = id]
AddStep(s, step) ==
    IF Failed(s) THEN s
    ELSE [s EXCEPT !.functions[s.f].blocks[s.block].steps = Append(@, step)]

CheckedInI64 ==
    {"Negate", "Add", "Subtract", "Multiply", "ElementMultiply", "Matmul", "Sum"}
EffectOf(instruction, fact) ==
    CASE fact.constant # <<>> /\ fact.type = I64
            /\ instruction.op \in {"Negate", "Add", "Subtract", "Multiply"} -> "Pure"
      [] \/ instruction.op \in {"Index", "Slice", "Call"}
         \/ Dtype(fact.type) = I64 /\ instruction.op \in CheckedInI64 -> "CheckedFailure"
      [] OTHER -> instruction.effect

Emit(s, instruction, fact) ==
    IF Failed(s) THEN s
    ELSE [AddStep(s, [instruction EXCEPT !.id = s.value, !.type = fact.type, !.shape = fact.shape,
                                         !.effect = EffectOf(instruction, fact)])
          EXCEPT !.value = @ + 1, !.out = [id |-> s.value, fact |-> fact]]

(***************************************************************************)
(* Expressions.                                                            *)
(***************************************************************************)
RECURSIVE Expr(_, _)

\* The expressions in order, with what each gave.
Located(r, t) == [state |-> t, at |-> IF Failed(t) THEN r.at ELSE Append(r.at, t.out)]
Each(expressions, s) ==
    FoldLeft(LAMBDA r, e : Located(r, Expr(e, r.state)), [state |-> s, at |-> <<>>], expressions)
Ids(located) == [k \in DOMAIN located |-> located[k].id]

Load(e, s) ==
    IF e.name \notin DOMAIN s.locals THEN Require(s, FALSE, "TH005-UNDEFINED-NAME")
    ELSE LET local == s.locals[e.name]
             fact == IF local.mutable THEN [local.fact EXCEPT !.constant = <<>>] ELSE local.fact
         IN Emit(s, [Instruction("LoadBinding", <<>>) EXCEPT !.binding = local.id], fact)

LiteralExpr(rows, each) ==
    LET types == {each.at[k].fact.type : k \in DOMAIN each.at}
        element == IF types = {} THEN I64 ELSE CHOOSE type \in types : TRUE
        shape == IF Len(rows) = 1 THEN <<Len(rows[1])>> ELSE <<Len(rows), Len(rows[1])>>
    IN Emit(Require(each.state, Cardinality(types) <= 1 /\ types \subseteq {I64, F32},
                    "TH005-TENSOR-ELEMENT"),
            Instruction("TensorLiteral", Ids(each.at)),
            Fact(TensorType(element, Len(shape)), shape, <<>>))

TupleOfExpr(each) ==
    Emit(each.state, Instruction("Tuple", Ids(each.at)),
         Fact(TupleType([k \in DOMAIN each.at |-> each.at[k].fact.type]), <<>>, <<>>))

\* copy(e) and move(binding); a mutable borrow is legal only as an argument.
OwnershipMode(e, s) ==
    Require(s, e.kind # "MutableBorrow" /\ (e.kind = "Move" => e.operand.node = "name"),
            "TH006-ACCESS-MODE")
OwnershipExpr(e, value) ==
    Emit(value, [Instruction(e.kind, <<value.out.id>>) EXCEPT
                    !.binding = IF e.kind = "Move" THEN value.locals[e.operand.name].id ELSE 0],
         value.out.fact)

IntegerExpr(n, s) ==
    Emit(s, [Instruction("Integer", <<>>) EXCEPT !.constant = <<n>>], Fact(I64, <<>>, <<n>>))
MinusExpr(value) ==
    LET fact == value.out.fact
    IN Emit(Require(Require(value, Numeric(fact.type), "TH005-OPERAND-TYPE"),
                    fact.constant # <<MinI64>>, "TH-SPEC-I64-OVERFLOW"),
            Instruction("Negate", <<value.out.id>>),
            Fact(fact.type, fact.shape, IF fact.constant = <<>> THEN <<>> ELSE <<-fact.constant[1]>>))

\* The known extent of axis d of an operand aligned to a rank.
FactExtent(fact, d, rank) ==
    IF d <= rank - fact.type.rank THEN 1 ELSE fact.shape[d - (rank - fact.type.rank)]

MatmulExpr(s, ids, a, b) ==
    LET left == a.shape[2]
        right == b.shape[1]
        t == Require(Require(s, a.type.rank = 2 /\ b.type.rank = 2, "TH005-MATMUL-RANK"),
                     Unknown \in {left, right} \/ left = right, "TH-SPEC-SHAPE")
    IN IF Failed(t) THEN t
       ELSE Emit(IF Unknown \in {left, right} THEN AddStep(t, Check("MatmulShape", ids, <<>>, 0)) ELSE t,
                 Instruction("Matmul", ids),
                 Fact(TensorType(Dtype(a.type), 2), <<a.shape[1], b.shape[2]>>, <<>>))

\* The axes whose agreement only a run can show, and the shape that comes out of the others.
OpenAxes(a, b, rank) ==
    {d \in 1..rank : LET x == FactExtent(a, d, rank)
                         y == FactExtent(b, d, rank)
                     IN Unknown \in {x, y} /\ x # 1 /\ y # 1}
BroadcastFact(a, b, rank, open) ==
    [d \in 1..rank |-> CASE d \in open -> Unknown
                         [] FactExtent(a, d, rank) = 1 -> FactExtent(b, d, rank)
                         [] OTHER -> FactExtent(a, d, rank)]
AxesAgree(a, b, rank, open) ==
    \A d \in 1..rank \ open : \/ FactExtent(a, d, rank) = FactExtent(b, d, rank)
                              \/ 1 \in {FactExtent(a, d, rank), FactExtent(b, d, rank)}
FoldedConstant(op, type, a, b) ==
    IF type = I64 /\ a.constant # <<>> /\ b.constant # <<>>
    THEN <<Arithmetic(op, a.constant[1], b.constant[1])>> ELSE <<>>
EmitElementwise(s, op, ids, rank, fact) ==
    Emit(Require(s, fact.constant = <<>> \/ InI64(fact.constant[1]), "TH-SPEC-I64-OVERFLOW"),
         Instruction(IF rank > 0 /\ op = "Multiply" THEN "ElementMultiply" ELSE op, ids), fact)

ElementwiseExpr(s, op, ids, a, b) ==
    LET rank == Max({a.type.rank, b.type.rank})
        open == OpenAxes(a, b, rank)
        t == Require(s, AxesAgree(a, b, rank, open), "TH-SPEC-BROADCAST")
        type == IF rank = 0 THEN a.type ELSE TensorType(Dtype(a.type), rank)
    IN EmitElementwise(IF open # {} THEN AddStep(t, Check("Broadcast", ids, <<>>, 0)) ELSE t,
                       op, ids, rank,
                       Fact(type, BroadcastFact(a, b, rank, open), FoldedConstant(op, type, a, b)))

BinaryOf(op, t, ids, a, b) ==
    IF Failed(t) THEN t
    ELSE IF op = "Multiply" /\ IsTensor(a.type) /\ IsTensor(b.type) THEN MatmulExpr(t, ids, a, b)
    ELSE ElementwiseExpr(t, op, ids, a, b)
BinaryExpr(op, each) ==
    LET a == each.at[1].fact
        b == each.at[2].fact
    IN BinaryOf(op, Require(each.state, /\ Numeric(a.type) /\ Numeric(b.type)
                                        /\ Dtype(a.type) = Dtype(b.type), "TH005-OPERAND-TYPE"),
                Ids(each.at), a, b)

TransposedExpr(value) ==
    LET fact == value.out.fact
    IN Emit(Require(value, NumericTensor(fact.type) /\ fact.type.rank = 2, "TH005-UNSUPPORTED-MEMBER"),
            [Instruction("Transpose", <<value.out.id>>) EXCEPT !.view = TRUE],
            Fact(fact.type, Reverse(fact.shape), <<>>))

(***************************************************************************)
(* Indexing: one axis at a time, from the left.                            *)
(***************************************************************************)
PickAxis(r, d, object, value) ==
    LET index == value.out.fact.constant
        extent == object.fact.shape[d]
        open == index = <<>> \/ extent = Unknown
        t == Require(Require(value, value.out.fact.type = I64, "TH005-INDEX-TYPE"),
                     index = <<>> \/ (index[1] >= 0 /\ (extent = Unknown \/ index[1] < extent)),
                     "TH-SPEC-BOUNDS")
    IN IF Failed(t) THEN [r EXCEPT !.state = t]
       ELSE [r EXCEPT
                !.state = IF open THEN AddStep(t, Check("Bounds", <<object.id, value.out.id>>, <<>>, d))
                          ELSE t,
                !.selectors = Append(@, IndexSelector(value.out.id))]

\* What is known of a slice: constants of its start, end and step, and the extent it is cut from.
Lies(c, Holds(_)) == c = <<>> \/ Holds(c[1])
SliceLegal(start, end, by, extent) ==
    /\ Lies(by, LAMBDA n : n > 0)
    /\ Lies(start, LAMBDA n : n >= 0) /\ Lies(end, LAMBDA n : n >= 0)
    /\ start = <<>> \/ end = <<>> \/ start[1] <= end[1]
    /\ end = <<>> \/ extent = <<>> \/ end[1] <= extent[1]
SpanOf(r, t, d, object, selector, known) ==
    LET length == IF <<>> \in {known[1], known[2], known[3]} THEN Unknown
                  ELSE SliceExtent(known[1][1], known[2][1], known[3][1])
    IN IF Failed(t) THEN [r EXCEPT !.state = t]
       ELSE [state |-> IF <<>> \in Range(known)
                       THEN AddStep(t, Check("Slice", <<object.id>>, <<selector>>, d)) ELSE t,
             selectors |-> Append(r.selectors, selector), shape |-> Append(r.shape, length)]

\* A field is <<expression>> or <<>>; start is 0, by is 1 and end the extent when left out.
SpanAxis(r, axis, d, object, each) ==
    LET kEnd == Len(axis.start) + 1
        kBy == Len(axis.start) + Len(axis.end) + 1
        id(field, k) == IF field = <<>> THEN 0 ELSE each.at[k].id
        extent == IF object.fact.shape[d] = Unknown THEN <<>> ELSE <<object.fact.shape[d]>>
        constant(field, k, otherwise) ==
            IF field = <<>> THEN otherwise ELSE each.at[k].fact.constant
        known == <<constant(axis.start, 1, <<0>>), constant(axis.end, kEnd, extent),
                   constant(axis.by, kBy, <<1>>), extent>>
        t == Require(each.state, \A k \in DOMAIN each.at : each.at[k].fact.type = I64,
                     "TH005-SLICE-TYPE")
    IN IF Failed(t) THEN [r EXCEPT !.state = t]
       ELSE SpanOf(r, Require(t, SliceLegal(known[1], known[2], known[3], extent), "TH-SPEC-SLICE"),
                   d, object, SliceSelector(id(axis.start, 1), id(axis.end, kEnd), id(axis.by, kBy)),
                   known)

AxisExpr(r, axis, d, object) ==
    IF Failed(r.state) THEN r
    ELSE IF axis.slice
    THEN SpanAxis(r, axis, d, object, Each(axis.start \o axis.end \o axis.by, r.state))
    ELSE PickAxis(r, d, object, Expr(axis.value, r.state))

EmitIndex(axes, object, r, shape) ==
    LET element == Dtype(object.fact.type)
        sliced == \E d \in DOMAIN axes : axes[d].slice
    IN Emit(r.state,
            [Instruction(IF sliced THEN "Slice" ELSE "Index", <<object.id>>)
                EXCEPT !.selectors = r.selectors, !.view = shape # <<>>],
            Fact(IF shape = <<>> THEN element ELSE TensorType(element, Len(shape)), shape, <<>>))
IndexOf(axes, object, r) ==
    EmitIndex(axes, object, r,
              r.shape \o SubSeq(object.fact.shape, Len(axes) + 1, object.fact.type.rank))
IndexExpr(axes, value) ==
    LET object == value.out
        t == Require(Require(value, NumericTensor(object.fact.type), "TH005-INDEX-TYPE"),
                     Len(axes) <= object.fact.type.rank, "TH005-INDEX-RANK")
    IN IndexOf(axes, object,
               FoldLeft(LAMBDA r, d : AxisExpr(r, axes[d], d, object),
                        [state |-> t, selectors |-> <<>>, shape |-> <<>>], [d \in DOMAIN axes |-> d]))

(***************************************************************************)
(* Calls: of a function, by number, or of "sum", "stop_gradient", "scan"   *)
(* or a registered operation, by name.                                     *)
(***************************************************************************)
SumExpr(each) ==
    LET fact == each.at[1].fact
        axis == each.at[2].fact.constant
        shape == RemoveAt(fact.shape, axis[1] + 1)
        t == Require(each.state, NumericTensor(fact.type) /\ each.at[2].fact.type = I64,
                     "TH005-ARGUMENT-TYPE")
    IN Emit(Require(Require(t, axis # <<>>, "TH005-DYNAMIC-AXIS"),
                    axis[1] \in 0..(fact.type.rank - 1), "TH-SPEC-AXIS"),
            [Instruction("Sum", Ids(each.at)) EXCEPT !.axis = axis[1]],
            Fact(IF shape = <<>> THEN Dtype(fact.type) ELSE TensorType(Dtype(fact.type), Len(shape)),
                 shape, <<>>))

StopGradientExpr(value) ==
    Emit(Require(value, DifferentiableType(value.out.fact.type), "TH010-STOP-GRADIENT-TYPE"),
         Instruction("StopGradient", <<value.out.id>>), value.out.fact)

Registered(name) == SelectInSeq(Registry, LAMBDA op : op.name = name)

\* An operand must have the type and, where it is known, the shape of the result operand.
ShapesClash(a, b) ==
    \E d \in DOMAIN a : Unknown \notin {a[d], b[d]} /\ a[d] # b[d]
CheckWhenOpen(t, open, check) == IF open THEN AddStep(t, check) ELSE t
ExtensionOperand(t, op, k, operand, like) ==
    LET fact == operand.fact
    IN CheckWhenOpen(
            Require(Require(Require(Require(t,
                IsTensor(fact.type) /\ Dtype(fact.type) = F32, "TH021-DTYPE"),
                fact.type.rank \in op.minimumRank..op.maximumRank, "TH021-RANK"),
                fact.type = like.fact.type, "TH021-TYPE"),
                ~ShapesClash(fact.shape, like.fact.shape), "TH021-SHAPE"),
            k # op.like /\ ~(Known(fact.shape) /\ Known(like.fact.shape)),
            Check("ExtensionShape", <<like.id, operand.id>>, <<>>, 0))
ExtensionExpr(number, op, each) ==
    LET operand(t, k) ==
            IF Failed(t) THEN t ELSE ExtensionOperand(t, op, k, each.at[k], each.at[op.like])
        like == each.at[op.like].fact
    IN Emit(FoldLeft(operand, each.state, [k \in 1..op.arity |-> k]),
            [Instruction("Extension", Ids(each.at))
                EXCEPT !.operation = number, !.access = [k \in 1..op.arity |-> "Read"],
                       !.effect = IF op.mayTrap THEN "CheckedFailure" ELSE "Pure"],
            Fact(like.type, like.shape, <<>>))

\* The argument of a parameter, written the way the parameter's access mode demands.
BorrowLegal(e, s) ==
    Require(Require(Require(s, e.node = "own" /\ e.kind = "MutableBorrow" /\ e.operand.node = "name",
                            "TH006-ACCESS-MODE"),
                    e.operand.name \in DOMAIN s.locals, "TH005-UNDEFINED-NAME"),
            s.locals[e.operand.name].mutable, "TH006-MUT-BORROW-IMMUTABLE")
EmitBorrow(binding, loaded) ==
    Emit(loaded, [Instruction("MutableBorrow", <<loaded.out.id>>) EXCEPT !.binding = binding],
         loaded.out.fact)
PlainLegal(parameter, e, s) ==
    LET own == IF e.node = "own" THEN e.kind ELSE ""
    IN Require(s, /\ parameter.access = "Consume" => own = "Move"
                  /\ parameter.access = "Read" => own # "MutableBorrow", "TH006-ACCESS-MODE")
TypedArgument(parameter, value) ==
    Require(value, value.out.fact.type = parameter.type, "TH005-ARGUMENT-TYPE")
Argument(parameter, e, s) ==
    TypedArgument(parameter,
        IF parameter.access = "MutableBorrow"
        THEN EmitBorrow(s.locals[e.operand.name].id, Load(e.operand, BorrowLegal(e, s)))
        ELSE Expr(e, PlainLegal(parameter, e, s)))

CallOf(number, callee, each) ==
    Emit(each.state, [Instruction("Call", Ids(each.at))
                        EXCEPT !.callee = number,
                               !.access = [k \in DOMAIN each.at |-> callee.parameters[k].access]],
         Fact(callee.result, UnknownShape(callee.result), <<>>))
FunctionCall(e, callee, s) ==
    LET argument(r, k) ==
            IF Failed(r.state) THEN r
            ELSE Located(r, Argument(callee.parameters[k], e.arguments[k], r.state))
    IN CallOf(e.function, callee,
              FoldLeft(argument,
                       [at |-> <<>>, state |-> Require(s, Len(e.arguments) = Len(callee.parameters),
                                                       "TH005-ARITY")],
                       [k \in DOMAIN callee.parameters |-> k]))

RECURSIVE ScanRuntimeType(_)
ScanRuntimeType(t) ==
    \/ t \in {I64, F32, Bool} \/ (IsTensor(t) /\ NumericScalar(Dtype(t)) /\ t.rank <= 2)
    \/ IsTuple(t) /\ \A k \in DOMAIN t.elements : ScanRuntimeType(t.elements[k])

\* The one known shape every return of the step gives one element of its pair, or <<Unknown>>.
ScanElementShape(step, element) ==
    LET shapeOf(id) ==
            CHOOSE shape \in {i.shape : i \in {i \in Instructions(step) : i.id = id}}
                             \union {UnknownShape(p.type) : p \in {p \in Range(step.parameters) : p.id = id}} : TRUE
        pairs == {{i \in InstructionsOf(step, "Tuple") : i.id = id} : id \in Returns(step)}
        shapes == {shapeOf((CHOOSE i \in pair : TRUE).operands[element]) : pair \in pairs \ {{}}}
    IN IF {} \in pairs \/ Cardinality(shapes) # 1 \/ \E shape \in shapes : ~Known(shape)
       THEN <<Unknown>> ELSE CHOOSE shape \in shapes : TRUE

ScalarOutput(type) == NumericScalar(type)
VectorOutput(type) == NumericTensor(type) /\ type.rank = 1
Collected(output) == TensorType(Dtype(output), output.rank + 1)

\* scan(step, sequence, state, captures...)
ScanSignature(step, count, s) ==
    Require(Require(Require(s, Len(step.parameters) = count, "TH012-STEP-ARITY"),
                    \A p \in Range(step.parameters) : p.access = "Read", "TH012-STEP-ACCESS"),
            IsTuple(step.result) /\ Len(step.result.elements) = 2, "TH012-STEP-RESULT")
ScanTypes(step, each, sequence, state) ==
    LET element == IF sequence.type.rank = 1 THEN Dtype(sequence.type)
                   ELSE TensorType(Dtype(sequence.type), sequence.type.rank - 1)
        t == Require(each.state, NumericTensor(sequence.type) /\ step.parameters[1].type = element,
                     "TH012-INPUT-TYPE")
    IN Require(Require(t, step.parameters[2].type = state.type /\ ScanRuntimeType(state.type),
                       "TH012-STATE-TYPE"),
               step.result.elements[2] = state.type, "TH012-NEXT-STATE-TYPE")
ScanShapes(t, output, outputShape, state, nextShape) ==
    Require(Require(Require(t, ScalarOutput(output) \/ VectorOutput(output), "TH012-OUTPUT-TYPE"),
                    Known(outputShape), "TH012-OUTPUT-SHAPE"),
            IsTensor(state.type) /\ Known(state.shape) /\ Known(nextShape)
                => state.shape = nextShape, "TH012-STATE-SHAPE")
ScanCaptures(t, step, each) ==
    Require(t, \A k \in 3..Len(each.at) : /\ each.at[k].fact.type = step.parameters[k].type
                                          /\ ScanRuntimeType(each.at[k].fact.type),
            "TH012-CAPTURE-TYPE")
EmitScan(t, number, each, output, outputShape, state) ==
    IF Failed(t) THEN t
    ELSE [AddStep(t, [NoStructured EXCEPT
                        !.kind = "Scan", !.stepFunction = number, !.sequence = each.at[1].id,
                        !.initialState = each.at[2].id, !.result = t.value,
                        !.captures = SubSeq(Ids(each.at), 3, Len(each.at)),
                        !.outputType = output, !.outputShape = outputShape])
            EXCEPT !.value = @ + 1,
                   !.out = [id |-> t.value,
                            fact |-> Fact(TupleType(<<Collected(output), state.type>>), <<>>, <<>>)]]
ScanOf(number, step, each, output, outputShape) ==
    LET state == each.at[2].fact
    IN EmitScan(ScanCaptures(ScanShapes(ScanTypes(step, each, each.at[1].fact, state),
                                        output, outputShape, state, ScanElementShape(step, 2)),
                             step, each),
                number, each, output, outputShape, state)
ScanExpr(number, step, each) ==
    LET output == step.result.elements[1]
    IN ScanOf(number, step, each, output,
              IF VectorOutput(output) THEN ScanElementShape(step, 1) ELSE <<>>)

CallExpr(e, s) ==
    CASE e.callee = "sum" -> SumExpr(Each(e.arguments, s))
      [] e.callee = "stop_gradient" -> StopGradientExpr(Expr(e.arguments[1], s))
      [] e.callee = "scan" ->
            LET step == s.functions[e.arguments[1].function]
            IN ScanExpr(e.arguments[1].function, step,
                        Each(Tail(e.arguments), ScanSignature(step, Len(e.arguments) - 1, s)))
      [] e.callee = "function" -> FunctionCall(e, s.functions[e.function], s)
      [] Registered(e.callee) # 0 ->
            LET op == Registry[Registered(e.callee)]
            IN ExtensionExpr(Registered(e.callee), op,
                             Each(e.arguments, Require(s, Len(e.arguments) = op.arity, "TH021-ARITY")))
      [] OTHER -> Require(s, FALSE, "TH005-UNKNOWN-FUNCTION")

Expr(e, s) ==
    IF Failed(s) THEN s
    ELSE CASE e.node = "name" -> Load(e, s)
           [] e.node = "int" -> IntegerExpr(e.number, s)
           [] e.node = "real" -> Emit(s, [Instruction("Float", <<>>) EXCEPT !.constant = <<e.number>>],
                                      Fact(F32, <<>>, <<>>))
           [] e.node = "truth" -> Emit(s, [Instruction("Boolean", <<>>) EXCEPT !.constant = <<e.number>>],
                                       Fact(Bool, <<>>, <<>>))
           [] e.node = "literal" -> LiteralExpr(e.rows, Each(FlattenSeq(e.rows), s))
           [] e.node = "tuple" -> TupleOfExpr(Each(e.elements, s))
           [] e.node = "own" -> OwnershipExpr(e, Expr(e.operand, OwnershipMode(e, s)))
           [] e.node = "minus" -> IF e.operand.node = "int" THEN IntegerExpr(-e.operand.number, s)
                                  ELSE MinusExpr(Expr(e.operand, s))
           [] e.node = "binary" -> BinaryExpr(e.op, Each(<<e.left, e.right>>, s))
           [] e.node = "transposed" -> TransposedExpr(Expr(e.object, s))
           [] e.node = "index" -> IndexExpr(e.axes, Expr(e.object, s))
           [] OTHER -> CallExpr(e, s)

(***************************************************************************)
(* Statements.  A nested block sees the locals of its parent, and declares *)
(* its own; its parent's locals come back after it.                        *)
(***************************************************************************)
RECURSIVE AlwaysReturns(_, _)
AlwaysReturns(f, b) ==
    LET steps == f.blocks[b].steps
        flows == {k \in DOMAIN steps : steps[k].step = "flow"}
        both(k) == /\ steps[k].step = "structured" /\ steps[k].kind = "If"
                   /\ steps[k].thenBlock # 0 /\ steps[k].elseBlock # 0
                   /\ AlwaysReturns(f, steps[k].thenBlock) /\ AlwaysReturns(f, steps[k].elseBlock)
    IN \E k \in DOMAIN steps :
          /\ \A j \in 1..(k - 1) : j \notin flows
          /\ both(k) \/ (k \in flows /\ steps[k].kind = "Return")

LetStmt(n, value) ==
    LET fact == value.out.fact
        meta == [name |-> n.name, value |-> value.out.id, mutable |-> n.mutable, id |-> value.binding,
                 type |-> fact.type, shape |-> fact.shape]
        local == [id |-> value.binding, fact |-> fact, mutable |-> n.mutable]
    IN IF Failed(value) THEN value
       ELSE AddStep([value EXCEPT !.functions[value.f].blocks[value.block].bindings = Append(@, meta),
                                  !.locals = n.name :> local @@ @,
                                  !.declared = @ \union {n.name}, !.binding = @ + 1],
                    Write(value.binding, value.out.id, TRUE))

\* The shape fact of the binding stays what its declaration gave.
RebindLegal(n, s) ==
    Require(Require(s, n.name \in DOMAIN s.locals, "TH005-UNDEFINED-NAME"),
            s.locals[n.name].mutable, "TH005-IMMUTABLE-REBIND")
EmitRebind(n, local, t) ==
    IF Failed(t) THEN t
    ELSE AddStep([t EXCEPT !.locals[n.name].fact.constant = <<>>],
                 Write(local.id, t.out.id, FALSE))
RebindStmt(n, local, value) ==
    EmitRebind(n, local, Require(value, value.out.fact.type = local.fact.type, "TH005-REBIND-TYPE"))

EmitReturn(t) ==
    IF Failed(t) THEN t
    ELSE [AddStep(t, Flow("Return", t.out.id)) EXCEPT
            !.functions[t.f].blocks[t.block].returned = t.out.id,
            !.functions[t.f].blocks[t.block].terminated = TRUE]
ReturnStmt(value) ==
    EmitReturn(Require(value, value.out.fact.type = value.functions[value.f].result,
                       "TH005-RETURN-TYPE"))

LoopControl(kind, s) ==
    LET t == Require(s, s.depth > 0, "TH005C-LOOP-CONTROL")
    IN IF Failed(t) THEN t
       ELSE [AddStep(t, Flow(kind, 0)) EXCEPT
                !.functions[s.f].blocks[s.block].terminated = TRUE]

RECURSIVE Statement(_, _)

Body(statements, s) ==
    FoldLeft(LAMBDA acc, n :
                Statement(n, IF Failed(acc) THEN acc
                             ELSE Require(acc, ~(acc.functions[acc.f].blocks[acc.block].terminated
                                                 \/ AlwaysReturns(acc.functions[acc.f], acc.block)),
                                          "TH005-AFTER-RETURN")),
             s, statements)

NextBlock(s) == Len(s.functions[s.f].blocks) + 1
Enter(s, loop) ==
    [s EXCEPT !.functions[s.f].blocks = Append(@, EmptyBlock(s.block)), !.block = NextBlock(s),
              !.declared = {}, !.depth = @ + (IF loop THEN 1 ELSE 0)]
\* Back in the block of s, whose locals the nested statements did not change.
Leave(inner, s) ==
    IF Failed(inner) THEN inner
    ELSE [inner EXCEPT !.functions[s.f].blocks[inner.block].terminated = TRUE, !.block = s.block,
                       !.locals = s.locals, !.declared = s.declared, !.depth = s.depth]

Condition(value) == Require(value, value.out.fact.type = Bool, "TH005C-CONDITION-TYPE")

EmitIf(t, condition, then, else) ==
    AddStep(t, [NoStructured EXCEPT !.kind = "If", !.condition = condition,
                                    !.thenBlock = then, !.elseBlock = else])
ElseOf(n, t, then) ==
    IF Failed(then) \/ n.else = <<>> THEN EmitIf(then, t.out.id, NextBlock(t), 0)
    ELSE EmitIf(Leave(Body(n.else[1], Enter(then, FALSE)), then),
                t.out.id, NextBlock(t), NextBlock(then))
IfStmt(n, t) ==
    IF Failed(t) THEN t ELSE ElseOf(n, t, Leave(Body(n.then, Enter(t, FALSE)), t))

InductionScope(n, t, entered) ==
    LET local == [id |-> t.binding, fact |-> Fact(I64, <<>>, <<>>), mutable |-> FALSE]
        meta == [name |-> n.variable, value |-> 0, mutable |-> FALSE, id |-> t.binding,
                 type |-> I64, shape |-> <<>>]
    IN [entered EXCEPT !.binding = @ + 1, !.declared = {n.variable},
                       !.locals = n.variable :> local @@ @,
                       !.functions[t.f].blocks[entered.block].bindings = <<meta>>]
ForFrom(n, each, t) ==
    IF Failed(t) THEN t
    ELSE AddStep(Leave(Body(n.body, InductionScope(n, t, Enter(t, TRUE))), t),
                 [NoStructured EXCEPT !.kind = "ForRange", !.start = each.at[1].id,
                    !.end = each.at[2].id, !.induction = t.binding, !.bodyBlock = NextBlock(t)])
ForStmt(n, each) ==
    ForFrom(n, each, Require(each.state, each.at[1].fact.type = I64 /\ each.at[2].fact.type = I64,
                             "TH005C-RANGE-TYPE"))

WhileFrom(n, s, condition, t) ==
    IF Failed(t) THEN t
    ELSE AddStep(Leave(Body(n.body, Enter(t, TRUE)), t),
                 [NoStructured EXCEPT !.kind = "While", !.conditionBlock = NextBlock(s),
                                      !.condition = condition.out.id, !.bodyBlock = NextBlock(t)])
WhileStmt(n, s, condition) == WhileFrom(n, s, condition, Leave(Condition(condition), s))

Statement(n, s) ==
    IF Failed(s) THEN s
    ELSE CASE n.stmt = "let" ->
                LetStmt(n, Expr(n.value, Require(s, n.name \notin s.declared,
                                                 "TH005-DUPLICATE-BINDING")))
           [] n.stmt = "rebind" ->
                RebindStmt(n, s.locals[n.name], Expr(n.value, RebindLegal(n, s)))
           [] n.stmt = "return" -> ReturnStmt(Expr(n.value, s))
           [] n.stmt = "do" -> Expr(n.value, s)
           [] n.stmt = "if" -> IfStmt(n, Condition(Expr(n.condition, s)))
           [] n.stmt = "for" -> ForStmt(n, Each(<<n.start, n.end>>, s))
           [] n.stmt = "while" -> WhileStmt(n, s, Expr(n.condition, Enter(s, FALSE)))
           [] n.stmt = "break" -> LoopControl("Break", s)
           [] OTHER -> LoopControl("Continue", s)

(***************************************************************************)
(* A module is analyzed function by function, after all its signatures.    *)
(***************************************************************************)
Signature(declaration) ==
    [parameters |-> [k \in DOMAIN declaration.parameters |->
        [id |-> k, binding |-> k, name |-> declaration.parameters[k].name,
         type |-> declaration.parameters[k].type,
         shape |-> UnknownShape(declaration.parameters[k].type),
         access |-> declaration.parameters[k].access]],
     result |-> declaration.result, blocks |-> <<EmptyBlock(0)>>, generated |-> FALSE]

SignaturesLegal(program) ==
    \A declaration \in Range(program) :
        /\ \A j, k \in DOMAIN declaration.parameters :
              declaration.parameters[j].name = declaration.parameters[k].name => j = k
        /\ \A p \in Range(declaration.parameters) : p.access = "MutableBorrow" => IsTensor(p.type)

FunctionScope(declaration, f, functions) ==
    LET signature == functions[f]
        count == Len(signature.parameters)
        name(k) == declaration.parameters[k].name
        local(k) == [id |-> k, fact |-> Fact(signature.parameters[k].type,
                                             signature.parameters[k].shape, <<>>),
                     mutable |-> signature.parameters[k].access = "MutableBorrow"]
        names == {name(k) : k \in 1..count}
    IN [functions |-> functions, f |-> f, block |-> 1, value |-> count + 1,
        binding |-> count + 1, declared |-> names, depth |-> 0, error |-> "",
        locals |-> [x \in names |-> local(CHOOSE k \in 1..count : name(k) = x)],
        out |-> [id |-> 0, fact |-> Fact(InvalidType, <<>>, <<>>)]]
EnsureReturns(f, s) ==
    LET t == Require(s, s.functions[f].blocks[1].terminated \/ AlwaysReturns(s.functions[f], 1),
                     "TH005-MISSING-RETURN")
    IN IF Failed(t) THEN t ELSE [t EXCEPT !.functions[f].blocks[1].terminated = TRUE]
EnsureFunction(declaration, f, functions) ==
    EnsureReturns(f, Body(declaration.body, FunctionScope(declaration, f, functions)))

AnalyzedSoFar(s) == [functions |-> s.functions, error |-> s.error]
Analyze(program) ==
    LET signatures == [k \in DOMAIN program |-> Signature(program[k])]
    IN IF ~SignaturesLegal(program) THEN [functions |-> signatures, error |-> "TH006-ACCESS-MODE"]
       ELSE FoldLeft(LAMBDA m, f : IF m.error # "" THEN m
                                   ELSE AnalyzedSoFar(EnsureFunction(program[f], f, m.functions)),
                     [functions |-> signatures, error |-> ""], [k \in DOMAIN program |-> k])
=============================================================================
