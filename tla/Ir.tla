--------------------------------- MODULE Ir ---------------------------------
(***************************************************************************)
(* The structured semantic IR of the V0 language: types, shape facts, and  *)
(* the instructions, runtime checks, binding writes, exits and structured  *)
(* nodes of a block.  A function keeps its blocks in one table by BlockId, *)
(* blocks[1] is its body.  A value, a binding and a block are named by     *)
(* their number; 0 is no value, no binding, no block.  Source spans are    *)
(* left out.                                                               *)
(***************************************************************************)
EXTENDS Integers, Sequences, FiniteSets

(***************************************************************************)
(* Types.  u8, i32, u32, u64, f64 and Buffer are represented by the code   *)
(* but not executable, and are left out.                                   *)
(***************************************************************************)
Scalar(kind) == [kind |-> kind, elements |-> <<>>, rank |-> 0]
I64 == Scalar("i64")
F32 == Scalar("f32")
Bool == Scalar("bool")
InvalidType == Scalar("invalid")
TensorType(element, rank) == [kind |-> "tensor", elements |-> <<element>>, rank |-> rank]
TupleType(types) == [kind |-> "tuple", elements |-> types, rank |-> 0]

IsTensor(t) == t.kind = "tensor"
IsTuple(t) == t.kind = "tuple"
Dtype(t) == IF IsTensor(t) THEN t.elements[1] ELSE t
NumericScalar(t) == t \in {I64, F32}

RECURSIVE ValidType(_)
ValidType(t) ==
    CASE IsTensor(t) -> Len(t.elements) = 1 /\ t.elements[1] \in {I64, F32, Bool}
      [] IsTuple(t) -> Len(t.elements) >= 2 /\ \A k \in DOMAIN t.elements : ValidType(t.elements[k])
      [] OTHER -> t \in {I64, F32, Bool}

NumericTensor(t) == IsTensor(t) /\ NumericScalar(t.elements[1]) /\ t.rank \in {1, 2}

RECURSIVE ExecutableType(_)
ExecutableType(t) ==
    \/ t \in {I64, F32, Bool} \/ NumericTensor(t)
    \/ IsTuple(t) /\ \A k \in DOMAIN t.elements : ExecutableType(t.elements[k])

DifferentiableType(t) == t = F32 \/ (NumericTensor(t) /\ t.elements[1] = F32)

\* A type that owns a mutable resource.
RECURSIVE ResourceType(_)
ResourceType(t) ==
    IsTensor(t) \/ (IsTuple(t) /\ \E k \in DOMAIN t.elements : ResourceType(t.elements[k]))

(***************************************************************************)
(* A shape fact has one extent per axis, known or Unknown.                 *)
(***************************************************************************)
Unknown == -1
UnknownShape(t) == [d \in 1..t.rank |-> Unknown]
Known(shape) == \A d \in DOMAIN shape : shape[d] # Unknown
ShapeFits(t, shape) == Len(shape) = t.rank /\ \A d \in DOMAIN shape : shape[d] >= Unknown

(***************************************************************************)
(* Steps.  Modes are the access modes of parameters and arguments.         *)
(***************************************************************************)
Modes == {"Read", "MutableBorrow", "Consume"}

NoInstruction ==
    [step |-> "instruction", id |-> 0, op |-> "Integer", type |-> InvalidType, shape |-> <<>>,
     operands |-> <<>>, selectors |-> <<>>, constant |-> <<>>, callee |-> 0, binding |-> 0,
     access |-> <<>>, axis |-> 0, view |-> FALSE, effect |-> "Pure", operation |-> 0]
Instruction(op, operands) == [NoInstruction EXCEPT !.op = op, !.operands = operands]

Check(kind, operands, selectors, axis) ==
    [step |-> "check", kind |-> kind, operands |-> operands, selectors |-> selectors,
     axis |-> axis]
Write(binding, value, declaration) ==
    [step |-> "write", binding |-> binding, value |-> value, declaration |-> declaration]
Flow(kind, value) == [step |-> "flow", kind |-> kind, value |-> value]

NoStructured ==
    [step |-> "structured", kind |-> "If", condition |-> 0, start |-> 0, end |-> 0,
     induction |-> 0, thenBlock |-> 0, elseBlock |-> 0, conditionBlock |-> 0, bodyBlock |-> 0,
     stepFunction |-> 0, sequence |-> 0, initialState |-> 0, result |-> 0, captures |-> <<>>,
     outputType |-> InvalidType, outputShape |-> <<>>]

IsInstruction(step) == step.step = "instruction"
IsScan(step) == step.step = "structured" /\ step.kind = "Scan"

\* A selector takes one element of an axis, or a slice of it; 0 is a field left out.
IndexSelector(index) == [slice |-> FALSE, index |-> index, start |-> 0, end |-> 0, by |-> 0]
SliceSelector(start, end, by) ==
    [slice |-> TRUE, index |-> 0, start |-> start, end |-> end, by |-> by]

EmptyBlock(parent) ==
    [parent |-> parent, steps |-> <<>>, bindings |-> <<>>, returned |-> 0, terminated |-> FALSE]

(***************************************************************************)
(* Walks over the blocks of a function.                                    *)
(***************************************************************************)
StepsWhere(f, Holds(_)) ==
    UNION {{f.blocks[b].steps[k] : k \in {k \in DOMAIN f.blocks[b].steps : Holds(f.blocks[b].steps[k])}} :
            b \in DOMAIN f.blocks}
Steps(f) == StepsWhere(f, LAMBDA s : TRUE)
Instructions(f) == StepsWhere(f, IsInstruction)
InstructionsOf(f, op) == StepsWhere(f, LAMBDA s : IsInstruction(s) /\ s.op = op)
Returns(f) == {s.value : s \in StepsWhere(f, LAMBDA s : s.step = "flow" /\ s.kind = "Return")}
=============================================================================
