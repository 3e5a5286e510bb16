------------------------------- MODULE Values -------------------------------
(***************************************************************************)
(* Runtime values of the reference evaluator and the operations on them.   *)
(* A tensor maps its coordinates to numbers, so the row-major offsets of   *)
(* the code are left out.  An operation that cannot give a value gives the *)
(* failure the code raises.  i64 arithmetic is checked at the width given  *)
(* by MaxI64; f32 numbers are exact integers, so rounding is left out.     *)
(***************************************************************************)
EXTENDS Ir, TLC, FiniteSetsExt, SequencesExt

CONSTANT MaxI64
ASSUME MaxI64Assumption == MaxI64 \in Nat \ {0}
MinI64 == -MaxI64 - 1

Int64(n) == [kind |-> "i64", number |-> n]
Float(n) == [kind |-> "f32", number |-> n]
Boolean(b) == [kind |-> "bool", truth |-> b]
Number(dtype, n) == [kind |-> dtype, number |-> n]
\* Adding nothing to a function or a sequence has TLC compute its values once, here.
TensorValue(dtype, shape, at) ==
    [kind |-> "tensor", dtype |-> dtype, shape |-> shape \o <<>>, at |-> at @@ <<>>]
TupleValue(values) == [kind |-> "tuple", elements |-> values]
Failure(id) == [kind |-> "failure", id |-> id]

IsTensorValue(v) == v.kind = "tensor"
IsFailure(v) == v.kind = "failure"
DtypeOf(v) == IF IsTensorValue(v) THEN v.dtype ELSE v.kind
ShapeOf(v) == IF IsTensorValue(v) THEN v.shape ELSE <<>>

Coordinates(shape) ==
    {c \in [DOMAIN shape -> 0..(IF shape = <<>> THEN 0 ELSE Max(Range(shape)))] :
        \A d \in DOMAIN shape : c[d] < shape[d]}

\* One number is a scalar, and any other shape a tensor.
Shaped(dtype, shape, at) ==
    IF shape = <<>> THEN Number(dtype, at[<<>>]) ELSE TensorValue(dtype, shape, at)

InI64(n) == MinI64 <= n /\ n <= MaxI64
\* The value at a coordinate of the broadcast result.
ElementAt(v, c) ==
    IF ~IsTensorValue(v) THEN v.number
    ELSE v.at[[d \in DOMAIN v.shape |->
                 IF v.shape[d] = 1 THEN 0 ELSE c[Len(c) - Len(v.shape) + d]]]

\* Every element in range when the dtype is checked.
CheckedShaped(dtype, shape, at) ==
    IF dtype = "i64" /\ \E c \in DOMAIN at : ~InI64(at[c])
    THEN Failure("TH-SPEC-I64-OVERFLOW")
    ELSE Shaped(dtype, shape, at)

(***************************************************************************)
(* Broadcasting aligns trailing axes; an axis of extent 1 stretches.       *)
(***************************************************************************)
Extent(v, d, rank) ==
    LET skip == rank - Len(ShapeOf(v)) IN IF d <= skip THEN 1 ELSE ShapeOf(v)[d - skip]
ResultRank(a, b) == Max({Len(ShapeOf(a)), Len(ShapeOf(b))})
Broadcasts(a, b) ==
    \A d \in 1..ResultRank(a, b) :
        LET x == Extent(a, d, ResultRank(a, b))
            y == Extent(b, d, ResultRank(a, b)) IN x = y \/ x = 1 \/ y = 1
BroadcastShape(a, b) ==
    [d \in 1..ResultRank(a, b) |->
        IF Extent(a, d, ResultRank(a, b)) = 1 THEN Extent(b, d, ResultRank(a, b))
        ELSE Extent(a, d, ResultRank(a, b))]

Arithmetic(op, x, y) ==
    CASE op = "Add" -> x + y [] op = "Subtract" -> x - y [] OTHER -> x * y

Elementwise(op, a, b) ==
    IF ~Broadcasts(a, b) THEN Failure("TH-SPEC-BROADCAST")
    ELSE IF DtypeOf(a) # DtypeOf(b) THEN Failure("TH005-RUNTIME-TYPE")
    ELSE LET shape == BroadcastShape(a, b)
         IN CheckedShaped(DtypeOf(a), shape,
                [c \in Coordinates(shape) |-> Arithmetic(op, ElementAt(a, c), ElementAt(b, c))])

NegateValue(v) ==
    IF IsTensorValue(v)
    THEN CheckedShaped(v.dtype, v.shape, [c \in DOMAIN v.at |-> -v.at[c]])
    ELSE CheckedShaped(v.kind, <<>>, [c \in {<<>>} |-> -v.number])

\* A running sum over the terms in order: i64 fails where a prefix leaves the width.
RunningSum(dtype, terms) ==
    FoldLeft(LAMBDA acc, x : IF IsFailure(acc) THEN acc
                             ELSE CheckedShaped(dtype, <<>>, [c \in {<<>>} |-> acc.number + x]),
             Number(dtype, 0), terms)

\* A value per coordinate, each of which may fail.
Gather(dtype, shape, f(_)) ==
    LET each == [c \in Coordinates(shape) |-> f(c)]
        failed == {c \in DOMAIN each : IsFailure(each[c])}
    IN IF failed # {} THEN each[CHOOSE c \in failed : TRUE]
       ELSE Shaped(dtype, shape, [c \in DOMAIN each |-> each[c].number])

MatmulValue(a, b) ==
    IF Len(ShapeOf(a)) # 2 \/ Len(ShapeOf(b)) # 2 \/ a.shape[2] # b.shape[1]
    THEN Failure("TH-SPEC-SHAPE")
    ELSE IF a.dtype # b.dtype THEN Failure("TH005-RUNTIME-TYPE")
    ELSE Gather(a.dtype, <<a.shape[1], b.shape[2]>>, LAMBDA c :
            LET products == [k \in 1..a.shape[2] |-> a.at[<<c[1], k - 1>>] * b.at[<<k - 1, c[2]>>]]
            IN IF a.dtype = "i64" /\ \E k \in DOMAIN products : ~InI64(products[k])
               THEN Failure("TH-SPEC-I64-OVERFLOW")
               ELSE RunningSum(a.dtype, products))

TransposeValue(v) ==
    LET shape == Reverse(v.shape)
    IN TensorValue(v.dtype, shape, [c \in Coordinates(shape) |-> v.at[Reverse(c)]])

\* Axes are numbered from 0, as in the code.
SumValue(v, axis) ==
    IF axis >= Len(ShapeOf(v)) THEN Failure("TH-SPEC-AXIS")
    ELSE Gather(v.dtype, RemoveAt(v.shape, axis + 1), LAMBDA c :
            RunningSum(v.dtype,
                [k \in 1..v.shape[axis + 1] |-> v.at[InsertAt(c, axis + 1, k - 1)]]))

(***************************************************************************)
(* Indexing.  A selector resolves to a start, a count and a stride.        *)
(***************************************************************************)
Field(values, id, otherwise) == IF id = 0 THEN otherwise ELSE values[id].number

SelectorFailure(values, selector, extent) ==
    LET index == Field(values, selector.index, 0)
        start == Field(values, selector.start, 0)
        end == Field(values, selector.end, extent)
        by == Field(values, selector.by, 1)
    IN CASE ~selector.slice /\ (index < 0 \/ index >= extent) -> "TH-SPEC-BOUNDS"
         [] selector.slice /\ (by <= 0 \/ start < 0 \/ end < 0 \/ start > end \/ end > extent) ->
                "TH-SPEC-SLICE"
         [] OTHER -> ""

SliceExtent(start, end, by) == IF end = start THEN 0 ELSE 1 + ((end - start - 1) \div by)

IndexValue(values, v, selectors) ==
    LET whole == SliceSelector(0, 0, 0)
        at == [d \in DOMAIN v.shape |-> IF d <= Len(selectors) THEN selectors[d] ELSE whole]
        failures == SelectSeq([d \in DOMAIN v.shape |-> SelectorFailure(values, at[d], v.shape[d])],
                              LAMBDA id : id # "")
        start(d) == Field(values, IF at[d].slice THEN at[d].start ELSE at[d].index, 0)
        by(d) == Field(values, at[d].by, 1)
        kept == SelectSeq([d \in DOMAIN v.shape |-> d], LAMBDA d : at[d].slice)
        shape == [k \in DOMAIN kept |->
                    SliceExtent(start(kept[k]), Field(values, at[kept[k]].end, v.shape[kept[k]]),
                                by(kept[k]))]
        source(c) == [d \in DOMAIN v.shape |->
                        IF at[d].slice
                        THEN start(d) + by(d) * c[CHOOSE k \in DOMAIN kept : kept[k] = d]
                        ELSE start(d)]
    IN IF failures # <<>> THEN Failure(failures[1])
       ELSE Shaped(v.dtype, shape, [c \in Coordinates(shape) |-> v.at[source(c)]])

(***************************************************************************)
(* The operations of generated backward functions.                         *)
(***************************************************************************)
ZeroLikeValue(reference) ==
    IF DtypeOf(reference) # "f32" THEN Failure("TH005-RUNTIME-TYPE")
    ELSE Shaped("f32", ShapeOf(reference), [c \in Coordinates(ShapeOf(reference)) |-> 0])

\* Sums the elements of v that broadcasting made from one element of the reference.
ReduceToShapeValue(v, reference) ==
    LET target == ShapeOf(reference)
        source == ShapeOf(v)
        skip == Len(source) - Len(target)
        from(c) == [d \in DOMAIN target |-> IF target[d] = 1 THEN 0 ELSE c[d + skip]]
    IN IF DtypeOf(v) # "f32" \/ DtypeOf(reference) # "f32" THEN Failure("TH005-RUNTIME-TYPE")
       ELSE IF skip < 0 \/ (\E d \in DOMAIN target : target[d] # 1 /\ target[d] # source[d + skip])
       THEN Failure("TH-SPEC-BROADCAST")
       ELSE Shaped("f32", target, [t \in Coordinates(target) |->
                MapThenSumSet(LAMBDA c : ElementAt(v, c), {c \in Coordinates(source) : from(c) = t})])

\* Repeats v along one axis of the reference.
BroadcastToShapeValue(v, reference, axis) ==
    LET target == ShapeOf(reference)
    IN IF ~IsTensorValue(reference) THEN IF IsTensorValue(v) THEN Failure("TH-SPEC-BROADCAST") ELSE v
       ELSE IF axis >= Len(target) THEN Failure("TH-SPEC-AXIS")
       ELSE IF ShapeOf(v) # RemoveAt(target, axis + 1) THEN Failure("TH-SPEC-BROADCAST")
       ELSE TensorValue("f32", target, [c \in Coordinates(target) |->
                IF IsTensorValue(v) THEN v.at[RemoveAt(c, axis + 1)] ELSE v.number])

(***************************************************************************)
(* Types and shapes of values, and the pieces a scan takes and gives.      *)
(***************************************************************************)
RECURSIVE RuntimeType(_, _)
RuntimeType(v, t) ==
    CASE IsTensor(t) -> IsTensorValue(v) /\ v.dtype = t.elements[1].kind /\ Len(v.shape) = t.rank
      [] IsTuple(t) -> /\ v.kind = "tuple" /\ Len(v.elements) = Len(t.elements)
                       /\ \A k \in DOMAIN t.elements : RuntimeType(v.elements[k], t.elements[k])
      [] OTHER -> v.kind = t.kind

RECURSIVE SameRuntimeShape(_, _, _)
SameRuntimeShape(a, b, t) ==
    CASE IsTensor(t) -> IsTensorValue(a) /\ IsTensorValue(b) /\ a.shape = b.shape
      [] IsTuple(t) -> \A k \in DOMAIN t.elements :
                            SameRuntimeShape(a.elements[k], b.elements[k], t.elements[k])
      [] OTHER -> TRUE

LeadingElement(sequence, index) ==
    Shaped(sequence.dtype, Tail(sequence.shape),
        [c \in Coordinates(Tail(sequence.shape)) |-> sequence.at[<<index>> \o c]])

StackOutputs(outputs, type, outputShape) ==
    LET shape == <<Len(outputs)>> \o outputShape
    IN TensorValue(Dtype(type).kind, shape, [c \in Coordinates(shape) |->
            IF outputShape = <<>> THEN outputs[c[1] + 1].number ELSE outputs[c[1] + 1].at[Tail(c)]])
=============================================================================
