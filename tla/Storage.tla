------------------------------- MODULE Storage -------------------------------
(***************************************************************************)
(* Host tensors (storage/v0/Storage.cpp): wrappers that share storage      *)
(* objects through copies and views, the guards of the asynchronous        *)
(* runtime at each boundary, and the bridge from logical resources to      *)
(* storage.  One element is one word; MaxWord stands for 2^64 - 1.         *)
(*                                                                         *)
(* `logical` is what the language says a tensor denotes: the cell of each  *)
(* of its indices, derived without offsets and strides.                    *)
(***************************************************************************)
EXTENDS Integers, Sequences, SequencesExt

CONSTANTS
    Wrapper,     \* C++ variables of type Tensor
    Fresh,       \* logical resources the ownership analysis found fresh
    CopyOf,      \* of each resource it found to be an independent copy: the source
    Shapes,      \* shapes that programs materialise or reshape to
    Stored,      \* element values that are stored
    Steps,       \* slice steps
    MaxWord,     \* the largest word
    MaxObject,   \* bound: storage objects
    MaxOperations \* bound: host operations

ASSUME StorageAssumption ==
    /\ MaxObject \in Nat
    /\ Shapes \subseteq Seq(Nat)
    /\ Steps \subseteq Nat \ {0}   \* a slice of another step is refused
    /\ \A r \in DOMAIN CopyOf : CopyOf[r] \in Fresh \cup DOMAIN CopyOf

Object == 1..MaxObject
NoObject == 0
NoTensor == [object |-> NoObject]

Resource == Fresh \cup DOMAIN CopyOf

VARIABLES
    cells,       \* of each object: its elements
    nextStorageId,
    tensor,      \* of each wrapper: its descriptor; NoTensor before construction, or moved from
    mutableRef,  \* the descriptor a MutableTensorRef retains, or NoTensor
    mapped,      \* of each resource: the tensor the bridge maps it to, or NoTensor
    reserved,    \* of each object: the kinds of access pending backend work reserves
    logical,     \* of each wrapper: the cell of each index
    operations   \* host operations so far

storageVars == <<cells, nextStorageId, tensor, mutableRef, mapped, logical, operations>>
vars == <<storageVars, reserved>>

(***************************************************************************)
(* Descriptors.                                                            *)
(***************************************************************************)
ElementCount(s) == FoldLeft(LAMBDA x, y : x * y, 1, s)

\* checkedMultiply and checkedAdd: an operation whose result is no word fails.
Word(x) == x <= MaxWord

RowMajorStrides(shape) ==
    [i \in DOMAIN shape |->
        ElementCount([j \in 1..(Len(shape) - i) |-> IF shape[i + j] = 0 THEN 1 ELSE shape[i + j]])]

Indices(shape) ==
    {x \in [DOMAIN shape -> UNION {0..(shape[i] - 1) : i \in DOMAIN shape}] :
        \A i \in DOMAIN shape : x[i] < shape[i]}

\* The position of an index in row-major order.
Rank(shape, index) ==
    FoldLeft(LAMBDA sum, i : sum * shape[i] + index[i], 0, [i \in DOMAIN shape |-> i])

Dot(x, y) == FoldLeft(LAMBDA sum, i : sum + x[i] * y[i], 0, [i \in DOMAIN x |-> i])

Offset(d, index) == d.offset + Dot(index, d.strides)

MaximumOffset(d) ==
    IF ElementCount(d.shape) = 0 THEN d.offset
    ELSE d.offset + Dot([i \in DOMAIN d.shape |-> d.shape[i] - 1], d.strides)

Contiguous(d) ==
    \/ ElementCount(d.shape) = 0
    \/ \A i \in DOMAIN d.shape : d.shape[i] > 1 =>
            d.strides[i] = ElementCount([j \in 1..(Len(d.shape) - i) |-> d.shape[i + j]])

DescriptorVerifies(d) ==
    LET elements == Len(cells[d.object]) IN
    /\ \A i \in DOMAIN d.strides : d.strides[i] # 0
    /\ d.claimedContiguous => Contiguous(d)
    /\ IF ElementCount(d.shape) = 0 THEN d.offset <= elements ELSE MaximumOffset(d) < elements
    /\ ~d.view => d.offset = 0 /\ Contiguous(d) /\ elements = ElementCount(d.shape)

(***************************************************************************)
(* The guards.  A wrapper that was moved from has no storage to ask.       *)
(***************************************************************************)
Valid(w) == tensor[w].object # NoObject

Readable(o) == "write" \notin reserved[o]

Unreserved(o) == reserved[o] = {}

Init ==
    /\ cells = [o \in Object |-> <<>>]
    /\ nextStorageId = 1
    /\ tensor = [w \in Wrapper |-> NoTensor]
    /\ mutableRef = NoTensor
    /\ mapped = [r \in Resource |-> NoTensor]
    /\ reserved = [o \in Object |-> {}]
    /\ logical = [w \in Wrapper |-> <<>>]
    /\ operations = 0

\* allocate, and the row-major descriptor of a materialised tensor.
Materialized(o, shape) ==
    [object |-> o, shape |-> shape, strides |-> RowMajorStrides(shape), offset |-> 0,
     view |-> FALSE, claimedContiguous |-> TRUE]

Allocate(content) ==
    /\ nextStorageId \in Object
    /\ nextStorageId' = nextStorageId + 1
    /\ cells' = [cells EXCEPT ![nextStorageId] = content]

\* A tensor is constructed in a wrapper that holds none.
Construct(w, d, cell) ==
    /\ tensor[w] = NoTensor
    /\ tensor' = [tensor EXCEPT ![w] = d]
    /\ logical' = [logical EXCEPT ![w] = cell]

RankCells(shape) == [x \in Indices(shape) |-> Rank(shape, x)]

\* materializeI64, materializeF32 and empty: as many values as the shape has elements.
\* Inputs: distinct values, so that a wrong element is seen.
Materialize(w) ==
    \E shape \in Shapes :
        /\ Allocate([i \in 1..ElementCount(shape) |-> i])
        /\ Construct(w, Materialized(nextStorageId, shape), RankCells(shape))
        /\ UNCHANGED <<mutableRef, mapped, reserved>>

\* The copy constructor shares the storage.
CopyConstruct(w, other) ==
    /\ Valid(other) /\ Construct(w, tensor[other], logical[other])
    /\ UNCHANGED <<cells, nextStorageId, mutableRef, mapped, reserved>>

MoveConstruct(w, other) ==
    /\ tensor[w] = NoTensor /\ Valid(other) /\ Unreserved(tensor[other].object)
    /\ tensor' = [tensor EXCEPT ![w] = tensor[other], ![other] = NoTensor]
    /\ logical' = [logical EXCEPT ![w] = logical[other], ![other] = <<>>]
    /\ UNCHANGED <<cells, nextStorageId, mutableRef, mapped, reserved>>

\* operator=: the storage that is replaced must be free to go.
Assign(w, other) ==
    /\ w # other /\ Valid(w) /\ Unreserved(tensor[w].object)
    /\ tensor' = [tensor EXCEPT ![w] = tensor[other]]
    /\ logical' = [logical EXCEPT ![w] = logical[other]]
    /\ UNCHANGED <<cells, nextStorageId, mutableRef, mapped, reserved>>

MoveAssign(w, other) ==
    /\ w # other /\ Valid(w) /\ Unreserved(tensor[w].object)
    /\ Valid(other) /\ Unreserved(tensor[other].object)
    /\ tensor' = [tensor EXCEPT ![w] = tensor[other], ![other] = NoTensor]
    /\ logical' = [logical EXCEPT ![w] = logical[other], ![other] = <<>>]
    /\ UNCHANGED <<cells, nextStorageId, mutableRef, mapped, reserved>>

\* The destructor asks nobody: whoever reserved the object retains it.
Drop(w) ==
    /\ Valid(w)
    /\ tensor' = [tensor EXCEPT ![w] = NoTensor]
    /\ logical' = [logical EXCEPT ![w] = <<>>]
    /\ UNCHANGED <<cells, nextStorageId, mutableRef, mapped, reserved>>

(***************************************************************************)
(* Views.  A selector is an index or a slice [start, end) with a step;     *)
(* selectors that are missing select whole axes.  Inputs: slices that end  *)
(* with their axis, the empty one among them.                              *)
(***************************************************************************)
Selectors(extent) ==
    [kind : {"index"}, index : 0..(extent - 1)]
        \cup [kind : {"slice"}, start : {0, 1, extent} \cap 0..extent, end : {extent}, step : Steps]

Slices(shape) == {s \in [DOMAIN shape -> UNION {Selectors(shape[i]) : i \in DOMAIN shape}] :
                    \A i \in DOMAIN shape : s[i] \in Selectors(shape[i])}

OutputExtent(s) == IF s.end = s.start THEN 0 ELSE 1 + (s.end - s.start - 1) \div s.step

\* Mutant of SliceStride: the step of an outer slice is forgotten.
SliceStrideFresh(stride, step) == step

SliceStride(stride, step) == stride * step

\* Axes a selector list keeps, in order.
Kept(s) ==
    FoldLeft(LAMBDA axes, i : IF s[i].kind = "slice" THEN Append(axes, i) ELSE axes, <<>>,
             [i \in DOMAIN s |-> i])

Cursor(d, s) ==
    d.offset + Dot([i \in DOMAIN s |-> IF s[i].kind = "index" THEN s[i].index ELSE s[i].start],
                   d.strides)

SelectFits(d, s) ==
    /\ Word(Cursor(d, s))
    /\ \A i \in DOMAIN s : s[i].kind = "slice" => Word(SliceStride(d.strides[i], s[i].step))

Selected(d, s) ==
    LET shape    == [k \in DOMAIN Kept(s) |-> OutputExtent(s[Kept(s)[k]])]
        cursor   == Cursor(d, s)
        elements == Len(cells[d.object])
    IN [object |-> d.object, shape |-> shape,
        strides |-> [k \in DOMAIN Kept(s) |->
                        SliceStride(d.strides[Kept(s)[k]], s[Kept(s)[k]].step)],
        offset |-> IF ElementCount(shape) = 0 /\ cursor > elements THEN elements ELSE cursor,
        view |-> TRUE, claimedContiguous |-> FALSE]

\* What the language says the selection denotes.
SelectedCells(cell, s, shape) ==
    [x \in Indices(shape) |->
        cell[[i \in DOMAIN s |->
                IF s[i].kind = "index" THEN s[i].index
                ELSE s[i].start + s[i].step * x[CHOOSE k \in DOMAIN Kept(s) : Kept(s)[k] = i]]]]

Select(w, other) ==
    /\ Valid(other) /\ Readable(tensor[other].object)
    /\ \E s \in Slices(tensor[other].shape) :
        LET d == Selected(tensor[other], s) IN
        /\ SelectFits(tensor[other], s)
        /\ DescriptorVerifies(d)
        /\ Construct(w, d, SelectedCells(logical[other], s, d.shape))
    /\ UNCHANGED <<cells, nextStorageId, mutableRef, mapped, reserved>>

Swapped(s) == <<s[2], s[1]>>

Transpose(w, other) ==
    LET d == tensor[other] IN
    /\ Valid(other) /\ Readable(d.object) /\ Len(d.shape) = 2
    /\ Construct(w, [d EXCEPT !.shape = Swapped(@), !.strides = Swapped(@), !.view = TRUE,
                              !.claimedContiguous = FALSE],
                 [x \in Indices(Swapped(d.shape)) |-> logical[other][Swapped(x)]])
    /\ UNCHANGED <<cells, nextStorageId, mutableRef, mapped, reserved>>

\* Mutant of Reshapable: only the element counts are compared.
ReshapableAnyLayout(d, shape) == ElementCount(shape) = ElementCount(d.shape)

Reshapable(d, shape) == ElementCount(shape) = ElementCount(d.shape) /\ Contiguous(d)

AtRank(shape, k) == CHOOSE x \in Indices(shape) : Rank(shape, x) = k

ReshapeView(w, other) ==
    LET d == tensor[other] IN
    /\ Valid(other) /\ Readable(d.object)
    /\ \E shape \in Shapes :
        /\ Reshapable(d, shape)
        /\ Construct(w, [d EXCEPT !.shape = shape, !.strides = RowMajorStrides(shape),
                                  !.view = TRUE, !.claimedContiguous = TRUE],
                     [x \in Indices(shape) |-> logical[other][AtRank(d.shape, Rank(shape, x))]])
    /\ UNCHANGED <<cells, nextStorageId, mutableRef, mapped, reserved>>

\* logicalI64Values, logicalF32Values: the elements in row-major order.
LogicalValues(d) ==
    [k \in 1..ElementCount(d.shape) |-> cells[d.object][Offset(d, AtRank(d.shape, k - 1)) + 1]]

\* deepCopy, and reshapeCopy to another shape of as many elements.
DeepCopy(w, other) ==
    LET d == tensor[other] IN
    /\ Valid(other) /\ Readable(d.object)
    /\ Allocate(LogicalValues(d))
    /\ \E shape \in {d.shape} \cup {s \in Shapes : ElementCount(s) = ElementCount(d.shape)} :
            Construct(w, Materialized(nextStorageId, shape), RankCells(shape))
    /\ UNCHANGED <<mutableRef, mapped, reserved>>

(***************************************************************************)
(* Writes.                                                                 *)
(***************************************************************************)
\* Mutant of StoreGuard: the guard of the constructor is thought to be enough.
StoreGuardOnce(o) == TRUE

StoreGuard(o) == Unreserved(o)

ObtainMutable(w) ==
    /\ Valid(w) /\ Unreserved(tensor[w].object) /\ mutableRef = NoTensor
    /\ mutableRef' = tensor[w]
    /\ UNCHANGED <<cells, nextStorageId, tensor, mapped, reserved, logical>>

Store ==
    LET d == mutableRef IN
    /\ d # NoTensor /\ StoreGuard(d.object)
    /\ \E x \in Indices(d.shape), v \in Stored :
            cells' = [cells EXCEPT ![d.object][Offset(d, x) + 1] = v]
    /\ UNCHANGED <<nextStorageId, tensor, mutableRef, mapped, reserved, logical>>

ReleaseMutable ==
    /\ mutableRef # NoTensor /\ mutableRef' = NoTensor
    /\ UNCHANGED <<cells, nextStorageId, tensor, mapped, reserved, logical>>

(***************************************************************************)
(* ResourceStorageBridge.                                                  *)
(***************************************************************************)
\* Mutant of Unclaimed: only the resource is checked, not the storage.
UnclaimedResource(r, o) == mapped[r] = NoTensor

Unclaimed(r, o) == mapped[r] = NoTensor /\ \A q \in Resource : mapped[q].object # o

BindFresh(r, w) ==
    /\ r \in Fresh /\ Valid(w) /\ Unclaimed(r, tensor[w].object)
    /\ mapped' = [mapped EXCEPT ![r] = tensor[w]]
    /\ UNCHANGED <<cells, nextStorageId, tensor, mutableRef, reserved, logical>>

BindCopy(r) ==
    LET d == mapped[CopyOf[r]] IN
    /\ mapped[r] = NoTensor /\ d # NoTensor /\ Readable(d.object)
    /\ Allocate(LogicalValues(d))
    /\ mapped' = [mapped EXCEPT ![r] = Materialized(nextStorageId, d.shape)]
    /\ UNCHANGED <<tensor, mutableRef, reserved, logical>>

Next ==
    /\ operations < MaxOperations /\ operations' = operations + 1
    /\ \/ \E w \in Wrapper :
           \/ Materialize(w) \/ Drop(w) \/ ObtainMutable(w)
           \/ \E other \in Wrapper :
               \/ CopyConstruct(w, other) \/ MoveConstruct(w, other)
               \/ Assign(w, other) \/ MoveAssign(w, other)
               \/ Select(w, other) \/ Transpose(w, other) \/ ReshapeView(w, other)
               \/ DeepCopy(w, other)
           \/ \E r \in Resource : BindFresh(r, w)
       \/ Store \/ ReleaseMutable
       \/ \E r \in DOMAIN CopyOf : BindCopy(r)

\* Backend work is admitted to an object, and ends.
Reserve(o) ==
    /\ o < nextStorageId /\ \A q \in Object : reserved[q] = {}
    /\ \E kind \in {"read", "write"} : reserved' = [reserved EXCEPT ![o] = {kind}]
    /\ UNCHANGED storageVars

Release(o) ==
    /\ reserved[o] # {} /\ reserved' = [reserved EXCEPT ![o] = {}]
    /\ UNCHANGED storageVars

StorageSpec == Init /\ [][Next \/ \E o \in Object : Reserve(o) \/ Release(o)]_vars

-----------------------------------------------------------------------------
\* However views are made of views, reshaped, transposed, copied and moved, the offset and
\* strides of a tensor reach exactly the cells the language says it denotes, all of them
\* inside its storage.
ViewsDenote ==
    \A w \in Wrapper : Valid(w) =>
        /\ DOMAIN logical[w] = Indices(tensor[w].shape)
        /\ \A x \in Indices(tensor[w].shape) :
            /\ Offset(tensor[w], x) = logical[w][x]
            /\ logical[w][x] \in 0..(Len(cells[tensor[w].object]) - 1)

\* No host step changes what pending work has reserved, however old the reference is
\* through which it writes.
ReservedIsStable ==
    [][\A o \in Object : reserved[o] # {} => cells'[o] = cells[o]]_vars

\* What a resource holds, as its mapped tensor reads it.
Held(r) == LogicalValues(mapped[r])

\* The bridge keeps the aliasing facts of the ownership analysis: no step changes what
\* two resources hold, whichever views, copies and moved wrappers it goes through.
WritesStayApart ==
    [][\A r, s \in Resource :
        r # s /\ mapped[r] # NoTensor /\ mapped[s] # NoTensor /\ Held(r)' # Held(r) =>
            Held(s)' = Held(s)]_vars
=============================================================================
