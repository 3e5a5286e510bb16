---------------------------- MODULE StorageProofs ----------------------------
(***************************************************************************)
(* Proofs of the properties of Storage, for every number of wrappers,      *)
(* resources, objects and operations, and for shapes of every rank.        *)
(*                                                                         *)
(* Storage identifiers are given out in order, so that an object that      *)
(* nobody refers to is told by its number.  That makes a new object        *)
(* unreserved, and unclaimed by every resource; the guards of the writes   *)
(* and of the bridge do the rest.  What a tensor reads depends on the      *)
(* cells of its object alone, whatever its offset and strides are.         *)
(*                                                                         *)
(* That offsets and strides reach the cells a view denotes is an induction *)
(* over the axes.  The least number of a set (WFMin) gives induction on    *)
(* the numbers up to n, and that gives what each fold over the axes is:    *)
(* the list of its results after every axis.  From there on the views are  *)
(* arithmetic, and no step changes the length of an object.                *)
(***************************************************************************)
EXTENDS Storage, WellFoundedInduction, SequenceTheorems, TLAPS

\* A descriptor of no object, or of one that was allocated.
Refers(d) == "object" \in DOMAIN d /\ d.object \in 0..(nextStorageId - 1)

ReferencesAllocated ==
    /\ nextStorageId \in 1..(MaxObject + 1)
    /\ tensor = [w \in Wrapper |-> tensor[w]] /\ \A w \in Wrapper : Refers(tensor[w])
    /\ Refers(mutableRef)
    /\ mapped = [r \in Resource |-> mapped[r]] /\ \A r \in Resource : Refers(mapped[r])
    /\ cells = [o \in Object |-> cells[o]]

\* Only objects that were allocated are reserved.
ReservedAllocated ==
    /\ reserved = [o \in Object |-> reserved[o]]
    /\ \A o \in Object : reserved[o] # {} => o < nextStorageId

\* No two resources are mapped to one object, and every one that is mapped has one.
ResourcesApart ==
    /\ \A r \in Resource : mapped[r] # NoTensor => mapped[r].object # NoObject
    /\ \A r, s \in Resource :
        r # s /\ mapped[r] # NoTensor /\ mapped[s] # NoTensor => mapped[r].object # mapped[s].object

StorageInv == ReferencesAllocated /\ ReservedAllocated /\ ResourcesApart

-----------------------------------------------------------------------------
\* The invariant holds before the first operation.
LEMMA StorageInit == Init => StorageInv
<1> SUFFICES ASSUME Init PROVE StorageInv
  OBVIOUS
<1>1. MaxObject \in Nat
  BY StorageAssumption
<1>2. "object" \in DOMAIN NoTensor /\ NoTensor.object = 0
  BY DEF NoTensor, NoObject
<1>3. ReferencesAllocated
  BY <1>1, <1>2 DEF Init, ReferencesAllocated, Refers
<1> QED
  BY <1>3 DEF Init, StorageInv, ReservedAllocated, ResourcesApart

\* Descriptors of old objects stay so when identifiers grow.
LEMMA RefersLater ==
    ASSUME nextStorageId \in Nat, nextStorageId' \in Nat, nextStorageId' >= nextStorageId,
           NEW d, Refers(d)
    PROVE  "object" \in DOMAIN d /\ d.object \in 0..(nextStorageId' - 1)
  BY DEF Refers

\* Every way to put descriptors into wrappers: what each wrapper has afterwards is
\* of an allocated object, and nothing else about references changes.
LEMMA WrappersMove ==
    ASSUME StorageInv,
           nextStorageId' \in 1..(MaxObject + 1), nextStorageId' >= nextStorageId,
           tensor' = [w \in Wrapper |-> tensor'[w]],
           \A w \in Wrapper : "object" \in DOMAIN tensor'[w]
                              /\ tensor'[w].object \in 0..(nextStorageId' - 1),
           cells' = [o \in Object |-> cells'[o]],
           UNCHANGED <<mutableRef, mapped, reserved>>
    PROVE  StorageInv'
<1>1. nextStorageId \in Nat /\ nextStorageId' \in Nat
  BY StorageAssumption DEF StorageInv, ReferencesAllocated
<1>2. \A r \in Resource : Refers(mapped[r]) /\ mapped'[r] = mapped[r]
  BY DEF StorageInv, ReferencesAllocated
<1>3. Refers(mutableRef)
  BY DEF StorageInv, ReferencesAllocated
<1>4. ReferencesAllocated'
  BY <1>1, <1>2, <1>3, RefersLater DEF StorageInv, ReferencesAllocated, Refers
<1>5. ReservedAllocated'
  BY <1>1 DEF StorageInv, ReservedAllocated, Object
<1> QED
  BY <1>4, <1>5 DEF StorageInv, ResourcesApart

\* A wrapper gets a descriptor of an allocated object, or none.
LEMMA OneWrapperMoves ==
    ASSUME StorageInv, NEW w \in Wrapper, NEW d, Refers(d),
           tensor' = [tensor EXCEPT ![w] = d],
           UNCHANGED <<cells, nextStorageId, mutableRef, mapped, reserved>>
    PROVE  StorageInv'
<1>1. \A v \in Wrapper : tensor'[v] = IF v = w THEN d ELSE tensor[v]
  BY DEF StorageInv, ReferencesAllocated
<1>2. tensor' = [v \in Wrapper |-> tensor'[v]]
  BY DEF StorageInv, ReferencesAllocated
<1>3. nextStorageId' \in 1..(MaxObject + 1) /\ nextStorageId' >= nextStorageId
  BY StorageAssumption DEF StorageInv, ReferencesAllocated
<1>4. \A v \in Wrapper : "object" \in DOMAIN tensor'[v]
                         /\ tensor'[v].object \in 0..(nextStorageId' - 1)
  BY <1>1 DEF StorageInv, ReferencesAllocated, Refers
<1>5. cells' = [o \in Object |-> cells'[o]]
  BY DEF StorageInv, ReferencesAllocated
<1> QED
  BY <1>2, <1>3, <1>4, <1>5, WrappersMove

\* A wrapper gets the descriptor of another, which keeps it or is left with none.
LEMMA WrapperTakes ==
    ASSUME StorageInv, NEW w \in Wrapper, NEW other \in Wrapper,
           \/ tensor' = [tensor EXCEPT ![w] = tensor[other]]
           \/ tensor' = [tensor EXCEPT ![w] = tensor[other], ![other] = NoTensor],
           UNCHANGED <<cells, nextStorageId, mutableRef, mapped, reserved>>
    PROVE  StorageInv'
<1>1. Refers(NoTensor) /\ \A v \in Wrapper : Refers(tensor[v])
  BY StorageAssumption DEF StorageInv, ReferencesAllocated, Refers, NoTensor, NoObject
<1>2. \A v \in Wrapper : Refers(tensor'[v])
  BY <1>1 DEF StorageInv, ReferencesAllocated
<1>3. tensor' = [v \in Wrapper |-> tensor'[v]]
  BY DEF StorageInv, ReferencesAllocated
<1>4. nextStorageId' \in 1..(MaxObject + 1) /\ nextStorageId' >= nextStorageId
  BY StorageAssumption DEF StorageInv, ReferencesAllocated
<1>5. \A v \in Wrapper : "object" \in DOMAIN tensor'[v]
                         /\ tensor'[v].object \in 0..(nextStorageId' - 1)
  BY <1>2 DEF Refers
<1>6. cells' = [o \in Object |-> cells'[o]]
  BY DEF StorageInv, ReferencesAllocated
<1> QED
  BY <1>3, <1>4, <1>5, <1>6, WrappersMove

\* An allocation takes an object that nobody refers to, and writes to no other.
LEMMA Allocation ==
    ASSUME StorageInv, NEW content, Allocate(content)
    PROVE  /\ nextStorageId \in Object /\ nextStorageId' = nextStorageId + 1
           /\ nextStorageId' \in 1..(MaxObject + 1) /\ nextStorageId' >= nextStorageId
           /\ cells' = [o \in Object |-> cells'[o]]
           /\ \A o \in Object : o # nextStorageId => cells'[o] = cells[o]
           /\ reserved[nextStorageId] = {}
           /\ \A r \in Resource : mapped[r].object # nextStorageId
<1>1. /\ nextStorageId \in Object /\ nextStorageId' = nextStorageId + 1
      /\ nextStorageId \in 1..MaxObject
      /\ cells' = [cells EXCEPT ![nextStorageId] = content]
  BY DEF Allocate, Object
<1>2. nextStorageId' \in 1..(MaxObject + 1) /\ nextStorageId' >= nextStorageId
  BY <1>1, StorageAssumption
<1>3. reserved[nextStorageId] = {}
  BY <1>1 DEF StorageInv, ReservedAllocated
<1>4. \A r \in Resource : mapped[r].object # nextStorageId
  BY <1>1 DEF StorageInv, ReferencesAllocated, Refers
<1> QED
  BY <1>1, <1>2, <1>3, <1>4 DEF StorageInv, ReferencesAllocated

\* Materialize and DeepCopy: a new object in a wrapper.
LEMMA NewTensor ==
    ASSUME StorageInv, NEW w \in Wrapper, NEW content, Allocate(content), NEW shape, NEW cell,
           Construct(w, Materialized(nextStorageId, shape), cell),
           UNCHANGED <<mutableRef, mapped, reserved>>
    PROVE  StorageInv'
<1> DEFINE d == Materialized(nextStorageId, shape)
<1>1. "object" \in DOMAIN d /\ d.object = nextStorageId
  BY DEF Materialized
<1>2. tensor' = [tensor EXCEPT ![w] = d]
  BY DEF Construct
<1> HIDE DEF d
<1>3. tensor' = [v \in Wrapper |-> tensor'[v]]
      /\ \A v \in Wrapper : tensor'[v] = IF v = w THEN d ELSE tensor[v]
  BY <1>2 DEF StorageInv, ReferencesAllocated
<1>4. nextStorageId \in Nat /\ nextStorageId' = nextStorageId + 1
  BY Allocation DEF StorageInv, ReferencesAllocated
<1>5. \A v \in Wrapper : Refers(tensor[v])
  BY DEF StorageInv, ReferencesAllocated
<1>6. \A v \in Wrapper : "object" \in DOMAIN tensor'[v]
                         /\ tensor'[v].object \in 0..(nextStorageId' - 1)
  BY <1>1, <1>3, <1>4, <1>5 DEF Refers
<1> QED
  BY <1>3, <1>6, Allocation, WrappersMove

\* A view shares the object of the tensor it is made of.
LEMMA ViewsShare ==
    ASSUME StorageInv, NEW w \in Wrapper, NEW other \in Wrapper,
           \/ Select(w, other) \/ Transpose(w, other) \/ ReshapeView(w, other)
    PROVE  \E d : Refers(d) /\ tensor' = [tensor EXCEPT ![w] = d]
<1>1. "object" \in DOMAIN tensor[other] /\ Refers(tensor[other])
  BY DEF StorageInv, ReferencesAllocated, Refers
<1>2. ASSUME Select(w, other) PROVE \E d : Refers(d) /\ tensor' = [tensor EXCEPT ![w] = d]
  <2>1. PICK s \in Slices(tensor[other].shape) :
          tensor' = [tensor EXCEPT ![w] = Selected(tensor[other], s)]
    BY <1>2 DEF Select, Construct
  <2>2. /\ "object" \in DOMAIN Selected(tensor[other], s)
        /\ Selected(tensor[other], s).object = tensor[other].object
    BY DEF Selected
  <2> QED
    BY <1>1, <2>1, <2>2 DEF Refers
<1>3. ASSUME Transpose(w, other) PROVE \E d : Refers(d) /\ tensor' = [tensor EXCEPT ![w] = d]
  <2> DEFINE t == tensor[other]
             d == [t EXCEPT !.shape = Swapped(@), !.strides = Swapped(@), !.view = TRUE,
                            !.claimedContiguous = FALSE]
  <2>1. tensor' = [tensor EXCEPT ![w] = d]
    BY <1>3 DEF Transpose, Construct
  <2>2. "object" \in DOMAIN d /\ d.object = t.object
    BY <1>1
  <2> QED
    BY <1>1, <2>1, <2>2 DEF Refers
<1>4. ASSUME ReshapeView(w, other) PROVE \E d : Refers(d) /\ tensor' = [tensor EXCEPT ![w] = d]
  <2>1. PICK shape \in Shapes : tensor' = [tensor EXCEPT ![w] =
          [tensor[other] EXCEPT !.shape = shape, !.strides = RowMajorStrides(shape),
                                !.view = TRUE, !.claimedContiguous = TRUE]]
    BY <1>4 DEF ReshapeView, Construct
  <2> DEFINE t == tensor[other]
             d == [t EXCEPT !.shape = shape, !.strides = RowMajorStrides(shape),
                            !.view = TRUE, !.claimedContiguous = TRUE]
  <2>2. "object" \in DOMAIN d /\ d.object = t.object
    BY <1>1
  <2> QED
    BY <1>1, <2>1, <2>2 DEF Refers
<1> QED
  BY <1>2, <1>3, <1>4

\* A write to the object of the mutable reference, and to no other.
LEMMA StoreMoves ==
    ASSUME StorageInv, Store
    PROVE  /\ reserved[mutableRef.object] = {}
           /\ \A o \in Object : o # mutableRef.object => cells'[o] = cells[o]
           /\ cells' = [o \in Object |-> cells'[o]]
           /\ UNCHANGED <<nextStorageId, tensor, mutableRef, mapped, reserved>>
<1>1. PICK x, v : cells' = [cells EXCEPT ![mutableRef.object][Offset(mutableRef, x) + 1] = v]
  BY DEF Store
<1>2. /\ reserved[mutableRef.object] = {}
      /\ UNCHANGED <<nextStorageId, tensor, mutableRef, mapped, reserved>>
  BY DEF Store, StoreGuard, Unreserved
<1> QED
  BY <1>1, <1>2 DEF StorageInv, ReferencesAllocated

\* BindFresh and BindCopy: a resource that had none gets an object that no other has.
LEMMA ResourceBound ==
    ASSUME StorageInv, NEW r \in Resource, NEW d,
           mapped[r] = NoTensor, mapped' = [mapped EXCEPT ![r] = d],
           "object" \in DOMAIN d, d.object # NoObject, d.object \in 0..(nextStorageId' - 1),
           \A q \in Resource : mapped[q].object # d.object,
           nextStorageId' \in 1..(MaxObject + 1), nextStorageId' >= nextStorageId,
           cells' = [o \in Object |-> cells'[o]],
           UNCHANGED <<tensor, mutableRef, reserved>>
    PROVE  StorageInv'
<1>1. nextStorageId \in Nat /\ nextStorageId' \in Nat
  BY StorageAssumption DEF StorageInv, ReferencesAllocated
<1>2. \A q \in Resource : mapped'[q] = IF q = r THEN d ELSE mapped[q]
  BY DEF StorageInv, ReferencesAllocated
<1>3. Refers(mutableRef) /\ \A q \in Resource : Refers(mapped[q])
  BY DEF StorageInv, ReferencesAllocated
<1>4. \A w \in Wrapper : Refers(tensor[w])
  BY DEF StorageInv, ReferencesAllocated
<1>5. ReferencesAllocated'
  <2>1. \A w \in Wrapper : Refers(tensor[w])'
    BY <1>1, <1>4, RefersLater DEF Refers
  <2>2. \A q \in Resource : Refers(mapped[q])'
    BY <1>1, <1>2, <1>3, RefersLater DEF Refers
  <2>3. Refers(mutableRef)'
    BY <1>1, <1>3, RefersLater DEF Refers
  <2>4. mapped' = [q \in Resource |-> mapped'[q]] /\ tensor' = [w \in Wrapper |-> tensor'[w]]
    BY DEF StorageInv, ReferencesAllocated
  <2> QED
    BY <2>1, <2>2, <2>3, <2>4 DEF ReferencesAllocated
<1>6. ReservedAllocated'
  BY <1>1 DEF StorageInv, ReservedAllocated, Object
<1>7. ResourcesApart'
  BY <1>2 DEF StorageInv, ResourcesApart
<1> QED
  BY <1>5, <1>6, <1>7 DEF StorageInv

-----------------------------------------------------------------------------
\* What a step does to the cells of the objects there are, and to the resources
\* that are mapped.
CellsMove ==
    \/ \A o \in Object : o < nextStorageId => cells'[o] = cells[o]
    \/ /\ reserved[mutableRef.object] = {}
       /\ \A o \in Object : o # mutableRef.object => cells'[o] = cells[o]

MappedStays == \A r \in Resource : mapped[r] # NoTensor => mapped'[r] = mapped[r]

StepIsSafe == StorageInv' /\ CellsMove /\ MappedStays

\* Steps that allocate: Materialize, DeepCopy and BindCopy.
LEMMA AllocatingIsSafe ==
    ASSUME StorageInv, NEW content, Allocate(content)
    PROVE  CellsMove
<1>1. nextStorageId \in Nat
  BY StorageAssumption DEF StorageInv, ReferencesAllocated
<1>2. \A o \in Object : o < nextStorageId => o # nextStorageId
  BY <1>1 DEF Object
<1> QED
  BY <1>2, Allocation DEF CellsMove

\* Materialize: a new object, for a wrapper.
LEMMA MaterializeIsSafe ==
    ASSUME StorageInv, NEW w \in Wrapper, Materialize(w)
    PROVE  StepIsSafe
<1>1. PICK shape \in Shapes :
        /\ Allocate([i \in 1..ElementCount(shape) |-> i])
        /\ Construct(w, Materialized(nextStorageId, shape), RankCells(shape))
        /\ UNCHANGED <<mutableRef, mapped, reserved>>
  BY DEF Materialize
<1>2. StorageInv'
  BY <1>1, NewTensor
<1> QED
  BY <1>1, <1>2, AllocatingIsSafe DEF StepIsSafe, MappedStays

\* DeepCopy: the copy has an object of its own.
LEMMA DeepCopyIsSafe ==
    ASSUME StorageInv, NEW w \in Wrapper, NEW other \in Wrapper, DeepCopy(w, other)
    PROVE  StepIsSafe
<1>1. /\ Allocate(LogicalValues(tensor[other]))
      /\ \E shape : Construct(w, Materialized(nextStorageId, shape), RankCells(shape))
      /\ UNCHANGED <<mutableRef, mapped, reserved>>
  BY DEF DeepCopy
<1>2. StorageInv'
  BY <1>1, NewTensor
<1> QED
  BY <1>1, <1>2, AllocatingIsSafe DEF StepIsSafe, MappedStays

\* Steps that only give wrappers other descriptors.
LEMMA SharingIsSafe ==
    ASSUME StorageInv, NEW w \in Wrapper, NEW other \in Wrapper,
           \/ Drop(w) \/ CopyConstruct(w, other) \/ MoveConstruct(w, other) \/ Assign(w, other)
           \/ MoveAssign(w, other) \/ Select(w, other) \/ Transpose(w, other)
           \/ ReshapeView(w, other)
    PROVE  StepIsSafe
<1>1. UNCHANGED <<cells, nextStorageId, mutableRef, mapped, reserved>>
  BY DEF Drop, CopyConstruct, MoveConstruct, Assign, MoveAssign, Select, Transpose, ReshapeView
<1>2. CASE Drop(w)
  <2>1. Refers(NoTensor) /\ tensor' = [tensor EXCEPT ![w] = NoTensor]
    BY <1>2, StorageAssumption
       DEF Drop, StorageInv, ReferencesAllocated, Refers, NoTensor, NoObject
  <2> QED
    BY <1>1, <2>1, OneWrapperMoves DEF StepIsSafe, CellsMove, MappedStays
<1>3. CASE CopyConstruct(w, other) \/ MoveConstruct(w, other) \/ Assign(w, other)
           \/ MoveAssign(w, other)
  <2>1. \/ tensor' = [tensor EXCEPT ![w] = tensor[other]]
        \/ tensor' = [tensor EXCEPT ![w] = tensor[other], ![other] = NoTensor]
    BY <1>3 DEF CopyConstruct, Construct, MoveConstruct, Assign, MoveAssign
  <2> QED
    BY <1>1, <2>1, WrapperTakes DEF StepIsSafe, CellsMove, MappedStays
<1>4. CASE Select(w, other) \/ Transpose(w, other) \/ ReshapeView(w, other)
  <2>1. PICK d : Refers(d) /\ tensor' = [tensor EXCEPT ![w] = d]
    BY <1>4, ViewsShare
  <2> QED
    BY <1>1, <2>1, OneWrapperMoves DEF StepIsSafe, CellsMove, MappedStays
<1> QED
  BY <1>2, <1>3, <1>4

\* The reference writes to its object, which is free, and comes and goes.
LEMMA WritingIsSafe ==
    ASSUME StorageInv, Store \/ ReleaseMutable \/ \E w \in Wrapper : ObtainMutable(w)
    PROVE  StepIsSafe
<1>1. CASE Store
  <2>1. UNCHANGED <<nextStorageId, tensor, mutableRef, mapped, reserved>>
    BY <1>1, StoreMoves
  <2>2. cells' = [o \in Object |-> cells'[o]]
    BY <1>1, StoreMoves
  <2>3. StorageInv'
    BY <2>1, <2>2 DEF StorageInv, ReferencesAllocated, Refers, ReservedAllocated, ResourcesApart
  <2> QED
    BY <1>1, <2>1, <2>3, StoreMoves DEF StepIsSafe, CellsMove, MappedStays
<1>2. CASE ReleaseMutable \/ \E w \in Wrapper : ObtainMutable(w)
  <2>1. UNCHANGED <<cells, nextStorageId, tensor, mapped, reserved>>
    BY <1>2 DEF ReleaseMutable, ObtainMutable
  <2>2. Refers(mutableRef')
    BY <1>2, StorageAssumption
       DEF ReleaseMutable, ObtainMutable, StorageInv, ReferencesAllocated, Refers, NoTensor, NoObject
  <2>3. StorageInv'
    BY <2>1, <2>2 DEF StorageInv, ReferencesAllocated, Refers, ReservedAllocated, ResourcesApart
  <2> QED
    BY <2>1, <2>3 DEF StepIsSafe, CellsMove, MappedStays
<1> QED
  BY <1>1, <1>2

\* BindFresh: the wrapper's object is claimed by no other resource.
LEMMA BindFreshIsSafe ==
    ASSUME StorageInv, NEW r \in Resource, NEW w \in Wrapper, BindFresh(r, w)
    PROVE  StepIsSafe
<1> DEFINE d == tensor[w]
<1>1. /\ mapped[r] = NoTensor /\ mapped' = [mapped EXCEPT ![r] = d]
      /\ d.object # NoObject /\ \A q \in Resource : mapped[q].object # d.object
      /\ UNCHANGED <<cells, nextStorageId, tensor, mutableRef, reserved>>
  BY DEF BindFresh, Unclaimed, Valid
<1>2. "object" \in DOMAIN d /\ d.object \in 0..(nextStorageId' - 1)
  BY <1>1 DEF StorageInv, ReferencesAllocated, Refers
<1>3. nextStorageId' \in 1..(MaxObject + 1) /\ nextStorageId' >= nextStorageId
  BY <1>1, StorageAssumption DEF StorageInv, ReferencesAllocated
<1>4. cells' = [o \in Object |-> cells'[o]]
  BY <1>1 DEF StorageInv, ReferencesAllocated
<1> HIDE DEF d
<1>5. StorageInv'
  BY <1>1, <1>2, <1>3, <1>4, ResourceBound
<1>6. MappedStays
  BY <1>1 DEF MappedStays, StorageInv, ReferencesAllocated
<1> QED
  BY <1>1, <1>5, <1>6 DEF StepIsSafe, CellsMove

\* BindCopy: the copy's object is new.
LEMMA BindCopyIsSafe ==
    ASSUME StorageInv, NEW r \in DOMAIN CopyOf, BindCopy(r)
    PROVE  StepIsSafe
<1>1. PICK shape, content :
        /\ mapped[r] = NoTensor /\ Allocate(content)
        /\ mapped' = [mapped EXCEPT ![r] = Materialized(nextStorageId, shape)]
        /\ UNCHANGED <<tensor, mutableRef, reserved>>
  BY DEF BindCopy
<1> DEFINE d == Materialized(nextStorageId, shape)
<1>2. "object" \in DOMAIN d /\ d.object = nextStorageId
  BY DEF Materialized
<1> HIDE DEF d
<1>3. mapped' = [mapped EXCEPT ![r] = d]
  BY <1>1 DEF d
<1>4. /\ nextStorageId' = nextStorageId + 1 /\ nextStorageId \in Nat /\ nextStorageId # NoObject
      /\ nextStorageId' \in 1..(MaxObject + 1) /\ nextStorageId' >= nextStorageId
      /\ cells' = [o \in Object |-> cells'[o]]
      /\ \A q \in Resource : mapped[q].object # nextStorageId
  BY <1>1, Allocation DEF StorageInv, ReferencesAllocated, NoObject
<1>5. r \in Resource
  BY DEF Resource
<1>6. d.object # NoObject /\ d.object \in 0..(nextStorageId' - 1)
  BY <1>2, <1>4
<1>7. StorageInv'
  BY <1>1, <1>2, <1>3, <1>4, <1>5, <1>6, ResourceBound
<1>8. MappedStays
  BY <1>1, <1>3 DEF MappedStays, StorageInv, ReferencesAllocated
<1> QED
  BY <1>1, <1>7, <1>8, AllocatingIsSafe DEF StepIsSafe

\* Backend work is admitted to objects that exist, and touches nothing else.
LEMMA ReservingIsSafe ==
    ASSUME StorageInv, NEW o \in Object, Reserve(o) \/ Release(o)
    PROVE  StepIsSafe
<1>1. UNCHANGED <<cells, nextStorageId, tensor, mutableRef, mapped>>
  BY DEF Reserve, Release, storageVars
<1>2. ReferencesAllocated' /\ ResourcesApart'
  BY <1>1 DEF StorageInv, ReferencesAllocated, Refers, ResourcesApart
<1>3. ReservedAllocated'
  BY <1>1 DEF Reserve, Release, StorageInv, ReservedAllocated
<1> QED
  BY <1>1, <1>2, <1>3 DEF StepIsSafe, StorageInv, CellsMove, MappedStays

\* Every step of the host and of the backend, and stuttering.
LEMMA StorageStep ==
    StorageInv /\ [Next \/ \E o \in Object : Reserve(o) \/ Release(o)]_vars => StepIsSafe
<1> SUFFICES ASSUME StorageInv, [Next \/ \E o \in Object : Reserve(o) \/ Release(o)]_vars
             PROVE  StepIsSafe
  OBVIOUS
<1>1. ASSUME NEW w \in Wrapper, Materialize(w) PROVE StepIsSafe
  BY <1>1, MaterializeIsSafe
<1>2. ASSUME NEW w \in Wrapper, NEW other \in Wrapper, DeepCopy(w, other) PROVE StepIsSafe
  BY <1>2, DeepCopyIsSafe
<1>3. ASSUME NEW w \in Wrapper, NEW other \in Wrapper,
             \/ Drop(w) \/ CopyConstruct(w, other) \/ MoveConstruct(w, other) \/ Assign(w, other)
             \/ MoveAssign(w, other) \/ Select(w, other) \/ Transpose(w, other)
             \/ ReshapeView(w, other)
      PROVE StepIsSafe
  BY <1>3, SharingIsSafe
<1>4. ASSUME Store \/ ReleaseMutable \/ \E w \in Wrapper : ObtainMutable(w) PROVE StepIsSafe
  BY <1>4, WritingIsSafe
<1>5. ASSUME NEW r \in Resource, NEW w \in Wrapper, BindFresh(r, w) PROVE StepIsSafe
  BY <1>5, BindFreshIsSafe
<1>6. ASSUME NEW r \in DOMAIN CopyOf, BindCopy(r) PROVE StepIsSafe
  BY <1>6, BindCopyIsSafe
<1>7. ASSUME NEW o \in Object, Reserve(o) \/ Release(o) PROVE StepIsSafe
  BY <1>7, ReservingIsSafe
<1>8. CASE UNCHANGED vars
  <2>1. UNCHANGED <<cells, nextStorageId, tensor, mutableRef, mapped, reserved>>
    BY <1>8 DEF vars, storageVars
  <2> QED
    BY <2>1 DEF StepIsSafe, StorageInv, ReferencesAllocated, Refers, ReservedAllocated,
                ResourcesApart, CellsMove, MappedStays
<1> QED
  BY <1>1, <1>2, <1>3, <1>4, <1>5, <1>6, <1>7, <1>8 DEF Next

\* What backend work has reserved is not written, not even through a reference that
\* was obtained before the reservation.
LEMMA ReservedStaysStep ==
    ASSUME StorageInv, CellsMove, NEW o \in Object, reserved[o] # {}
    PROVE  cells'[o] = cells[o]
  BY DEF StorageInv, ReservedAllocated, CellsMove

\* What a tensor reads depends on the cells of its own object only.
LEMMA ReadsItsObject ==
    ASSUME NEW r \in Resource, mapped'[r] = mapped[r],
           cells'[mapped[r].object] = cells[mapped[r].object]
    PROVE  Held(r)' = Held(r)
  BY DEF Held, LogicalValues

\* One step changes what at most one resource holds.
LEMMA OneResourceChangesStep ==
    ASSUME StorageInv, CellsMove, MappedStays, NEW r \in Resource, NEW s \in Resource,
           r # s, mapped[r] # NoTensor, mapped[s] # NoTensor, Held(r)' # Held(r)
    PROVE  Held(s)' = Held(s)
<1>1. mapped'[r] = mapped[r] /\ mapped'[s] = mapped[s]
  BY DEF MappedStays
<1>2. mapped[r].object # mapped[s].object
  BY DEF StorageInv, ResourcesApart
<1>3. cells'[mapped[r].object] # cells[mapped[r].object]
  BY <1>1, ReadsItsObject
<1>4. /\ mapped[r].object \in Object /\ mapped[r].object < nextStorageId
      /\ mapped[s].object \in Object
  <2>1. nextStorageId \in 1..(MaxObject + 1) /\ Refers(mapped[r]) /\ Refers(mapped[s])
    BY DEF StorageInv, ReferencesAllocated
  <2>2. mapped[r].object # 0 /\ mapped[s].object # 0
    BY DEF StorageInv, ResourcesApart, NoObject
  <2> QED
    BY <2>1, <2>2, StorageAssumption DEF Refers, Object
<1>5. cells'[mapped[s].object] = cells[mapped[s].object]
  BY <1>2, <1>3, <1>4 DEF CellsMove
<1> QED
  BY <1>1, <1>5, ReadsItsObject

\* The invariant holds in every reachable state.
LEMMA StorageInvariant == StorageSpec => []StorageInv
<1>1. StorageInv /\ [Next \/ \E o \in Object : Reserve(o) \/ Release(o)]_vars => StorageInv'
  BY StorageStep DEF StepIsSafe
<1> QED
  BY <1>1, StorageInit, PTL DEF StorageSpec

\* The guards of the host's writes keep what pending backend work has reserved, even
\* from a MutableTensorRef that was obtained before the work was admitted, and from
\* allocations of copies.
THEOREM Reservations == StorageSpec => ReservedIsStable
<1> DEFINE Step == \A o \in Object : reserved[o] # {} => cells'[o] = cells[o]
<1>1. StorageInv /\ [Next \/ \E o \in Object : Reserve(o) \/ Release(o)]_vars => Step
  BY StorageStep, ReservedStaysStep DEF StepIsSafe
<1>2. StorageSpec => [][Step]_vars
  BY <1>1, StorageInvariant, PTL DEF StorageSpec
<1> QED
  BY <1>2 DEF ReservedIsStable

\* The resource bridge carries the ownership analysis's facts to the storage: a write
\* through any view, copy or moved wrapper changes what one resource holds at most.
THEOREM Separation == StorageSpec => WritesStayApart
<1> DEFINE Step == \A r, s \in Resource :
              r # s /\ mapped[r] # NoTensor /\ mapped[s] # NoTensor /\ Held(r)' # Held(r) =>
                Held(s)' = Held(s)
<1>1. StorageInv /\ [Next \/ \E o \in Object : Reserve(o) \/ Release(o)]_vars => Step
  BY StorageStep, OneResourceChangesStep DEF StepIsSafe
<1>2. StorageSpec => [][Step]_vars
  BY <1>1, StorageInvariant, PTL DEF StorageSpec
<1> QED
  BY <1>2 DEF WritesStayApart

-----------------------------------------------------------------------------
(***************************************************************************)
(* Induction over the numbers up to n, and what a fold over them is.       *)
(***************************************************************************)

\* Every set of numbers that has a member has a least one.
LEMMA LeastNumber ==
    ASSUME NEW T \in SUBSET Nat, T # {}
    PROVE  \E m \in T : \A k \in T : m <= k
<1>1. IsWellFoundedOn(OpToRel(<, Nat), Nat)
  BY NatLessThanWellFounded
<1>2. PICK m \in T : \A k \in T : <<k, m>> \notin OpToRel(<, Nat)
  BY <1>1, WFMin
<1>3. \A k \in T : ~(k < m)
  BY <1>2 DEF OpToRel
<1> QED
  BY <1>3

\* Induction on the numbers up to n, for the set of those that have a property.
LEMMA UpTo ==
    ASSUME NEW n \in Nat, NEW T, 0 \in T,
           \A i \in 0..(n - 1) : i \in T => i + 1 \in T
    PROVE  0..n \subseteq T
<1> DEFINE Bad == {i \in 0..n : i \notin T}
<1> SUFFICES ASSUME Bad # {} PROVE FALSE
  OBVIOUS
<1>1. Bad \in SUBSET Nat
  OBVIOUS
<1>2. PICK m \in Bad : \A k \in Bad : m <= k
  BY <1>1, LeastNumber
<1>3. m # 0 /\ m - 1 \in 0..(n - 1) /\ m - 1 \notin Bad
  BY <1>2
<1> QED
  BY <1>3

\* The largest of the first k numbers and of a set that has it.
LEMMA LargestIs ==
    ASSUME NEW k \in Nat, NEW s \in SUBSET (1..k), k \in s
    PROVE  Max(s) = k
<1>1. k \in s /\ \A y \in s : k >= y
  OBVIOUS
<1>2. \A x \in s : (\A y \in s : x >= y) => x = k
  BY <1>1
<1> QED
  BY <1>1, <1>2 DEF Max

\* A fold over the numbers up to n, by the sets of numbers it has still to take.
FoldsOver(g, n, V, base, step) ==
    /\ g \in [SUBSET (1..n) -> V]
    /\ \A s \in SUBSET (1..n) :
        g[s] = IF s = {} THEN base ELSE step[Max(s)][g[s \ {Max(s)}]]

\* There is one, whatever a step does.
LEMMA FoldExists ==
    ASSUME NEW n \in Nat, NEW V, NEW base \in V, NEW step \in [1..n -> [V -> V]]
    PROVE  \E g : FoldsOver(g, n, V, base, step)
<1> DEFINE T == {k \in 0..n : \E g : FoldsOver(g, k, V, base, step)}
<1>1. 0 \in T
  <2> DEFINE g == [s \in SUBSET (1..0) |-> base]
  <2>1. \A s \in SUBSET (1..0) : s = {}
    OBVIOUS
  <2>2. FoldsOver(g, 0, V, base, step)
    BY <2>1 DEF FoldsOver
  <2> QED
    BY <2>2
<1>2. ASSUME NEW k \in 0..(n - 1), k \in T PROVE k + 1 \in T
  <2>1. PICK f : FoldsOver(f, k, V, base, step)
    BY <1>2
  <2>2. step[k + 1] \in [V -> V]
    OBVIOUS
  <2> DEFINE g == [s \in SUBSET (1..(k + 1)) |->
                      IF k + 1 \in s THEN step[k + 1][f[s \ {k + 1}]] ELSE f[s]]
  <2>3. ASSUME NEW s \in SUBSET (1..(k + 1))
        PROVE  /\ g[s] \in V
               /\ g[s] = IF s = {} THEN base ELSE step[Max(s)][g[s \ {Max(s)}]]
    <3>1. CASE k + 1 \in s
      <4>1. Max(s) = k + 1
        BY <3>1, LargestIs
      <4>2. s \ {k + 1} \in SUBSET (1..k) /\ s \ {k + 1} \in SUBSET (1..(k + 1))
        OBVIOUS
      <4>3. g[s \ {k + 1}] = f[s \ {k + 1}] /\ f[s \ {k + 1}] \in V
        BY <4>2, <2>1 DEF FoldsOver
      <4> QED
        BY <2>2, <3>1, <4>1, <4>3
    <3>2. CASE k + 1 \notin s
      <4>1. s \in SUBSET (1..k) /\ g[s] = f[s]
        BY <3>2
      <4>2. f[s] \in V /\ f[s] = IF s = {} THEN base ELSE step[Max(s)][f[s \ {Max(s)}]]
        BY <2>1, <4>1 DEF FoldsOver
      <4>3. s \ {Max(s)} \in SUBSET (1..(k + 1)) /\ k + 1 \notin s \ {Max(s)}
        BY <3>2
      <4>4. g[s \ {Max(s)}] = f[s \ {Max(s)}]
        BY <4>3
      <4> QED
        BY <4>1, <4>2, <4>4
    <3> QED
      BY <3>1, <3>2
  <2>4. FoldsOver(g, k + 1, V, base, step)
    BY <2>3 DEF FoldsOver
  <2> QED
    BY <2>4
<1>3. n \in T
  <2>1. \A i \in 0..(n - 1) : i \in T => i + 1 \in T
    BY <1>2
  <2> HIDE DEF T
  <2>2. 0..n \subseteq T
    BY <1>1, <2>1, UpTo
  <2> QED
    BY <2>2
<1> QED
  BY <1>3

\* A set of the numbers up to n has a largest one.
LEMMA LargestExists ==
    ASSUME NEW n \in Nat, NEW s \in SUBSET (1..n), s # {}
    PROVE  Max(s) \in s
<1> DEFINE T == {m \in 0..n : n - m \in s}
<1>1. ASSUME NEW k \in s PROVE n - k \in T
  <2>1. n - k \in 0..n /\ n - (n - k) = k
    OBVIOUS
  <2> QED
    BY <2>1
<1>2. T \in SUBSET Nat /\ T # {}
  <2>1. PICK k \in s : n - k \in T
    BY <1>1
  <2> QED
    BY <2>1
<1>3. PICK m \in T : \A j \in T : m <= j
  BY <1>2, LeastNumber
<1>4. n - m \in s /\ \A j \in s : n - m >= j
  BY <1>1, <1>3
<1> QED
  BY <1>4 DEF Max

\* The results of a fold after each number, in order.
Accumulates(f, n, V, base, step) ==
    f \in [0..n -> V] /\ f[0] = base /\ \A i \in 1..n : f[i] = step[i][f[i - 1]]

\* The equation of a fold, where it has a value of V.
StepsIn(g, n, V, step) ==
    \A s \in SUBSET (1..n) :
        s # {} /\ g[s \ {Max(s)}] \in V => g[s] = step[Max(s)][g[s \ {Max(s)}]]

\* What satisfies the equation of a fold where it has a value of V is a fold over V.
LEMMA FoldPrefixes ==
    ASSUME NEW n \in Nat, NEW V, NEW base \in V, NEW step \in [1..n -> [V -> V]], NEW g,
           g[{}] = base, StepsIn(g, n, V, step)
    PROVE  Accumulates([i \in 0..n |-> g[1..i]], n, V, base, step)
<1> DEFINE T == {i \in 0..n : g[1..i] \in V}
<1>1. g[1..0] = base
  <2>1. 1..0 = {}
    OBVIOUS
  <2> QED
    BY <2>1
<1>2. ASSUME NEW i \in 1..n, g[1..(i - 1)] \in V
      PROVE  g[1..i] = step[i][g[1..(i - 1)]]
  <2>1. (1..i) \in SUBSET (1..n) /\ i \in 1..i /\ (1..i) \ {i} = 1..(i - 1)
    OBVIOUS
  <2>2. Max(1..i) = i
    BY <2>1, LargestIs
  <2> QED
    BY <1>2, <2>1, <2>2 DEF StepsIn
<1>3. 0..n \subseteq T
  <2>1. 0 \in T
    BY <1>1
  <2>2. ASSUME NEW i \in 0..(n - 1), i \in T PROVE i + 1 \in T
    <3>1. i + 1 \in 1..n /\ (i + 1) - 1 = i
      OBVIOUS
    <3>2. g[1..(i + 1)] = step[i + 1][g[1..i]]
      BY <1>2, <2>2, <3>1
    <3>3. step[i + 1] \in [V -> V]
      BY <3>1
    <3> QED
      BY <2>2, <3>2, <3>3
  <2>3. \A i \in 0..(n - 1) : i \in T => i + 1 \in T
    BY <2>2
  <2> HIDE DEF T
  <2> QED
    BY <2>1, <2>3, UpTo
<1>4. \A i \in 0..n : g[1..i] \in V
  BY <1>3
<1> DEFINE f == [i \in 0..n |-> g[1..i]]
<1>5. f \in [0..n -> V] /\ f[0] = base
  BY <1>1, <1>4
<1>6. \A i \in 1..n : i - 1 \in 0..n /\ f[i] = step[i][f[i - 1]]
  BY <1>2, <1>4
<1> QED
  BY <1>5, <1>6 DEF Accumulates

\* A sum of products, term by term.
Sums(f, n, x, y) ==
    /\ f \in [0..n -> Int] /\ f[0] = 0
    /\ \A i \in 1..n : f[i] = f[i - 1] + x[i] * y[i]

\* Dot is the sum of the products of two lists of as many numbers.
LEMMA DotIs ==
    ASSUME NEW n \in Nat, NEW x \in [1..n -> Int], NEW y \in [1..n -> Int]
    PROVE  \E f : Sums(f, n, x, y) /\ Dot(x, y) = f[n]
<1> DEFINE q == [i \in DOMAIN x |-> i]
           Raw(g) == g = [s \in SUBSET DOMAIN q |->
                     IF s = {} THEN 0 ELSE g[s \ {Max(s)}] + x[q[Max(s)]] * y[q[Max(s)]]]
           step == [i \in 1..n |-> [a \in Int |-> a + x[i] * y[i]]]
<1>1. Dot(x, y) = (CHOOSE g : Raw(g))[DOMAIN q]
  BY DEF Dot, FoldLeft, MapThenFoldSet
<1>2. step \in [1..n -> [Int -> Int]] /\ 0 \in Int
  OBVIOUS
<1>3. PICK g : FoldsOver(g, n, Int, 0, step)
  <2> HIDE DEF step
  <2> QED
    BY <1>2, FoldExists, Zenon
<1>4. DOMAIN q = 1..n /\ \A i \in 1..n : q[i] = i
  OBVIOUS
<1>5. Raw(g)
  <2>1. ASSUME NEW s \in SUBSET (1..n)
        PROVE  g[s] = IF s = {} THEN 0 ELSE g[s \ {Max(s)}] + x[q[Max(s)]] * y[q[Max(s)]]
    <3>1. CASE s = {}
      BY <1>3, <3>1 DEF FoldsOver
    <3>2. CASE s # {}
      <4>1. Max(s) \in 1..n
        BY <3>2, LargestExists
      <4>2. g[s \ {Max(s)}] \in Int /\ g[s] = step[Max(s)][g[s \ {Max(s)}]]
        BY <1>3, <3>2 DEF FoldsOver
      <4> QED
        BY <3>2, <4>1, <4>2
    <3> QED
      BY <3>1, <3>2
  <2>2. g = [s \in SUBSET (1..n) |-> g[s]]
    BY <1>3 DEF FoldsOver
  <2> HIDE DEF q
  <2> QED
    BY <1>4, <2>1, <2>2
<1> DEFINE h == CHOOSE g0 : Raw(g0)
<1>6. Raw(h)
  <2> HIDE DEF Raw
  <2> QED
    BY <1>5
<1> HIDE DEF h
<1>7. h[{}] = 0
  BY <1>6, <1>4
<1>8. StepsIn(h, n, Int, step)
  <2> SUFFICES ASSUME NEW s \in SUBSET (1..n), s # {}, h[s \ {Max(s)}] \in Int
               PROVE  h[s] = step[Max(s)][h[s \ {Max(s)}]]
    BY DEF StepsIn
  <2>1. Max(s) \in 1..n
    BY LargestExists
  <2>2. h[s] = h[s \ {Max(s)}] + x[q[Max(s)]] * y[q[Max(s)]]
    <3> HIDE DEF q
    <3> QED
      BY <1>4, <1>6
  <2> QED
    BY <1>4, <2>1, <2>2
<1> DEFINE f == [i \in 0..n |-> h[1..i]]
<1>9. Accumulates(f, n, Int, 0, step)
  <2> HIDE DEF step
  <2> QED
    BY <1>2, <1>7, <1>8, FoldPrefixes, Zenon
<1>10. Sums(f, n, x, y)
  <2>1. f \in [0..n -> Int] /\ f[0] = 0 /\ \A i \in 1..n : f[i] = step[i][f[i - 1]]
    BY <1>9 DEF Accumulates
  <2>2. ASSUME NEW i \in 1..n PROVE f[i] = f[i - 1] + x[i] * y[i]
    <3>1. f[i - 1] \in Int
      BY <2>1
    <3> HIDE DEF f
    <3> QED
      BY <2>1, <3>1
  <2> QED
    BY <2>1, <2>2 DEF Sums
<1>11. Dot(x, y) = f[n]
  BY <1>1, <1>4 DEF h
<1> QED
  BY <1>10, <1>11

\* A product of extents, axis by axis.
Products(f, n, shape) ==
    /\ f \in [0..n -> Int] /\ f[0] = 1
    /\ \A i \in 1..n : f[i] = f[i - 1] * shape[i]

\* ElementCount is the product of the extents.
LEMMA ElementCountIs ==
    ASSUME NEW n \in Nat, NEW shape \in [1..n -> Int]
    PROVE  \E f : Products(f, n, shape) /\ ElementCount(shape) = f[n]
<1> DEFINE Raw(g) == g = [s \in SUBSET DOMAIN shape |->
                     IF s = {} THEN 1 ELSE g[s \ {Max(s)}] * shape[Max(s)]]
           step == [i \in 1..n |-> [a \in Int |-> a * shape[i]]]
<1>1. ElementCount(shape) = (CHOOSE g : Raw(g))[DOMAIN shape]
  BY DEF ElementCount, FoldLeft, MapThenFoldSet
<1>2. step \in [1..n -> [Int -> Int]] /\ 1 \in Int
  OBVIOUS
<1>3. PICK g : FoldsOver(g, n, Int, 1, step)
  <2> HIDE DEF step
  <2> QED
    BY <1>2, FoldExists, Zenon
<1>4. DOMAIN shape = 1..n
  OBVIOUS
<1>5. Raw(g)
  <2>1. ASSUME NEW s \in SUBSET (1..n)
        PROVE  g[s] = IF s = {} THEN 1 ELSE g[s \ {Max(s)}] * shape[Max(s)]
    <3>1. CASE s = {}
      BY <1>3, <3>1 DEF FoldsOver
    <3>2. CASE s # {}
      <4>1. Max(s) \in 1..n
        BY <3>2, LargestExists
      <4>2. g[s \ {Max(s)}] \in Int /\ g[s] = step[Max(s)][g[s \ {Max(s)}]]
        BY <1>3, <3>2 DEF FoldsOver
      <4> QED
        BY <3>2, <4>1, <4>2
    <3> QED
      BY <3>1, <3>2
  <2>2. g = [s \in SUBSET (1..n) |-> g[s]]
    BY <1>3 DEF FoldsOver
  <2> QED
    BY <1>4, <2>1, <2>2
<1> DEFINE h == CHOOSE g0 : Raw(g0)
<1>6. Raw(h)
  <2> HIDE DEF Raw
  <2> QED
    BY <1>5
<1> HIDE DEF h
<1>7. h[{}] = 1
  BY <1>6, <1>4
<1>8. StepsIn(h, n, Int, step)
  <2> SUFFICES ASSUME NEW s \in SUBSET (1..n), s # {}, h[s \ {Max(s)}] \in Int
               PROVE  h[s] = step[Max(s)][h[s \ {Max(s)}]]
    BY DEF StepsIn
  <2>1. Max(s) \in 1..n
    BY LargestExists
  <2>2. h[s] = h[s \ {Max(s)}] * shape[Max(s)]
    <3> QED
      BY <1>4, <1>6
  <2> QED
    BY <1>4, <2>1, <2>2
<1> DEFINE f == [i \in 0..n |-> h[1..i]]
<1>9. Accumulates(f, n, Int, 1, step)
  <2> HIDE DEF step
  <2> QED
    BY <1>2, <1>7, <1>8, FoldPrefixes, Zenon
<1>10. Products(f, n, shape)
  <2>1. f \in [0..n -> Int] /\ f[0] = 1 /\ \A i \in 1..n : f[i] = step[i][f[i - 1]]
    BY <1>9 DEF Accumulates
  <2>2. ASSUME NEW i \in 1..n PROVE f[i] = f[i - 1] * shape[i]
    <3>1. f[i - 1] \in Int
      BY <2>1
    <3> HIDE DEF f
    <3> QED
      BY <2>1, <3>1
  <2> QED
    BY <2>1, <2>2 DEF Products
<1>11. ElementCount(shape) = f[n]
  BY <1>1, <1>4 DEF h
<1> QED
  BY <1>10, <1>11

\* A position in row-major order, axis by axis.
Ranks(f, n, shape, index) ==
    /\ f \in [0..n -> Int] /\ f[0] = 0
    /\ \A i \in 1..n : f[i] = f[i - 1] * shape[i] + index[i]

\* Rank is the position of an index, counted axis by axis.
LEMMA RankIs ==
    ASSUME NEW n \in Nat, NEW shape \in [1..n -> Int], NEW index \in [1..n -> Int]
    PROVE  \E f : Ranks(f, n, shape, index) /\ Rank(shape, index) = f[n]
<1> DEFINE q == [i \in DOMAIN shape |-> i]
           Raw(g) == g = [s \in SUBSET DOMAIN q |->
                     IF s = {} THEN 0 ELSE g[s \ {Max(s)}] * shape[q[Max(s)]] + index[q[Max(s)]]]
           step == [i \in 1..n |-> [a \in Int |-> a * shape[i] + index[i]]]
<1>1. Rank(shape, index) = (CHOOSE g : Raw(g))[DOMAIN q]
  BY DEF Rank, FoldLeft, MapThenFoldSet
<1>2. step \in [1..n -> [Int -> Int]] /\ 0 \in Int
  OBVIOUS
<1>3. PICK g : FoldsOver(g, n, Int, 0, step)
  <2> HIDE DEF step
  <2> QED
    BY <1>2, FoldExists, Zenon
<1>4. DOMAIN q = 1..n /\ \A i \in 1..n : q[i] = i
  OBVIOUS
<1>5. Raw(g)
  <2>1. ASSUME NEW s \in SUBSET (1..n)
        PROVE  g[s] = IF s = {} THEN 0 ELSE g[s \ {Max(s)}] * shape[q[Max(s)]] + index[q[Max(s)]]
    <3>1. CASE s = {}
      BY <1>3, <3>1 DEF FoldsOver
    <3>2. CASE s # {}
      <4>1. Max(s) \in 1..n
        BY <3>2, LargestExists
      <4>2. g[s \ {Max(s)}] \in Int /\ g[s] = step[Max(s)][g[s \ {Max(s)}]]
        BY <1>3, <3>2 DEF FoldsOver
      <4> QED
        BY <3>2, <4>1, <4>2
    <3> QED
      BY <3>1, <3>2
  <2>2. g = [s \in SUBSET (1..n) |-> g[s]]
    BY <1>3 DEF FoldsOver
  <2> HIDE DEF q
  <2> QED
    BY <1>4, <2>1, <2>2
<1> DEFINE h == CHOOSE g0 : Raw(g0)
<1>6. Raw(h)
  <2> HIDE DEF Raw
  <2> QED
    BY <1>5
<1> HIDE DEF h
<1>7. h[{}] = 0
  BY <1>6, <1>4
<1>8. StepsIn(h, n, Int, step)
  <2> SUFFICES ASSUME NEW s \in SUBSET (1..n), s # {}, h[s \ {Max(s)}] \in Int
               PROVE  h[s] = step[Max(s)][h[s \ {Max(s)}]]
    BY DEF StepsIn
  <2>1. Max(s) \in 1..n
    BY LargestExists
  <2>2. h[s] = h[s \ {Max(s)}] * shape[q[Max(s)]] + index[q[Max(s)]]
    <3> HIDE DEF q
    <3> QED
      BY <1>4, <1>6
  <2> QED
    BY <1>4, <2>1, <2>2
<1> DEFINE f == [i \in 0..n |-> h[1..i]]
<1>9. Accumulates(f, n, Int, 0, step)
  <2> HIDE DEF step
  <2> QED
    BY <1>2, <1>7, <1>8, FoldPrefixes, Zenon
<1>10. Ranks(f, n, shape, index)
  <2>1. f \in [0..n -> Int] /\ f[0] = 0 /\ \A i \in 1..n : f[i] = step[i][f[i - 1]]
    BY <1>9 DEF Accumulates
  <2>2. ASSUME NEW i \in 1..n PROVE f[i] = f[i - 1] * shape[i] + index[i]
    <3>1. f[i - 1] \in Int
      BY <2>1
    <3> HIDE DEF f
    <3> QED
      BY <2>1, <3>1
  <2> QED
    BY <2>1, <2>2 DEF Ranks
<1>11. Rank(shape, index) = f[n]
  BY <1>1, <1>4 DEF h
<1> QED
  BY <1>10, <1>11

\* The axes kept so far, axis by axis.
Keeps(f, n, selectors) ==
    /\ f \in [0..n -> Seq(1..n)] /\ f[0] = <<>>
    /\ \A i \in 1..n : f[i] = (IF selectors[i].kind = "slice" THEN Append(f[i - 1], i) ELSE f[i - 1])

\* Kept lists the axes with a slice.
LEMMA KeptIs ==
    ASSUME NEW n \in Nat, NEW selectors, DOMAIN selectors = 1..n
    PROVE  \E f : Keeps(f, n, selectors) /\ Kept(selectors) = f[n]
<1> DEFINE q == [i \in DOMAIN selectors |-> i]
           Raw(g) == g = [s \in SUBSET DOMAIN q |->
                     IF s = {} THEN <<>> ELSE (IF selectors[q[Max(s)]].kind = "slice" THEN Append(g[s \ {Max(s)}], q[Max(s)]) ELSE g[s \ {Max(s)}])]
           step == [i \in 1..n |-> [a \in Seq(1..n) |-> (IF selectors[i].kind = "slice" THEN Append(a, i) ELSE a)]]
<1>1. Kept(selectors) = (CHOOSE g : Raw(g))[DOMAIN q]
  BY DEF Kept, FoldLeft, MapThenFoldSet
<1>2. step \in [1..n -> [Seq(1..n) -> Seq(1..n)]] /\ <<>> \in Seq(1..n)
  <2>1. \A i \in 1..n, a \in Seq(1..n) :
            (IF selectors[i].kind = "slice" THEN Append(a, i) ELSE a) \in Seq(1..n)
    BY AppendProperties
  <2>2. <<>> \in Seq(1..n)
    OBVIOUS
  <2> QED
    BY <2>1, <2>2
<1>3. PICK g : FoldsOver(g, n, Seq(1..n), <<>>, step)
  <2> HIDE DEF step
  <2> QED
    BY <1>2, FoldExists, Zenon
<1>4. DOMAIN q = 1..n /\ \A i \in 1..n : q[i] = i
  OBVIOUS
<1>5. Raw(g)
  <2>1. ASSUME NEW s \in SUBSET (1..n)
        PROVE  g[s] = IF s = {} THEN <<>> ELSE (IF selectors[q[Max(s)]].kind = "slice" THEN Append(g[s \ {Max(s)}], q[Max(s)]) ELSE g[s \ {Max(s)}])
    <3>1. CASE s = {}
      BY <1>3, <3>1 DEF FoldsOver
    <3>2. CASE s # {}
      <4>1. Max(s) \in 1..n
        BY <3>2, LargestExists
      <4>2. g[s \ {Max(s)}] \in Seq(1..n) /\ g[s] = step[Max(s)][g[s \ {Max(s)}]]
        BY <1>3, <3>2 DEF FoldsOver
      <4> QED
        BY <3>2, <4>1, <4>2
    <3> QED
      BY <3>1, <3>2
  <2>2. g = [s \in SUBSET (1..n) |-> g[s]]
    BY <1>3 DEF FoldsOver
  <2> HIDE DEF q
  <2> QED
    BY <1>4, <2>1, <2>2
<1> DEFINE h == CHOOSE g0 : Raw(g0)
<1>6. Raw(h)
  <2> HIDE DEF Raw
  <2> QED
    BY <1>5
<1> HIDE DEF h
<1>7. h[{}] = <<>>
  BY <1>6, <1>4
<1>8. StepsIn(h, n, Seq(1..n), step)
  <2> SUFFICES ASSUME NEW s \in SUBSET (1..n), s # {}, h[s \ {Max(s)}] \in Seq(1..n)
               PROVE  h[s] = step[Max(s)][h[s \ {Max(s)}]]
    BY DEF StepsIn
  <2>1. Max(s) \in 1..n
    BY LargestExists
  <2>2. h[s] = (IF selectors[q[Max(s)]].kind = "slice" THEN Append(h[s \ {Max(s)}], q[Max(s)]) ELSE h[s \ {Max(s)}])
    <3> HIDE DEF q
    <3> QED
      BY <1>4, <1>6
  <2> QED
    BY <1>4, <2>1, <2>2
<1> DEFINE f == [i \in 0..n |-> h[1..i]]
<1>9. Accumulates(f, n, Seq(1..n), <<>>, step)
  <2> HIDE DEF step
  <2> QED
    BY <1>2, <1>7, <1>8, FoldPrefixes, Zenon
<1>10. Keeps(f, n, selectors)
  <2>1. f \in [0..n -> Seq(1..n)] /\ f[0] = <<>> /\ \A i \in 1..n : f[i] = step[i][f[i - 1]]
    BY <1>9 DEF Accumulates
  <2>2. ASSUME NEW i \in 1..n PROVE f[i] = (IF selectors[i].kind = "slice" THEN Append(f[i - 1], i) ELSE f[i - 1])
    <3>1. f[i - 1] \in Seq(1..n)
      BY <2>1
    <3> HIDE DEF f
    <3> QED
      BY <2>1, <3>1
  <2> QED
    BY <2>1, <2>2 DEF Keeps
<1>11. Kept(selectors) = f[n]
  BY <1>1, <1>4 DEF h
<1> QED
  BY <1>10, <1>11

-----------------------------------------------------------------------------
(***************************************************************************)
(* Offsets, ranks and selections.                                          *)
(***************************************************************************)

\* Sums whose terms agree are equal.
LEMMA SumsAgree ==
    ASSUME NEW n \in Nat, NEW x, NEW y, NEW u, NEW v, NEW f, NEW g,
           Sums(f, n, x, y), Sums(g, n, u, v), \A i \in 1..n : x[i] * y[i] = u[i] * v[i]
    PROVE  \A i \in 0..n : f[i] = g[i]
<1> DEFINE T == {i \in 0..n : f[i] = g[i]}
<1>1. 0 \in T
  BY DEF Sums
<1>2. \A i \in 0..(n - 1) : i \in T => i + 1 \in T
  <2> SUFFICES ASSUME NEW i \in 0..(n - 1), f[i] = g[i] PROVE f[i + 1] = g[i + 1]
    OBVIOUS
  <2>1. i + 1 \in 1..n /\ (i + 1) - 1 = i
    OBVIOUS
  <2> QED
    BY <2>1 DEF Sums
<1>3. 0..n \subseteq T
  <2> HIDE DEF T
  <2> QED
    BY <1>1, <1>2, UpTo
<1> QED
  BY <1>3

\* What a list without its first i entries holds.
After(shape, n, i) == [j \in 1..(n - i) |-> shape[i + j]]

\* A product of extents starts with the first as well as it ends with the last.
LEMMA FirstExtent ==
    ASSUME NEW n \in Nat \ {0}, NEW shape \in [1..n -> Int]
    PROVE  ElementCount(shape) = shape[1] * ElementCount(After(shape, n, 1))
<1> DEFINE rest == After(shape, n, 1)
<1>1. rest \in [1..(n - 1) -> Int] /\ n - 1 \in Nat /\ \A j \in 1..(n - 1) : rest[j] = shape[1 + j]
  BY DEF After
<1> HIDE DEF rest
<1>2. PICK p : Products(p, n, shape) /\ ElementCount(shape) = p[n]
  BY ElementCountIs
<1>3. PICK q : Products(q, n - 1, rest) /\ ElementCount(rest) = q[n - 1]
  BY <1>1, ElementCountIs
<1> DEFINE T == {i \in 0..(n - 1) : p[i + 1] = shape[1] * q[i]}
<1>4. 0 \in T
  <2>1. 1 \in 1..n /\ 1 - 1 = 0 /\ 0 + 1 = 1
    OBVIOUS
  <2>2. p[1] = p[0] * shape[1] /\ p[0] = 1 /\ q[0] = 1 /\ shape[1] \in Int
    BY <1>2, <1>3, <2>1 DEF Products
  <2> QED
    BY <2>1, <2>2
<1>5. \A i \in 0..((n - 1) - 1) : i \in T => i + 1 \in T
  <2> SUFFICES ASSUME NEW i \in 0..((n - 1) - 1), p[i + 1] = shape[1] * q[i]
               PROVE  p[(i + 1) + 1] = shape[1] * q[i + 1]
    OBVIOUS
  <2>1. /\ (i + 1) + 1 \in 1..n /\ ((i + 1) + 1) - 1 = i + 1
        /\ i + 1 \in 1..(n - 1) /\ (i + 1) - 1 = i /\ 1 + (i + 1) = (i + 1) + 1
    OBVIOUS
  <2>2. p[(i + 1) + 1] = p[i + 1] * shape[(i + 1) + 1]
    BY <1>2, <2>1 DEF Products
  <2>3. q[i + 1] = q[i] * shape[(i + 1) + 1]
    BY <1>1, <1>3, <2>1 DEF Products
  <2>4. q[i] \in Int /\ shape[1] \in Int /\ shape[(i + 1) + 1] \in Int
    BY <1>3, <2>1 DEF Products
  <2>5. \A a, b, c \in Int : (a * b) * c = a * (b * c)
    OBVIOUS
  <2> QED
    BY <2>2, <2>3, <2>4, <2>5
<1>6. 0..(n - 1) \subseteq T
  <2> HIDE DEF T
  <2> QED
    BY <1>1, <1>4, <1>5, UpTo
<1>7. n - 1 \in T /\ (n - 1) + 1 = n
  BY <1>1, <1>6
<1> QED
  BY <1>2, <1>3, <1>7 DEF rest

\* The products behind each axis, from the last axis to the first.
LEMMA ProductsAfter ==
    ASSUME NEW n \in Nat, NEW shape \in [1..n -> Int]
    PROVE  /\ ElementCount(After(shape, n, n)) = 1
           /\ \A i \in 0..n : ElementCount(After(shape, n, i)) \in Int
           /\ \A i \in 1..n : ElementCount(After(shape, n, i - 1))
                                = shape[i] * ElementCount(After(shape, n, i))
<1>1. \A i \in 0..n : n - i \in Nat /\ After(shape, n, i) \in [1..(n - i) -> Int]
  BY DEF After
<1>2. \A i \in 0..n : ElementCount(After(shape, n, i)) \in Int
  <2> TAKE i \in 0..n
  <2>1. PICK p : Products(p, n - i, After(shape, n, i)) /\ ElementCount(After(shape, n, i)) = p[n - i]
    BY <1>1, ElementCountIs
  <2> QED
    BY <1>1, <2>1 DEF Products
<1>3. ElementCount(After(shape, n, n)) = 1
  <2>1. n - n = 0 /\ n - n \in Nat /\ After(shape, n, n) \in [1..(n - n) -> Int]
    BY <1>1
  <2>2. PICK p : Products(p, n - n, After(shape, n, n)) /\ ElementCount(After(shape, n, n)) = p[n - n]
    BY <2>1, ElementCountIs
  <2> QED
    BY <2>1, <2>2 DEF Products
<1>4. ASSUME NEW i \in 1..n
      PROVE  ElementCount(After(shape, n, i - 1)) = shape[i] * ElementCount(After(shape, n, i))
  <2> DEFINE m == n - (i - 1)
             s == After(shape, n, i - 1)
  <2>1. m \in Nat \ {0} /\ i - 1 \in 0..n /\ s \in [1..m -> Int]
    BY DEF After
  <2>2. s[1] = shape[i]
    BY DEF After
  <2>3. After(s, m, 1) = After(shape, n, i)
    <3>1. m - 1 = n - i
      OBVIOUS
    <3>2. \A j \in 1..(n - i) : s[1 + j] = shape[i + j]
      BY DEF After
    <3> QED
      BY <3>1, <3>2 DEF After
  <2> HIDE DEF m, s
  <2>4. ElementCount(s) = s[1] * ElementCount(After(s, m, 1))
    BY <2>1, FirstExtent
  <2> QED
    BY <2>2, <2>3, <2>4 DEF s
<1> QED
  BY <1>2, <1>3, <1>4

\* Strides that step over what is behind each axis lead to the position of the index.
LEMMA LayoutIsRank ==
    ASSUME NEW n \in Nat, NEW shape \in [1..n -> Int], NEW x \in [1..n -> Int],
           NEW y \in [1..n -> Int],
           \A i \in 1..n : x[i] * y[i] = x[i] * ElementCount(After(shape, n, i))
    PROVE  Dot(x, y) = Rank(shape, x)
<1>1. PICK f : Sums(f, n, x, y) /\ Dot(x, y) = f[n]
  BY DotIs
<1>2. PICK r : Ranks(r, n, shape, x) /\ Rank(shape, x) = r[n]
  BY RankIs
<1> DEFINE S(i) == ElementCount(After(shape, n, i))
           T == {i \in 0..n : r[i] * S(i) = f[i]}
<1>3. S(n) = 1 /\ (\A i \in 0..n : S(i) \in Int) /\ \A i \in 1..n : S(i - 1) = shape[i] * S(i)
  BY ProductsAfter
<1>4. \A i \in 1..n : x[i] * y[i] = x[i] * S(i)
  OBVIOUS
<1> HIDE DEF S
<1>5. 0 \in T
  BY <1>1, <1>2, <1>3 DEF Sums, Ranks
<1>6. \A i \in 0..(n - 1) : i \in T => i + 1 \in T
  <2> SUFFICES ASSUME NEW i \in 0..(n - 1), r[i] * S(i) = f[i]
               PROVE  r[i + 1] * S(i + 1) = f[i + 1]
    OBVIOUS
  <2>1. i + 1 \in 1..n /\ (i + 1) - 1 = i /\ i \in 0..n /\ i + 1 \in 0..n
    OBVIOUS
  <2>2. r[i + 1] = r[i] * shape[i + 1] + x[i + 1]
    BY <1>2, <2>1 DEF Ranks
  <2>3. f[i + 1] = f[i] + x[i + 1] * S(i + 1)
    BY <1>1, <1>4, <2>1 DEF Sums
  <2>4. S(i) = shape[i + 1] * S(i + 1) /\ S(i + 1) \in Int /\ r[i] \in Int
        /\ shape[i + 1] \in Int /\ x[i + 1] \in Int
    BY <1>2, <1>3, <2>1 DEF Ranks
  <2>5. \A a, b, c, d \in Int : (a * b + c) * d = a * (b * d) + c * d
    OBVIOUS
  <2> QED
    BY <2>2, <2>3, <2>4, <2>5
<1>7. 0..n \subseteq T
  <2> HIDE DEF T
  <2> QED
    BY <1>5, <1>6, UpTo
<1>8. r[n] * S(n) = f[n] /\ r[n] \in Int
  BY <1>2, <1>7 DEF Ranks
<1> QED
  BY <1>1, <1>2, <1>3, <1>8

\* An index inside its shape, axis by axis.
Inside(x, n, shape) == x \in [1..n -> Nat] /\ \A i \in 1..n : x[i] < shape[i]

\* The position of an index is below the product of the extents.
LEMMA RankBound ==
    ASSUME NEW n \in Nat, NEW shape \in [1..n -> Nat], NEW x, Inside(x, n, shape)
    PROVE  Rank(shape, x) \in 0..(ElementCount(shape) - 1) /\ ElementCount(shape) \in Nat \ {0}
<1>1. /\ shape \in [1..n -> Int] /\ x \in [1..n -> Int]
      /\ \A i \in 1..n : x[i] \in Nat /\ shape[i] \in Nat /\ x[i] < shape[i]
  BY DEF Inside
<1>2. PICK r : Ranks(r, n, shape, x) /\ Rank(shape, x) = r[n]
  BY <1>1, RankIs
<1>3. PICK p : Products(p, n, shape) /\ ElementCount(shape) = p[n]
  BY <1>1, ElementCountIs
<1> DEFINE T == {i \in 0..n : 0 <= r[i] /\ r[i] < p[i]}
<1>4. 0 \in T
  BY <1>2, <1>3 DEF Ranks, Products
<1>5. \A i \in 0..(n - 1) : i \in T => i + 1 \in T
  <2> SUFFICES ASSUME NEW i \in 0..(n - 1), 0 <= r[i], r[i] < p[i]
               PROVE  0 <= r[i + 1] /\ r[i + 1] < p[i + 1]
    OBVIOUS
  <2>1. i + 1 \in 1..n /\ (i + 1) - 1 = i /\ i \in 0..n
    OBVIOUS
  <2>2. r[i + 1] = r[i] * shape[i + 1] + x[i + 1] /\ p[i + 1] = p[i] * shape[i + 1]
    BY <1>2, <1>3, <2>1 DEF Ranks, Products
  <2>3. /\ r[i] \in Int /\ p[i] \in Int
        /\ shape[i + 1] \in Nat /\ x[i + 1] \in Nat /\ x[i + 1] < shape[i + 1]
    BY <1>1, <1>2, <1>3, <2>1 DEF Ranks, Products
  <2>4. \A a, b \in Int, m, c \in Nat : 0 <= a /\ a < b /\ c < m => 0 <= a * m + c /\ a * m + c < b * m
    <3> SUFFICES ASSUME NEW a \in Int, NEW b \in Int, NEW m \in Nat, NEW c \in Nat,
                        0 <= a, a < b, c < m
                 PROVE  0 <= a * m + c /\ a * m + c < b * m
      OBVIOUS
    <3>1. b * m = a * m + (b - a) * m
      OBVIOUS
    <3>2. (b - a) * m >= m
      <4>1. b - a - 1 \in Nat /\ (b - a) * m = m + (b - a - 1) * m
        OBVIOUS
      <4>2. \A d, e \in Nat : d * e \in Nat
        OBVIOUS
      <4> QED
        BY <4>1, <4>2
    <3>3. a * m \in Nat
      OBVIOUS
    <3> QED
      BY <3>1, <3>2, <3>3
  <2> QED
    BY <2>2, <2>3, <2>4
<1>6. 0..n \subseteq T
  <2> HIDE DEF T
  <2> QED
    BY <1>4, <1>5, UpTo
<1>7. 0 <= r[n] /\ r[n] < p[n] /\ r[n] \in Int /\ p[n] \in Int
  BY <1>2, <1>3, <1>6 DEF Ranks, Products
<1> QED
  BY <1>2, <1>3, <1>7

\* The positions of one index agree.
LEMMA RanksAgree ==
    ASSUME NEW n \in Nat, NEW shape, NEW x, NEW f, NEW g,
           Ranks(f, n, shape, x), Ranks(g, n, shape, x)
    PROVE  f[n] = g[n]
<1> DEFINE T == {i \in 0..n : f[i] = g[i]}
<1>1. 0 \in T
  BY DEF Ranks
<1>2. \A i \in 0..(n - 1) : i \in T => i + 1 \in T
  <2> SUFFICES ASSUME NEW i \in 0..(n - 1), f[i] = g[i] PROVE f[i + 1] = g[i + 1]
    OBVIOUS
  <2>1. i + 1 \in 1..n /\ (i + 1) - 1 = i
    OBVIOUS
  <2> QED
    BY <2>1 DEF Ranks
<1>3. 0..n \subseteq T
  <2> HIDE DEF T
  <2> QED
    BY <1>1, <1>2, UpTo
<1> QED
  BY <1>3

\* Division with a remainder.
LEMMA Divides ==
    ASSUME NEW a \in Nat, NEW b \in Nat \ {0}
    PROVE  a = (a \div b) * b + (a % b) /\ a \div b \in Nat /\ a % b \in Nat /\ a % b < b
<1> SUFFICES ASSUME a \in Nat, b \in Nat, b > 0
             PROVE  a = (a \div b) * b + (a % b) /\ a \div b \in Nat /\ a % b \in Nat /\ a % b < b
  OBVIOUS
<1>1. a \div b \in Nat /\ a % b \in 0..(b - 1)
  OBVIOUS
<1>2. a = b * (a \div b) + (a % b)
  OBVIOUS
<1> QED
  BY <1>1, <1>2

\* An index of the first axes whose position among them is k.
PositionOf(x, r, i, shape, k) == Inside(x, i, shape) /\ Ranks(r, i, shape, x) /\ r[i] = k

\* Every position below the product of the extents is that of an index.
LEMMA RankOnto ==
    ASSUME NEW n \in Nat, NEW shape \in [1..n -> Nat], NEW k \in 0..(ElementCount(shape) - 1)
    PROVE  \E x : Inside(x, n, shape) /\ Rank(shape, x) = k
<1>1. shape \in [1..n -> Int]
  OBVIOUS
<1>2. PICK p : Products(p, n, shape) /\ ElementCount(shape) = p[n]
  BY <1>1, ElementCountIs
<1> DEFINE All(i) == \A t \in 0..(p[i] - 1) : \E x, r : PositionOf(x, r, i, shape, t)
           T == {i \in 0..n : All(i)}
<1>3. All(0)
  <2> SUFFICES ASSUME NEW t \in 0..(p[0] - 1)
               PROVE  \E x, r : PositionOf(x, r, 0, shape, t)
    OBVIOUS
  <2>1. t = 0
    BY <1>2 DEF Products
  <2> DEFINE x == [j \in 1..0 |-> 0]
             r == [j \in 0..0 |-> 0]
  <2>2. Inside(x, 0, shape)
    BY DEF Inside
  <2>3. Ranks(r, 0, shape, x) /\ r[0] = 0
    BY DEF Ranks
  <2>4. PositionOf(x, r, 0, shape, t)
    BY <2>1, <2>2, <2>3 DEF PositionOf
  <2> QED
    BY <2>4
<1>4. ASSUME NEW i \in 0..(n - 1), All(i) PROVE All(i + 1)
  <2> SUFFICES ASSUME NEW t \in 0..(p[i + 1] - 1)
               PROVE  \E x, r : PositionOf(x, r, i + 1, shape, t)
    OBVIOUS
  <2> DEFINE m == shape[i + 1]
             q == t \div m
             c == t % m
  <2>1. i + 1 \in 1..n /\ (i + 1) - 1 = i /\ i \in 0..n
    OBVIOUS
  <2>2. p[i + 1] = p[i] * m /\ p[i] \in Int /\ m \in Nat
    BY <1>2, <2>1 DEF Products
  <2>3. m > 0
    BY <2>2
  <2>4. t = q * m + c /\ q \in Nat /\ c \in Nat /\ c < m
    <3>1. t \in Nat /\ m \in Nat
      BY <2>2
    <3>2. m \in Nat \ {0}
      BY <2>3, <3>1
    <3> HIDE DEF m
    <3> QED
      BY <3>1, <3>2, Divides
  <2>5. q < p[i]
    <3> HIDE DEF q, c, m
    <3> SUFFICES ASSUME q >= p[i] PROVE FALSE
      BY <2>2, <2>4
    <3>1. q - p[i] \in Nat /\ q * m = p[i] * m + (q - p[i]) * m
      <4>1. \A a, b, d \in Int : a * d = b * d + (a - b) * d
        OBVIOUS
      <4>2. q \in Int /\ m \in Int /\ p[i] \in Int
        BY <2>2, <2>4
      <4> QED
        BY <4>1, <4>2
    <3>2. \A d, e \in Nat : d * e \in Nat
      OBVIOUS
    <3>3. (q - p[i]) * m \in Nat
      BY <2>2, <3>1, <3>2
    <3>4. p[i] * m \in Int
      BY <2>2
    <3>5. t < p[i] * m
      BY <2>2
    <3> QED
      BY <2>4, <3>1, <3>3, <3>4, <3>5
  <2> HIDE DEF q, c
  <2>6. q \in 0..(p[i] - 1)
    BY <2>2, <2>4, <2>5
  <2>7. PICK x, r : PositionOf(x, r, i, shape, q)
    BY <1>4, <2>6
  <2> DEFINE x2 == [j \in 1..(i + 1) |-> IF j = i + 1 THEN c ELSE x[j]]
             r2 == [j \in 0..(i + 1) |-> IF j = i + 1 THEN t ELSE r[j]]
  <2>8. /\ x \in [1..i -> Nat] /\ \A j \in 1..i : x[j] < shape[j]
        /\ r \in [0..i -> Int] /\ r[0] = 0 /\ r[i] = q
        /\ \A j \in 1..i : r[j] = r[j - 1] * shape[j] + x[j]
    BY <2>7 DEF PositionOf, Inside, Ranks
  <2>9. Inside(x2, i + 1, shape)
    <3>1. x2 \in [1..(i + 1) -> Nat]
      <4>1. \A j \in 1..(i + 1) : j # i + 1 => j \in 1..i
        OBVIOUS
      <4>2. \A j \in 1..(i + 1) : (IF j = i + 1 THEN c ELSE x[j]) \in Nat
        BY <2>4, <2>8, <4>1
      <4> QED
        BY <4>2
    <3>2. ASSUME NEW j \in 1..(i + 1) PROVE x2[j] < shape[j]
      <4>1. CASE j = i + 1
        BY <2>4, <4>1
      <4>2. CASE j # i + 1
        <5>1. j \in 1..i /\ x2[j] = x[j]
          BY <4>2
        <5> QED
          BY <2>8, <5>1
      <4> QED
        BY <4>1, <4>2
    <3> QED
      BY <3>1, <3>2 DEF Inside
  <2>10. ASSUME NEW j \in 1..(i + 1) PROVE r2[j] = r2[j - 1] * shape[j] + x2[j]
    <3>1. CASE j = i + 1
      <4>1. r2[j] = t /\ r2[j - 1] = q /\ x2[j] = c
        BY <2>8, <3>1
      <4> HIDE DEF r2, x2
      <4> QED
        BY <2>4, <3>1, <4>1
    <3>2. CASE j # i + 1
      <4>1. j \in 1..i /\ r2[j] = r[j] /\ r2[j - 1] = r[j - 1] /\ x2[j] = x[j]
        BY <3>2
      <4> HIDE DEF r2, x2
      <4> QED
        BY <2>8, <4>1
    <3> QED
      BY <3>1, <3>2
  <2>11. r2 \in [0..(i + 1) -> Int] /\ r2[0] = 0 /\ r2[i + 1] = t
    BY <2>8
  <2>12. PositionOf(x2, r2, i + 1, shape, t)
    BY <2>9, <2>10, <2>11 DEF PositionOf, Ranks
  <2> QED
    BY <2>12
<1>5. All(n)
  <2> HIDE DEF All
  <2>1. 0 \in T /\ \A i \in 0..(n - 1) : i \in T => i + 1 \in T
    BY <1>3, <1>4
  <2> HIDE DEF T
  <2>2. 0..n \subseteq T
    BY <2>1, UpTo
  <2> QED
    BY <2>2 DEF T
<1>6. PICK x, r : PositionOf(x, r, n, shape, k)
  BY <1>2, <1>5
<1>7. Inside(x, n, shape) /\ Ranks(r, n, shape, x) /\ r[n] = k /\ x \in [1..n -> Int]
  BY <1>6 DEF PositionOf, Inside
<1>8. PICK f : Ranks(f, n, shape, x) /\ Rank(shape, x) = f[n]
  BY <1>1, <1>7, RankIs
<1>9. f[n] = r[n]
  BY <1>7, <1>8, RanksAgree
<1> QED
  BY <1>7, <1>8, <1>9

\* How many of the first axes are kept, and where each kept axis is in the list.
Counts(c, n, selectors, axes) ==
    /\ c \in [0..n -> Nat] /\ c[0] = 0 /\ c[n] = Len(axes) /\ axes \in Seq(1..n)
    /\ \A i \in 1..n : c[i] = IF selectors[i].kind = "slice" THEN c[i - 1] + 1 ELSE c[i - 1]
    /\ \A i \in 1..n : selectors[i].kind = "slice" => c[i] \in 1..Len(axes) /\ axes[c[i]] = i
    /\ \A j \in 1..Len(axes) : selectors[axes[j]].kind = "slice" /\ c[axes[j]] = j

\* Kept lists every axis with a slice once, in order.
LEMMA KeptCounts ==
    ASSUME NEW n \in Nat, NEW selectors, DOMAIN selectors = 1..n
    PROVE  \E c : Counts(c, n, selectors, Kept(selectors))
<1>1. PICK k : Keeps(k, n, selectors) /\ Kept(selectors) = k[n]
  BY KeptIs
<1> DEFINE Slice(i) == selectors[i].kind = "slice"
           c == [i \in 0..n |-> Len(k[i])]
           Listed(i) ==
              /\ \A a \in 1..i : Slice(a) => c[a] \in 1..Len(k[i]) /\ k[i][c[a]] = a
              /\ \A j \in 1..Len(k[i]) : k[i][j] \in 1..i /\ Slice(k[i][j]) /\ c[k[i][j]] = j
<1>2. /\ k \in [0..n -> Seq(1..n)] /\ k[0] = <<>>
      /\ \A i \in 1..n : k[i] = IF Slice(i) THEN Append(k[i - 1], i) ELSE k[i - 1]
  BY <1>1 DEF Keeps
<1>3. \A i \in 0..n : k[i] \in Seq(1..n) /\ Len(k[i]) \in Nat /\ c[i] = Len(k[i])
  BY <1>2, LenProperties
<1>4. ASSUME NEW i \in 1..n
      PROVE  /\ Slice(i) => /\ c[i] = c[i - 1] + 1 /\ k[i][c[i]] = i
                            /\ \A j \in 1..Len(k[i - 1]) : k[i][j] = k[i - 1][j]
             /\ ~Slice(i) => k[i] = k[i - 1] /\ c[i] = c[i - 1]
  <2>1. i - 1 \in 0..n /\ i \in 0..n /\ k[i - 1] \in Seq(1..n)
    BY <1>2
  <2>2. CASE Slice(i)
    <3>1. k[i] = Append(k[i - 1], i)
      BY <1>2, <2>2
    <3>2. /\ Len(k[i]) = Len(k[i - 1]) + 1 /\ k[i][Len(k[i - 1]) + 1] = i
          /\ \A j \in 1..Len(k[i - 1]) : k[i][j] = k[i - 1][j]
      BY <2>1, <3>1, AppendProperties
    <3> HIDE DEF c
    <3> QED
      BY <1>3, <2>1, <2>2, <3>2
  <2>3. CASE ~Slice(i)
    BY <1>2, <1>3, <2>1, <2>3
  <2> QED
    BY <2>2, <2>3
<1> HIDE DEF c, Slice
<1>5. Listed(0)
  BY <1>2, <1>3
<1>6. ASSUME NEW i \in 0..(n - 1), Listed(i) PROVE Listed(i + 1)
  <2>1. i + 1 \in 1..n /\ (i + 1) - 1 = i /\ i \in 0..n /\ i + 1 \in 0..n
    OBVIOUS
  <2>2. c[i] = Len(k[i]) /\ c[i + 1] = Len(k[i + 1]) /\ Len(k[i]) \in Nat
    BY <1>3, <2>1
  <2>3. CASE Slice(i + 1)
    <3>1. /\ c[i + 1] = c[i] + 1 /\ k[i + 1][c[i + 1]] = i + 1
          /\ \A j \in 1..Len(k[i]) : k[i + 1][j] = k[i][j]
      BY <1>4, <2>1, <2>3
    <3>2. ASSUME NEW a \in 1..(i + 1), Slice(a)
          PROVE  c[a] \in 1..Len(k[i + 1]) /\ k[i + 1][c[a]] = a
      <4>1. CASE a = i + 1
        BY <2>2, <3>1, <4>1
      <4>2. CASE a # i + 1
        <5>1. a \in 1..i /\ c[a] \in 1..Len(k[i]) /\ k[i][c[a]] = a
          BY <1>6, <3>2, <4>2
        <5> QED
          BY <2>2, <3>1, <5>1
      <4> QED
        BY <4>1, <4>2
    <3>3. ASSUME NEW j \in 1..Len(k[i + 1])
          PROVE  k[i + 1][j] \in 1..(i + 1) /\ Slice(k[i + 1][j]) /\ c[k[i + 1][j]] = j
      <4>1. CASE j = c[i + 1]
        BY <2>1, <2>3, <3>1, <4>1
      <4>2. CASE j # c[i + 1]
        <5>1. j \in 1..Len(k[i]) /\ k[i + 1][j] = k[i][j]
          BY <2>2, <3>1, <4>2
        <5>2. k[i][j] \in 1..i /\ Slice(k[i][j]) /\ c[k[i][j]] = j
          BY <1>6, <5>1
        <5> QED
          BY <5>1, <5>2
      <4> QED
        BY <4>1, <4>2
    <3> QED
      BY <3>2, <3>3
  <2>4. CASE ~Slice(i + 1)
    <3>1. k[i + 1] = k[i]
      BY <1>4, <2>1, <2>4
    <3>2. \A a \in 1..(i + 1) : Slice(a) => a \in 1..i
      <4>1. \A a \in 1..(i + 1) : a = i + 1 \/ a \in 1..i
        OBVIOUS
      <4> QED
        BY <2>4, <4>1
    <3> QED
      BY <1>6, <3>1, <3>2
  <2> QED
    BY <2>3, <2>4
<1>7. Listed(n)
  <2> DEFINE T == {i \in 0..n : Listed(i)}
  <2> HIDE DEF Listed
  <2>1. 0 \in T /\ \A i \in 0..(n - 1) : i \in T => i + 1 \in T
    BY <1>5, <1>6
  <2> HIDE DEF T
  <2>2. 0..n \subseteq T
    BY <2>1, UpTo
  <2> QED
    BY <2>2 DEF T
<1>8. c \in [0..n -> Nat] /\ c[0] = 0 /\ c[n] = Len(k[n]) /\ k[n] \in Seq(1..n)
  BY <1>2, <1>3 DEF c
<1>9. \A i \in 1..n : c[i] = IF Slice(i) THEN c[i - 1] + 1 ELSE c[i - 1]
  BY <1>4
<1>10. Counts(c, n, selectors, k[n])
  <2>1. /\ \A a \in 1..n : selectors[a].kind = "slice" => c[a] \in 1..Len(k[n]) /\ k[n][c[a]] = a
        /\ \A j \in 1..Len(k[n]) : selectors[k[n][j]].kind = "slice" /\ c[k[n][j]] = j
    BY <1>7 DEF Slice
  <2>2. \A i \in 1..n : c[i] = IF selectors[i].kind = "slice" THEN c[i - 1] + 1 ELSE c[i - 1]
    BY <1>9 DEF Slice
  <2> QED
    BY <1>8, <2>1, <2>2 DEF Counts
<1> QED
  BY <1>1, <1>10

\* Two sums added in another order.
LEMMA SumsSwap ==
    ASSUME NEW a \in Int, NEW b \in Int, NEW d \in Int, NEW w \in Int
    PROVE  (a + b) + (d + w) = (a + d) + (b + w)
  OBVIOUS

\* The index z of the selected tensor takes x along the slices, and its strides y are theirs.
Selects(z, selectors, axes, c, n, t, u, e, x, y) ==
    /\ Counts(c, n, selectors, axes)
    /\ t \in [1..n -> Int] /\ u \in [1..n -> Int] /\ z \in [1..n -> Int] /\ e \in [1..n -> Int]
    /\ x \in [1..Len(axes) -> Int] /\ y \in [1..Len(axes) -> Int]
    /\ \A j \in 1..Len(axes) : y[j] = t[axes[j]] * e[axes[j]]
    /\ \A i \in 1..n :
          z[i] = IF selectors[i].kind = "slice" THEN u[i] + e[i] * x[c[i]] ELSE u[i]

\* A slice moves along its axis by its step; the other axes do not move.
LEMMA SelectDot ==
    ASSUME NEW n \in Nat, NEW selectors, NEW axes, NEW c, NEW t, NEW u, NEW z, NEW e, NEW x, NEW y,
           Selects(z, selectors, axes, c, n, t, u, e, x, y)
    PROVE  Dot(z, t) = Dot(u, t) + Dot(x, y)
<1>0. /\ Counts(c, n, selectors, axes)
      /\ t \in [1..n -> Int] /\ u \in [1..n -> Int] /\ z \in [1..n -> Int] /\ e \in [1..n -> Int]
      /\ x \in [1..Len(axes) -> Int] /\ y \in [1..Len(axes) -> Int]
      /\ \A j \in 1..Len(axes) : y[j] = t[axes[j]] * e[axes[j]]
      /\ \A i \in 1..n :
            z[i] = IF selectors[i].kind = "slice" THEN u[i] + e[i] * x[c[i]] ELSE u[i]
  BY DEF Selects
<1> DEFINE m == Len(axes)
<1>1. /\ c \in [0..n -> Nat] /\ c[0] = 0 /\ c[n] = m /\ m \in Nat
      /\ \A i \in 1..n : selectors[i].kind = "slice" =>
            c[i] = c[i - 1] + 1 /\ c[i] \in 1..m /\ axes[c[i]] = i
      /\ \A i \in 1..n : selectors[i].kind # "slice" => c[i] = c[i - 1]
  BY <1>0, LenProperties DEF Counts
<1> HIDE DEF m
<1>2. x \in [1..m -> Int] /\ y \in [1..m -> Int] /\ \A j \in 1..m : y[j] = t[axes[j]] * e[axes[j]]
  BY <1>0 DEF m
<1>3. PICK f : Sums(f, n, z, t) /\ Dot(z, t) = f[n]
  BY <1>0, DotIs
<1>4. PICK g : Sums(g, n, u, t) /\ Dot(u, t) = g[n]
  BY <1>0, DotIs
<1>5. PICK h : Sums(h, m, x, y) /\ Dot(x, y) = h[m]
  BY <1>1, <1>2, DotIs
<1> DEFINE P(i) == c[i] \in 0..m /\ f[i] = g[i] + h[c[i]]
<1>6. P(0)
  BY <1>1, <1>3, <1>4, <1>5 DEF Sums
<1>7. ASSUME NEW i \in 0..(n - 1), P(i) PROVE P(i + 1)
  <2>1. i + 1 \in 1..n /\ (i + 1) - 1 = i /\ i \in 0..n
    OBVIOUS
  <2>2. f[i + 1] = f[i] + z[i + 1] * t[i + 1] /\ g[i + 1] = g[i] + u[i + 1] * t[i + 1]
    BY <1>3, <1>4, <2>1 DEF Sums
  <2>3. g[i] \in Int /\ u[i + 1] \in Int /\ t[i + 1] \in Int /\ e[i + 1] \in Int /\ h[c[i]] \in Int
    BY <1>0, <1>4, <1>5, <1>7, <2>1 DEF Sums
  <2>4. CASE selectors[i + 1].kind = "slice"
    <3>1. c[i + 1] = c[i] + 1 /\ c[i + 1] \in 1..m /\ axes[c[i + 1]] = i + 1
      BY <1>1, <2>1, <2>4
    <3>2. h[c[i + 1]] = h[c[i]] + x[c[i + 1]] * (t[i + 1] * e[i + 1])
      <4>1. c[i + 1] - 1 = c[i]
        BY <1>7, <3>1
      <4>2. h[c[i + 1]] = h[c[i]] + x[c[i + 1]] * y[c[i + 1]]
        BY <1>5, <3>1, <4>1 DEF Sums
      <4>3. y[c[i + 1]] = t[i + 1] * e[i + 1]
        BY <1>2, <3>1
      <4> QED
        BY <4>2, <4>3
    <3>3. z[i + 1] = u[i + 1] + e[i + 1] * x[c[i + 1]] /\ x[c[i + 1]] \in Int
      BY <1>0, <1>2, <2>1, <2>4, <3>1
    <3>4. \A a, b, d, w \in Int : (a + b * d) * w = a * w + d * (w * b)
      OBVIOUS
    <3>5. z[i + 1] * t[i + 1] = u[i + 1] * t[i + 1] + x[c[i + 1]] * (t[i + 1] * e[i + 1])
      BY <2>3, <3>3, <3>4
    <3>6. \A a, b \in Int : a * b \in Int
      OBVIOUS
    <3>7. u[i + 1] * t[i + 1] \in Int /\ x[c[i + 1]] * (t[i + 1] * e[i + 1]) \in Int
      BY <2>3, <3>3, <3>6
    <3>8. c[i + 1] \in 0..m
      BY <1>1, <3>1
    <3>9. f[i] = g[i] + h[c[i]]
      BY <1>7
    <3> DEFINE U == u[i + 1] * t[i + 1]
               W == x[c[i + 1]] * (t[i + 1] * e[i + 1])
               Z == z[i + 1] * t[i + 1]
    <3>10. /\ f[i + 1] = f[i] + Z /\ g[i + 1] = g[i] + U /\ h[c[i + 1]] = h[c[i]] + W
           /\ Z = U + W /\ U \in Int /\ W \in Int
      BY <2>2, <3>2, <3>5, <3>7
    <3> HIDE DEF U, W, Z
    <3>11. (g[i] + h[c[i]]) + (U + W) = (g[i] + U) + (h[c[i]] + W)
      BY <2>3, <3>10, SumsSwap
    <3>12. f[i + 1] = (g[i] + h[c[i]]) + (U + W)
      BY <3>9, <3>10, Zenon
    <3>13. f[i + 1] = g[i + 1] + h[c[i + 1]]
      BY <3>10, <3>11, <3>12, Zenon
    <3> QED
      BY <3>8, <3>13
  <2>5. CASE selectors[i + 1].kind # "slice"
    <3>1. c[i + 1] = c[i] /\ z[i + 1] = u[i + 1]
      BY <1>0, <1>1, <2>1, <2>5
    <3>2. \A a, b \in Int : a * b \in Int
      OBVIOUS
    <3>3. u[i + 1] * t[i + 1] \in Int
      BY <2>3, <3>2
    <3> QED
      BY <1>7, <2>2, <2>3, <3>1, <3>3
  <2> QED
    BY <2>4, <2>5
<1>8. P(n)
  <2> DEFINE T == {i \in 0..n : P(i)}
  <2> HIDE DEF P
  <2>1. 0 \in T /\ \A i \in 0..(n - 1) : i \in T => i + 1 \in T
    BY <1>6, <1>7
  <2> HIDE DEF T
  <2>2. 0..n \subseteq T
    BY <2>1, UpTo
  <2> QED
    BY <2>2 DEF T
<1> QED
  BY <1>1, <1>3, <1>4, <1>5, <1>8

-----------------------------------------------------------------------------
(***************************************************************************)
(* What the tensors denote that the operations make.                       *)
(***************************************************************************)

Descriptor ==
    [object : Object, shape : Seq(Nat), strides : Seq(Nat), offset : Nat, view : BOOLEAN,
     claimedContiguous : BOOLEAN]

\* A descriptor as the operations make them.
Described(d) == d \in Descriptor /\ Len(d.strides) = Len(d.shape)

\* Offset and strides lead each index to its cell, and the cell is one of the first ones.
Denotes(d, cell, size) ==
    /\ DOMAIN cell = Indices(d.shape)
    /\ \A x \in Indices(d.shape) : Offset(d, x) = cell[x] /\ cell[x] \in 0..(size - 1)

\* The indices of a shape are the numbers below its extents, axis by axis.
LEMMA IndicesAre ==
    ASSUME NEW shape \in Seq(Nat)
    PROVE  /\ Len(shape) \in Nat /\ DOMAIN shape = 1..Len(shape) /\ shape \in [1..Len(shape) -> Nat]
           /\ \A x : x \in Indices(shape) <=> Inside(x, Len(shape), shape)
<1> DEFINE n == Len(shape)
<1>1. n \in Nat /\ DOMAIN shape = 1..n /\ shape \in [1..n -> Nat]
  BY LenProperties
<1> HIDE DEF n
<1>2. ASSUME NEW x, x \in Indices(shape) PROVE Inside(x, n, shape)
  <2>1. /\ x \in [1..n -> UNION {0..(shape[i] - 1) : i \in 1..n}]
        /\ \A i \in 1..n : x[i] < shape[i]
    BY <1>1, <1>2 DEF Indices
  <2>2. ASSUME NEW i \in 1..n PROVE x[i] \in Nat
    <3>1. PICK j \in 1..n : x[i] \in 0..(shape[j] - 1)
      BY <2>1
    <3> QED
      BY <1>1, <3>1
  <2> QED
    BY <2>1, <2>2 DEF Inside
<1>3. ASSUME NEW x, Inside(x, n, shape) PROVE x \in Indices(shape)
  <2>1. x \in [1..n -> Nat] /\ \A i \in 1..n : x[i] < shape[i]
    BY <1>3 DEF Inside
  <2>2. ASSUME NEW i \in 1..n PROVE x[i] \in UNION {0..(shape[j] - 1) : j \in 1..n}
    <3>1. x[i] \in 0..(shape[i] - 1)
      BY <1>1, <2>1
    <3> QED
      BY <3>1
  <2>3. x \in [1..n -> UNION {0..(shape[j] - 1) : j \in 1..n}]
    BY <2>1, <2>2
  <2> QED
    BY <1>1, <2>1, <2>3 DEF Indices
<1> QED
  BY <1>1, <1>2, <1>3 DEF n

\* A shape has a number of elements.
LEMMA ElementCountNat ==
    ASSUME NEW n \in Nat, NEW shape \in [1..n -> Nat]
    PROVE  ElementCount(shape) \in Nat
<1>1. PICK p : Products(p, n, shape) /\ ElementCount(shape) = p[n]
  <2>1. shape \in [1..n -> Int]
    OBVIOUS
  <2> QED
    BY <2>1, ElementCountIs
<1> DEFINE T == {i \in 0..n : p[i] \in Nat}
<1>2. 0 \in T
  BY <1>1 DEF Products
<1>3. \A i \in 0..(n - 1) : i \in T => i + 1 \in T
  <2> SUFFICES ASSUME NEW i \in 0..(n - 1), p[i] \in Nat PROVE p[i + 1] \in Nat
    OBVIOUS
  <2>1. i + 1 \in 1..n /\ (i + 1) - 1 = i
    OBVIOUS
  <2>2. p[i + 1] = p[i] * shape[i + 1] /\ shape[i + 1] \in Nat
    BY <1>1, <2>1 DEF Products
  <2>3. \A a, b \in Nat : a * b \in Nat
    OBVIOUS
  <2> QED
    BY <2>2, <2>3
<1>4. 0..n \subseteq T
  <2> HIDE DEF T
  <2> QED
    BY <1>2, <1>3, UpTo
<1> QED
  BY <1>1, <1>4

\* In a shape with an index no extent is zero.
LEMMA RowMajorAre ==
    ASSUME NEW shape \in Seq(Nat)
    PROVE  /\ RowMajorStrides(shape) \in Seq(Nat) /\ Len(RowMajorStrides(shape)) = Len(shape)
           /\ \A x \in Indices(shape) : Dot(x, RowMajorStrides(shape)) = Rank(shape, x)
<1> DEFINE n == Len(shape)
           y == RowMajorStrides(shape)
           Filled(i) == [j \in 1..(n - i) |-> IF shape[i + j] = 0 THEN 1 ELSE shape[i + j]]
<1>1. n \in Nat /\ DOMAIN shape = 1..n /\ shape \in [1..n -> Nat]
  BY LenProperties
<1>2. ASSUME NEW i \in 1..n PROVE n - i \in Nat /\ Filled(i) \in [1..(n - i) -> Nat]
  <2>1. \A j \in 1..(n - i) : i + j \in 1..n
    OBVIOUS
  <2>2. \A j \in 1..(n - i) : shape[i + j] \in Nat
    BY <1>1, <2>1
  <2> QED
    BY <2>2
<1>3. y = [i \in 1..n |-> ElementCount(Filled(i))]
  BY <1>1 DEF RowMajorStrides
<1> HIDE DEF n
<1>4. \A i \in 1..n : ElementCount(Filled(i)) \in Nat
  BY <1>2, ElementCountNat
<1>5. y \in [1..n -> Nat]
  <2> HIDE DEF y, Filled
  <2> QED
    BY <1>3, <1>4
<1>6. y \in Seq(Nat) /\ Len(y) = n
  <2> HIDE DEF y
  <2> QED
    BY <1>1, <1>5
<1>7. ASSUME NEW x \in Indices(shape) PROVE Dot(x, y) = Rank(shape, x)
  <2>1. Inside(x, n, shape)
    BY IndicesAre DEF n
  <2>2. x \in [1..n -> Int] /\ \A i \in 1..n : shape[i] # 0
    BY <1>1, <2>1 DEF Inside
  <2>3. ASSUME NEW i \in 1..n PROVE Filled(i) = After(shape, n, i)
    <3>1. \A j \in 1..(n - i) : i + j \in 1..n
      BY <1>1
    <3> QED
      BY <2>2, <3>1 DEF After
  <2>4. \A i \in 1..n : x[i] * y[i] = x[i] * ElementCount(After(shape, n, i))
    <3> HIDE DEF y, Filled
    <3> QED
      BY <1>3, <2>3
  <2>5. shape \in [1..n -> Int] /\ y \in [1..n -> Int]
    <3> HIDE DEF y
    <3> QED
      BY <1>1, <1>5
  <2> HIDE DEF y
  <2> QED
    BY <1>1, <2>2, <2>4, <2>5, LayoutIsRank
<1> QED
  BY <1>6, <1>7 DEF n

\* A materialised tensor reaches every cell of its storage in row-major order.
LEMMA MaterializedReaches ==
    ASSUME NEW shape \in Seq(Nat), NEW o \in Object
    PROVE  /\ Described(Materialized(o, shape)) /\ ElementCount(shape) \in Nat
           /\ Denotes(Materialized(o, shape), RankCells(shape), ElementCount(shape))
<1> DEFINE d == Materialized(o, shape)
<1>1. /\ d.object = o /\ d.shape = shape /\ d.strides = RowMajorStrides(shape) /\ d.offset = 0
      /\ d.view = FALSE /\ d.claimedContiguous = TRUE
  BY DEF Materialized
<1>2. Described(d)
  <2>1. RowMajorStrides(shape) \in Seq(Nat) /\ Len(RowMajorStrides(shape)) = Len(shape)
    BY RowMajorAre
  <2> QED
    BY <2>1 DEF Described, Descriptor, Materialized
<1>3. ElementCount(shape) \in Nat
  BY IndicesAre, ElementCountNat
<1> HIDE DEF d
<1>4. ASSUME NEW x \in Indices(shape)
      PROVE  Offset(d, x) = Rank(shape, x) /\ Rank(shape, x) \in 0..(ElementCount(shape) - 1)
  <2>1. Inside(x, Len(shape), shape) /\ Len(shape) \in Nat /\ shape \in [1..Len(shape) -> Nat]
    BY IndicesAre
  <2>2. Rank(shape, x) \in 0..(ElementCount(shape) - 1)
    BY <2>1, RankBound
  <2>3. Offset(d, x) = 0 + Rank(shape, x)
    BY <1>1, RowMajorAre DEF Offset
  <2> QED
    BY <1>3, <2>2, <2>3
<1>5. Denotes(d, RankCells(shape), ElementCount(shape))
  BY <1>1, <1>4 DEF Denotes, RankCells
<1> QED
  BY <1>2, <1>3, <1>5 DEF d

\* A list of two numbers.
LEMMA PairIs ==
    ASSUME NEW s \in Seq(Nat), Len(s) = 2
    PROVE  s[1] \in Nat /\ s[2] \in Nat /\ s = <<s[1], s[2]>>
<1>1. s \in [1..2 -> Nat]
  BY LenProperties
<1>2. <<s[1], s[2]>> \in Seq(Nat) /\ Len(<<s[1], s[2]>>) = 2
  BY <1>1
<1>3. \A i \in 1..2 : s[i] = <<s[1], s[2]>>[i]
  <2>1. \A i \in 1..2 : i = 1 \/ i = 2
    OBVIOUS
  <2> QED
    BY <2>1
<1> QED
  BY <1>1, <1>2, <1>3, SeqEqual

\* A transposed tensor denotes the same cells, its indices swapped.
LEMMA TransposedDenotes ==
    ASSUME NEW d, Described(d), Len(d.shape) = 2, NEW cell, NEW size, Denotes(d, cell, size)
    PROVE  LET t == [d EXCEPT !.shape = Swapped(@), !.strides = Swapped(@), !.view = TRUE,
                              !.claimedContiguous = FALSE] IN
           /\ Described(t) /\ t.object = d.object
           /\ Denotes(t, [x \in Indices(Swapped(d.shape)) |-> cell[Swapped(x)]], size)
<1> DEFINE t == [d EXCEPT !.shape = Swapped(@), !.strides = Swapped(@), !.view = TRUE,
                          !.claimedContiguous = FALSE]
<1>1. d \in Descriptor /\ Len(d.strides) = 2 /\ d.shape \in Seq(Nat) /\ d.strides \in Seq(Nat)
      /\ d.offset \in Nat
  BY DEF Described, Descriptor
<1>2. /\ d.shape[1] \in Nat /\ d.shape[2] \in Nat /\ d.strides[1] \in Nat /\ d.strides[2] \in Nat
      /\ d.shape = <<d.shape[1], d.shape[2]>> /\ d.strides = <<d.strides[1], d.strides[2]>>
  BY <1>1, PairIs
<1>3. /\ Swapped(d.shape) \in Seq(Nat) /\ Len(Swapped(d.shape)) = 2
      /\ Swapped(d.strides) \in Seq(Nat) /\ Len(Swapped(d.strides)) = 2
  BY <1>2 DEF Swapped
<1>4. /\ t.object = d.object /\ t.shape = Swapped(d.shape) /\ t.strides = Swapped(d.strides)
      /\ t.offset = d.offset
  BY <1>1 DEF Descriptor
<1>5. Described(t)
  <2>1. t \in Descriptor
    BY <1>1, <1>3 DEF Descriptor
  <2> QED
    BY <1>3, <1>4, <2>1 DEF Described
<1> HIDE DEF t
<1>6. ASSUME NEW x \in Indices(Swapped(d.shape))
      PROVE  Swapped(x) \in Indices(d.shape) /\ Offset(t, x) = Offset(d, Swapped(x))
  <2>1. Inside(x, 2, Swapped(d.shape))
    BY <1>3, IndicesAre
  <2>2. /\ x[1] \in Nat /\ x[2] \in Nat /\ x[1] < d.shape[2] /\ x[2] < d.shape[1]
        /\ x \in [1..2 -> Nat]
    BY <2>1 DEF Inside, Swapped
  <2>3. Swapped(x) \in [1..2 -> Nat] /\ Swapped(x)[1] = x[2] /\ Swapped(x)[2] = x[1]
    BY <2>2 DEF Swapped
  <2>4. Inside(Swapped(x), 2, d.shape)
    <3>1. \A i \in 1..2 : i = 1 \/ i = 2
      OBVIOUS
    <3> QED
      BY <2>2, <2>3, <3>1 DEF Inside
  <2>5. Swapped(x) \in Indices(d.shape)
    BY <1>1, <2>4, IndicesAre
  <2>6. /\ x \in [1..2 -> Int] /\ Swapped(x) \in [1..2 -> Int]
        /\ Swapped(d.strides) \in [1..2 -> Int] /\ d.strides \in [1..2 -> Int]
    <3>1. d.strides \in [1..2 -> Nat] /\ Swapped(d.strides) \in [1..2 -> Nat]
      BY <1>1, <1>3, LenProperties
    <3> QED
      BY <2>2, <2>3, <3>1
  <2>7. PICK f : Sums(f, 2, x, Swapped(d.strides)) /\ Dot(x, Swapped(d.strides)) = f[2]
    BY <2>6, DotIs
  <2>8. PICK g : Sums(g, 2, Swapped(x), d.strides) /\ Dot(Swapped(x), d.strides) = g[2]
    BY <2>6, DotIs
  <2> DEFINE a == x[1] * d.strides[2]
             b == x[2] * d.strides[1]
  <2>9. f[2] = a + b /\ g[2] = b + a
    <3>1. /\ Swapped(d.strides)[1] = d.strides[2] /\ Swapped(d.strides)[2] = d.strides[1]
      BY DEF Swapped
    <3>2. /\ 1 \in 1..2 /\ 2 \in 1..2 /\ 1 - 1 = 0 /\ 2 - 1 = 1
      OBVIOUS
    <3>3. f[0] = 0 /\ f[1] = f[0] + a /\ f[2] = f[1] + b
      BY <2>7, <3>1, <3>2 DEF Sums
    <3>4. g[0] = 0 /\ g[1] = g[0] + b /\ g[2] = g[1] + a
      BY <2>3, <2>8, <3>2 DEF Sums
    <3>5. a \in Int /\ b \in Int
      BY <1>2, <2>2
    <3> HIDE DEF a, b
    <3> QED
      BY <3>3, <3>4, <3>5
  <2>10. a + b = b + a
    <3>1. a \in Int /\ b \in Int
      BY <1>2, <2>2
    <3> HIDE DEF a, b
    <3> QED
      BY <3>1
  <2>11. Dot(x, t.strides) = Dot(Swapped(x), d.strides)
    BY <1>4, <2>7, <2>8, <2>9, <2>10
  <2> QED
    BY <1>4, <2>5, <2>11 DEF Offset
<1>7. Denotes(t, [x \in Indices(Swapped(d.shape)) |-> cell[Swapped(x)]], size)
  BY <1>4, <1>6 DEF Denotes
<1> QED
  BY <1>4, <1>5, <1>7 DEF t

\* The offset of an index of a contiguous tensor is its position.
LEMMA ContiguousIsRank ==
    ASSUME NEW d, Described(d), Contiguous(d), NEW x \in Indices(d.shape)
    PROVE  Offset(d, x) = d.offset + Rank(d.shape, x)
<1> DEFINE n == Len(d.shape)
<1>1. /\ d.shape \in Seq(Nat) /\ d.strides \in Seq(Nat) /\ d.offset \in Nat
      /\ n \in Nat /\ DOMAIN d.shape = 1..n /\ d.shape \in [1..n -> Nat]
      /\ d.strides \in [1..n -> Nat]
  BY LenProperties DEF Described, Descriptor
<1> HIDE DEF n
<1>2. Inside(x, n, d.shape)
  BY <1>1, IndicesAre DEF n
<1>3. /\ x \in [1..n -> Int] /\ d.shape \in [1..n -> Int] /\ d.strides \in [1..n -> Int]
      /\ \A i \in 1..n : x[i] \in Nat /\ x[i] < d.shape[i]
  BY <1>1, <1>2 DEF Inside
<1>4. ElementCount(d.shape) # 0
  <2>1. ElementCount(d.shape) \in Nat \ {0}
    BY <1>1, <1>2, RankBound
  <2> QED
    BY <2>1
<1>5. ASSUME NEW i \in 1..n
      PROVE  x[i] * d.strides[i] = x[i] * ElementCount(After(d.shape, n, i))
  <2>1. CASE d.shape[i] > 1
    <3>1. d.strides[i] = ElementCount(After(d.shape, n, i))
      BY <1>1, <1>4, <2>1 DEF Contiguous, After, n
    <3> QED
      BY <3>1
  <2>2. CASE ~(d.shape[i] > 1)
    <3>1. x[i] = 0
      BY <1>1, <1>3, <2>2
    <3>2. d.strides[i] \in Int /\ ElementCount(After(d.shape, n, i)) \in Int
      <4>1. i \in 0..n
        BY <1>1
      <4>2. ElementCount(After(d.shape, n, i)) \in Int
        BY <1>1, <1>3, <4>1, ProductsAfter
      <4>3. d.strides[i] \in Int
        BY <1>3
      <4> QED
        BY <4>2, <4>3
    <3> QED
      BY <3>1, <3>2
  <2> QED
    BY <2>1, <2>2
<1>6. Dot(x, d.strides) = Rank(d.shape, x)
  BY <1>1, <1>3, <1>5, LayoutIsRank
<1> QED
  BY <1>6 DEF Offset

\* A reshaped tensor denotes the same cells, its indices counted in the other shape.
LEMMA ReshapedDenotes ==
    ASSUME NEW d, Described(d), NEW shape \in Seq(Nat), Reshapable(d, shape),
           NEW cell, NEW size, Denotes(d, cell, size)
    PROVE  LET v == [d EXCEPT !.shape = shape, !.strides = RowMajorStrides(shape),
                              !.view = TRUE, !.claimedContiguous = TRUE] IN
           /\ Described(v) /\ v.object = d.object
           /\ Denotes(v, [x \in Indices(shape) |-> cell[AtRank(d.shape, Rank(shape, x))]], size)
<1> DEFINE v == [d EXCEPT !.shape = shape, !.strides = RowMajorStrides(shape),
                          !.view = TRUE, !.claimedContiguous = TRUE]
<1>1. d \in Descriptor /\ d.shape \in Seq(Nat)
  BY DEF Described, Descriptor
<1>2. /\ v.object = d.object /\ v.shape = shape /\ v.strides = RowMajorStrides(shape)
      /\ v.offset = d.offset
  BY <1>1 DEF Descriptor
<1>3. Described(v)
  <2>1. RowMajorStrides(shape) \in Seq(Nat) /\ Len(RowMajorStrides(shape)) = Len(shape)
    BY RowMajorAre
  <2>2. v \in Descriptor
    BY <1>1, <2>1 DEF Descriptor
  <2> QED
    BY <1>2, <2>1, <2>2 DEF Described
<1> HIDE DEF v
<1>4. ASSUME NEW x \in Indices(shape)
      PROVE  /\ AtRank(d.shape, Rank(shape, x)) \in Indices(d.shape)
             /\ Offset(v, x) = Offset(d, AtRank(d.shape, Rank(shape, x)))
  <2> DEFINE k == Rank(shape, x)
  <2>1. k \in 0..(ElementCount(d.shape) - 1)
    <3>1. Len(shape) \in Nat /\ shape \in [1..Len(shape) -> Nat] /\ Inside(x, Len(shape), shape)
      BY IndicesAre
    <3>2. k \in 0..(ElementCount(shape) - 1)
      BY <3>1, RankBound
    <3> QED
      BY <3>2 DEF Reshapable
  <2> HIDE DEF k
  <2>2. PICK z : Inside(z, Len(d.shape), d.shape) /\ Rank(d.shape, z) = k
    <3>1. Len(d.shape) \in Nat /\ d.shape \in [1..Len(d.shape) -> Nat]
      BY <1>1, IndicesAre
    <3> QED
      BY <2>1, <3>1, RankOnto
  <2>3. z \in Indices(d.shape)
    BY <1>1, <2>2, IndicesAre
  <2>4. AtRank(d.shape, k) \in Indices(d.shape) /\ Rank(d.shape, AtRank(d.shape, k)) = k
    BY <2>2, <2>3 DEF AtRank
  <2>5. Offset(d, AtRank(d.shape, k)) = d.offset + k
    BY <2>4, ContiguousIsRank DEF Reshapable
  <2>6. Offset(v, x) = d.offset + k
    BY <1>2, RowMajorAre DEF Offset, k
  <2> QED
    BY <2>4, <2>5, <2>6 DEF k
<1>5. Denotes(v, [x \in Indices(shape) |-> cell[AtRank(d.shape, Rank(shape, x))]], size)
  BY <1>2, <1>4 DEF Denotes
<1> QED
  BY <1>2, <1>3, <1>5 DEF v

\* What a selector is.
LEMMA SelectorIs ==
    ASSUME NEW extent \in Nat, NEW s \in Selectors(extent)
    PROVE  \/ s.kind = "index" /\ s.index \in Nat /\ s.index < extent
           \/ /\ s.kind = "slice" /\ s.start \in Nat /\ s.end \in Nat /\ s.start <= s.end /\ s.end <= extent
              /\ s.step \in Nat \ {0}
<1>1. CASE s \in [kind : {"index"}, index : 0..(extent - 1)]
  <2>1. s.kind = "index" /\ s.index \in 0..(extent - 1)
    BY <1>1
  <2> QED
    BY <2>1
<1>2. CASE s \in [kind : {"slice"}, start : {0, 1, extent} \cap 0..extent, end : {extent}, step : Steps]
  <2>1. s.kind = "slice" /\ s.start \in 0..extent /\ s.end = extent /\ s.step \in Steps
    BY <1>2
  <2>2. s.step \in Nat \ {0}
    BY <2>1, StorageAssumption
  <2>3. s.start \in Nat /\ s.start <= extent
    BY <2>1
  <2> QED
    BY <2>1, <2>2, <2>3
<1> QED
  BY <1>1, <1>2 DEF Selectors

\* A slice has so many elements that the last one is still inside.
LEMMA ExtentFits ==
    ASSUME NEW start \in Nat, NEW end \in Nat, NEW step \in Nat \ {0}, start <= end, NEW s,
           s.start = start, s.end = end, s.step = step
    PROVE  /\ OutputExtent(s) \in Nat
           /\ \A x \in Nat : x < OutputExtent(s) => start + step * x \in Nat /\ start + step * x < end
<1>1. CASE start = end
  BY <1>1 DEF OutputExtent
<1>2. CASE start # end
  <2> DEFINE q == (end - start - 1) \div step
  <2>1. end - start - 1 \in Nat
    BY <1>2
  <2>2. end - start - 1 = q * step + ((end - start - 1) % step) /\ q \in Nat
        /\ (end - start - 1) % step \in Nat
    BY <2>1, Divides
  <2>3. OutputExtent(s) = 1 + q
    BY <1>2 DEF OutputExtent
  <2> HIDE DEF q
  <2>4. q * step <= end - start - 1
    <3>1. q * step \in Int
      BY <2>2
    <3> QED
      BY <2>1, <2>2, <3>1
  <2>5. ASSUME NEW x \in Nat, x < OutputExtent(s)
        PROVE  start + step * x \in Nat /\ start + step * x < end
    <3>1. q - x \in Nat
      BY <2>2, <2>3, <2>5
    <3>2. q * step = step * x + (q - x) * step
      <4>1. \A a, b, c \in Int : a * c = c * b + (a - b) * c
        OBVIOUS
      <4>2. q \in Int /\ x \in Int /\ step \in Int
        BY <2>2
      <4> QED
        BY <4>1, <4>2
    <3>3. \A a, b \in Nat : a * b \in Nat
      OBVIOUS
    <3>4. (q - x) * step \in Nat /\ step * x \in Nat
      BY <3>1, <3>3
    <3>5. step * x <= end - start - 1
      <4>1. q * step \in Int
        BY <2>2
      <4> QED
        BY <2>4, <3>2, <3>4, <4>1
    <3> QED
      BY <3>4, <3>5
  <2> QED
    BY <2>2, <2>3, <2>5
<1> QED
  BY <1>1, <1>2

\* A sum of products of naturals is a natural.
LEMMA DotNat ==
    ASSUME NEW n \in Nat, NEW x \in [1..n -> Nat], NEW y \in [1..n -> Nat]
    PROVE  Dot(x, y) \in Nat
<1>1. x \in [1..n -> Int] /\ y \in [1..n -> Int]
  OBVIOUS
<1>2. PICK f : Sums(f, n, x, y) /\ Dot(x, y) = f[n]
  BY <1>1, DotIs
<1> DEFINE T == {i \in 0..n : f[i] \in Nat}
<1>3. 0 \in T
  BY <1>2 DEF Sums
<1>4. \A i \in 0..(n - 1) : i \in T => i + 1 \in T
  <2> SUFFICES ASSUME NEW i \in 0..(n - 1), f[i] \in Nat PROVE f[i + 1] \in Nat
    OBVIOUS
  <2>1. i + 1 \in 1..n /\ (i + 1) - 1 = i
    OBVIOUS
  <2>2. f[i + 1] = f[i] + x[i + 1] * y[i + 1] /\ x[i + 1] \in Nat /\ y[i + 1] \in Nat
    BY <1>2, <2>1 DEF Sums
  <2>3. \A a, b \in Nat : a * b \in Nat
    OBVIOUS
  <2>4. x[i + 1] * y[i + 1] \in Nat
    BY <2>2, <2>3
  <2> QED
    BY <2>2, <2>4
<1>5. 0..n \subseteq T
  <2> HIDE DEF T
  <2> QED
    BY <1>3, <1>4, UpTo
<1> QED
  BY <1>2, <1>5

\* A selection denotes the cells that its selectors name.
LEMMA SelectedDenotes ==
    ASSUME NEW d, Described(d), NEW s \in Slices(d.shape), Len(cells[d.object]) \in Nat,
           NEW cell, NEW size, Denotes(d, cell, size)
    PROVE  /\ Described(Selected(d, s)) /\ Selected(d, s).object = d.object
           /\ Denotes(Selected(d, s), SelectedCells(cell, s, Selected(d, s).shape), size)
<1> DEFINE n == Len(d.shape)
           K == Kept(s)
           m == Len(K)
           Slice(i) == s[i].kind = "slice"
           u == [i \in DOMAIN s |-> IF s[i].kind = "index" THEN s[i].index ELSE s[i].start]
           e == [i \in 1..n |-> IF Slice(i) THEN s[i].step ELSE 1]
           w == Selected(d, s)
<1>1. /\ d \in Descriptor /\ d.shape \in Seq(Nat) /\ d.strides \in Seq(Nat) /\ d.offset \in Nat
      /\ d.object \in Object /\ Len(d.strides) = n
      /\ n \in Nat /\ DOMAIN d.shape = 1..n /\ d.shape \in [1..n -> Nat] /\ d.strides \in [1..n -> Nat]
  BY LenProperties DEF Described, Descriptor
<1>2. DOMAIN s = 1..n /\ \A i \in 1..n : s[i] \in Selectors(d.shape[i]) /\ d.shape[i] \in Nat
  BY <1>1 DEF Slices
<1>3. ASSUME NEW i \in 1..n
      PROVE  \/ s[i].kind = "index" /\ s[i].index \in Nat /\ s[i].index < d.shape[i]
             \/ /\ s[i].kind = "slice" /\ s[i].start \in Nat /\ s[i].end \in Nat
                /\ s[i].start <= s[i].end /\ s[i].end <= d.shape[i] /\ s[i].step \in Nat \ {0}
  BY <1>2, SelectorIs
<1> HIDE DEF n, K
<1>4. PICK c : Counts(c, n, s, K)
  BY <1>1, <1>2, KeptCounts DEF K
<1>5. /\ c \in [0..n -> Nat] /\ K \in Seq(1..n) /\ m \in Nat /\ DOMAIN K = 1..m
      /\ \A j \in 1..m : K[j] \in 1..n /\ Slice(K[j]) /\ c[K[j]] = j
      /\ \A i \in 1..n : Slice(i) => c[i] \in 1..m /\ K[c[i]] = i
  <2>1. /\ c \in [0..n -> Nat] /\ K \in Seq(1..n)
        /\ \A j \in 1..m : Slice(K[j]) /\ c[K[j]] = j
        /\ \A i \in 1..n : Slice(i) => c[i] \in 1..m /\ K[c[i]] = i
    BY <1>4 DEF Counts
  <2>2. m \in Nat /\ DOMAIN K = 1..m /\ K \in [1..m -> 1..n]
    BY <2>1, LenProperties
  <2> QED
    BY <2>1, <2>2
<1> HIDE DEF m
<1>6. /\ w.object = d.object /\ w.view = TRUE /\ w.claimedContiguous = FALSE
      /\ w.shape = [k \in 1..m |-> OutputExtent(s[K[k]])]
      /\ w.strides = [k \in 1..m |-> d.strides[K[k]] * s[K[k]].step]
      /\ w.offset = IF ElementCount(w.shape) = 0 /\ Cursor(d, s) > Len(cells[d.object])
                    THEN Len(cells[d.object]) ELSE Cursor(d, s)
  BY <1>5 DEF Selected, SliceStride, K
<1>7. ASSUME NEW j \in 1..m
      PROVE  /\ OutputExtent(s[K[j]]) \in Nat /\ d.strides[K[j]] * s[K[j]].step \in Nat
             /\ e[K[j]] = s[K[j]].step
             /\ \A x \in Nat : x < OutputExtent(s[K[j]]) =>
                    /\ s[K[j]].start + s[K[j]].step * x \in Nat
                    /\ s[K[j]].start + s[K[j]].step * x < d.shape[K[j]]
  <2> DEFINE i == K[j]
  <2>1. i \in 1..n /\ Slice(i) /\ d.strides[i] \in Nat /\ d.shape[i] \in Nat
    BY <1>1, <1>5
  <2> HIDE DEF i
  <2>2. /\ s[i].start \in Nat /\ s[i].end \in Nat /\ s[i].start <= s[i].end
        /\ s[i].end <= d.shape[i] /\ s[i].step \in Nat \ {0}
    BY <1>3, <2>1
  <2>3. /\ OutputExtent(s[i]) \in Nat
        /\ \A x \in Nat : x < OutputExtent(s[i]) =>
              s[i].start + s[i].step * x \in Nat /\ s[i].start + s[i].step * x < s[i].end
    BY <2>2, ExtentFits
  <2>4. \A a, b \in Nat : a * b \in Nat
    OBVIOUS
  <2>5. d.strides[i] * s[i].step \in Nat
    BY <2>1, <2>2, <2>4
  <2>6. e[i] = s[i].step
    BY <2>1
  <2>7. ASSUME NEW x \in Nat, x < OutputExtent(s[i])
        PROVE  s[i].start + s[i].step * x \in Nat /\ s[i].start + s[i].step * x < d.shape[i]
    <3>1. \A a, b, z \in Nat : a < b /\ b <= z => a < z
      OBVIOUS
    <3>2. s[i].start + s[i].step * x \in Nat /\ s[i].start + s[i].step * x < s[i].end
      BY <2>3, <2>7
    <3> QED
      BY <2>1, <2>2, <3>1, <3>2
  <2> QED
    BY <2>3, <2>5, <2>6, <2>7 DEF i
<1>8. /\ w.shape \in [1..m -> Nat] /\ w.strides \in [1..m -> Nat]
      /\ w.shape \in Seq(Nat) /\ w.strides \in Seq(Nat) /\ Len(w.shape) = m /\ Len(w.strides) = m
  <2> HIDE DEF w
  <2>1. w.shape \in [1..m -> Nat]
    <3>1. \A j \in 1..m : OutputExtent(s[K[j]]) \in Nat
      BY <1>7
    <3> QED
      BY <1>6, <3>1
  <2>2. w.strides \in [1..m -> Nat]
    <3> DEFINE stride(j) == d.strides[K[j]] * s[K[j]].step
    <3>1. \A j \in 1..m : stride(j) \in Nat
      BY <1>7
    <3>2. w.strides = [j \in 1..m |-> stride(j)]
      BY <1>6
    <3> HIDE DEF stride
    <3> QED
      BY <3>1, <3>2
  <2>3. ASSUME NEW f \in [1..m -> Nat] PROVE f \in Seq(Nat) /\ Len(f) = m
    BY <1>5
  <2> QED
    BY <2>1, <2>2, <2>3
<1>9. ASSUME NEW x, Inside(x, m, w.shape)
      PROVE  LET z == [i \in DOMAIN s |->
                        IF s[i].kind = "index" THEN s[i].index
                        ELSE s[i].start + s[i].step * x[CHOOSE k \in DOMAIN K : K[k] = i]]
             IN  z \in Indices(d.shape) /\ d.offset + Dot(z, d.strides) = Cursor(d, s) + Dot(x, w.strides)
  <2> DEFINE z == [i \in DOMAIN s |->
                        IF s[i].kind = "index" THEN s[i].index
                        ELSE s[i].start + s[i].step * x[CHOOSE k \in DOMAIN K : K[k] = i]]
  <2> SUFFICES z \in Indices(d.shape) /\ d.offset + Dot(z, d.strides) = Cursor(d, s) + Dot(x, w.strides)
    OBVIOUS
  <2>0. x \in [1..m -> Nat] /\ \A j \in 1..m : x[j] < OutputExtent(s[K[j]])
    <3> HIDE DEF w
    <3> QED
      BY <1>6, <1>9 DEF Inside
  <2>1. ASSUME NEW i \in 1..n, Slice(i)
        PROVE  (CHOOSE k \in DOMAIN K : K[k] = i) = c[i]
    <3>1. c[i] \in DOMAIN K /\ K[c[i]] = i
      BY <1>5, <2>1
    <3>2. \A k \in DOMAIN K : K[k] = i => k = c[i]
      BY <1>5
    <3> QED
      BY <3>1, <3>2
  <2>2. ASSUME NEW i \in 1..n
        PROVE  /\ z[i] = (IF Slice(i) THEN u[i] + e[i] * x[c[i]] ELSE u[i])
               /\ z[i] \in Nat /\ z[i] < d.shape[i] /\ u[i] \in Nat /\ e[i] \in Nat
    <3>1. CASE s[i].kind = "index"
      <4>1. z[i] = s[i].index /\ u[i] = s[i].index /\ e[i] = 1
        BY <1>2, <3>1
      <4> HIDE DEF z, u, e
      <4> QED
        BY <1>3, <3>1, <4>1
    <3>2. CASE s[i].kind = "slice"
      <4>1. c[i] \in 1..m /\ K[c[i]] = i /\ x[c[i]] \in Nat /\ x[c[i]] < OutputExtent(s[i])
        BY <1>5, <2>0, <3>2
      <4>2. z[i] = s[i].start + s[i].step * x[c[i]] /\ u[i] = s[i].start /\ e[i] = s[i].step
        BY <1>2, <2>1, <3>2
      <4>3. s[i].start + s[i].step * x[c[i]] \in Nat /\ s[i].start + s[i].step * x[c[i]] < d.shape[i]
        BY <1>7, <4>1
      <4> HIDE DEF z, u, e
      <4> QED
        BY <1>3, <3>2, <4>2, <4>3
    <3> QED
      BY <1>3, <3>1, <3>2
  <2>3. DOMAIN z = 1..n /\ z = [i \in 1..n |-> z[i]] /\ DOMAIN u = 1..n /\ u = [i \in 1..n |-> u[i]]
    BY <1>2
  <2>4. e = [i \in 1..n |-> e[i]]
    OBVIOUS
  <2> HIDE DEF z, e, w
  <2>5. z \in [1..n -> Nat] /\ e \in [1..n -> Nat]
    BY <2>2, <2>3, <2>4
  <2>6. u \in [1..n -> Nat]
    <3> HIDE DEF u
    <3> QED
      BY <2>2, <2>3
  <2>7. z \in Indices(d.shape)
    <3>1. Inside(z, n, d.shape)
      BY <2>2, <2>5 DEF Inside
    <3> QED
      BY <1>1, <3>1, IndicesAre DEF n
  <2>8. Dot(z, d.strides) = Dot(u, d.strides) + Dot(x, w.strides)
    <3> HIDE DEF u
    <3>1. /\ d.strides \in [1..n -> Int] /\ u \in [1..n -> Int] /\ z \in [1..n -> Int] /\ e \in [1..n -> Int]
          /\ x \in [1..m -> Int] /\ w.strides \in [1..m -> Int]
      <4>1. \A f, k : f \in [1..k -> Nat] => f \in [1..k -> Int]
        OBVIOUS
      <4> QED
        BY <1>1, <1>8, <2>0, <2>5, <2>6, <4>1, Zenon
    <3>2. \A j \in 1..m : w.strides[j] = d.strides[K[j]] * e[K[j]]
      <4>1. \A j \in 1..m : e[K[j]] = s[K[j]].step
        BY <1>7
      <4> QED
        BY <1>6, <4>1
    <3>3. \A i \in 1..n : z[i] = IF s[i].kind = "slice" THEN u[i] + e[i] * x[c[i]] ELSE u[i]
      BY <2>2
    <3>4. m = Len(K)
      BY DEF m
    <3> QED
      <4>1. Selects(z, s, K, c, n, d.strides, u, e, x, w.strides)
        BY <1>4, <3>1, <3>2, <3>3, <3>4, Zenon DEF Selects
      <4> QED
        BY <1>1, <4>1, SelectDot
  <2>9. Cursor(d, s) = d.offset + Dot(u, d.strides)
    BY DEF Cursor
  <2>10. Dot(u, d.strides) \in Int /\ Dot(x, w.strides) \in Int
    <3> HIDE DEF u
    <3>1. /\ d.strides \in [1..n -> Int] /\ u \in [1..n -> Int]
          /\ x \in [1..m -> Int] /\ w.strides \in [1..m -> Int]
      BY <1>1, <1>8, <2>0, <2>6
    <3>2. PICK f : Sums(f, n, u, d.strides) /\ Dot(u, d.strides) = f[n]
      BY <1>1, <3>1, DotIs
    <3>3. PICK g : Sums(g, m, x, w.strides) /\ Dot(x, w.strides) = g[m]
      BY <1>5, <3>1, DotIs
    <3> QED
      BY <1>1, <1>5, <3>2, <3>3 DEF Sums
  <2>11. d.offset + Dot(z, d.strides) = Cursor(d, s) + Dot(x, w.strides)
    <3> HIDE DEF u
    <3> QED
      BY <1>1, <2>8, <2>9, <2>10
  <2> QED
    BY <2>7, <2>11
<1> HIDE DEF w
<1>10. Cursor(d, s) \in Nat
  <2>1. u \in [1..n -> Nat]
    <3>1. \A i \in 1..n : u[i] \in Nat
      BY <1>2, <1>3
    <3> QED
      BY <1>2, <3>1
  <2>2. Dot(u, d.strides) \in Nat
    <3> HIDE DEF u
    <3> QED
      BY <1>1, <2>1, DotNat
  <2> QED
    BY <1>1, <2>2 DEF Cursor
<1>11. Described(w)
  <2>1. w.offset \in Nat
    BY <1>6, <1>10
  <2>2. w = [object |-> w.object, shape |-> w.shape, strides |-> w.strides, offset |-> w.offset,
             view |-> w.view, claimedContiguous |-> w.claimedContiguous]
    BY DEF Selected, w
  <2>3. w \in Descriptor
    BY <1>1, <1>6, <1>8, <2>1, <2>2 DEF Descriptor
  <2> QED
    BY <1>8, <2>3 DEF Described
<1>12. ASSUME NEW x \in Indices(w.shape)
       PROVE  /\ SelectedCells(cell, s, w.shape)[x] \in 0..(size - 1)
              /\ Offset(w, x) = SelectedCells(cell, s, w.shape)[x]
  <2> DEFINE z == [i \in DOMAIN s |->
                        IF s[i].kind = "index" THEN s[i].index
                        ELSE s[i].start + s[i].step * x[CHOOSE k \in DOMAIN K : K[k] = i]]
  <2>1. Inside(x, m, w.shape)
    BY <1>8, IndicesAre
  <2>2. z \in Indices(d.shape) /\ d.offset + Dot(z, d.strides) = Cursor(d, s) + Dot(x, w.strides)
    BY <1>9, <2>1
  <2>3. SelectedCells(cell, s, w.shape)[x] = cell[z]
    BY DEF SelectedCells, K
  <2> HIDE DEF z
  <2>4. Offset(d, z) = cell[z] /\ cell[z] \in 0..(size - 1)
    BY <2>2 DEF Denotes
  <2>5. w.offset = Cursor(d, s)
    <3>1. ElementCount(w.shape) \in Nat \ {0}
      BY <1>5, <1>8, <2>1, RankBound
    <3> QED
      BY <1>6, <3>1
  <2> QED
    BY <2>2, <2>3, <2>4, <2>5 DEF Offset
<1>13. DOMAIN SelectedCells(cell, s, w.shape) = Indices(w.shape)
  BY DEF SelectedCells
<1>14. Denotes(w, SelectedCells(cell, s, w.shape), size)
  BY <1>12, <1>13 DEF Denotes
<1> QED
  BY <1>6, <1>11, <1>14 DEF w

-----------------------------------------------------------------------------
(***************************************************************************)
(* The invariant of the views, action by action.                           *)
(***************************************************************************)

\* Every object holds a list of elements.
CellLists == \A o \in Object : \E S : cells[o] \in Seq(S)

\* What holds of each wrapper, and of each resource.
WrapperDenotes(w) ==
    Valid(w) => /\ Described(tensor[w])
                /\ Denotes(tensor[w], logical[w], Len(cells[tensor[w].object]))

\* The views of every wrapper denote their cells; what a resource is mapped to is described.
ViewsInv ==
    /\ CellLists
    /\ logical = [w \in Wrapper |-> logical[w]]
    /\ \A w \in Wrapper : WrapperDenotes(w)
    /\ \A r \in Resource : mapped[r] = NoTensor \/ Described(mapped[r])

\* A wrapper has afterwards what some wrapper had, nothing, or a tensor that denotes.
WrapperFollows(w) ==
    \/ \E u \in Wrapper : tensor'[w] = tensor[u] /\ logical'[w] = logical[u]
    \/ tensor'[w] = NoTensor
    \/ /\ Described(tensor'[w])
       /\ Denotes(tensor'[w], logical'[w], Len(cells'[tensor'[w].object]))

\* No step shortens or lengthens an object.
LengthsStay == \A o \in Object : o < nextStorageId => Len(cells'[o]) = Len(cells[o])

\* Before the first operation there are no tensors.
LEMMA ViewsInit == Init => ViewsInv
<1> SUFFICES ASSUME Init PROVE ViewsInv
  OBVIOUS
<1>1. CellLists
  <2>1. <<>> \in Seq({})
    OBVIOUS
  <2>2. \A o \in Object : cells[o] = <<>>
    BY DEF Init
  <2> QED
    BY <2>1, <2>2 DEF CellLists
<1>2. \A w \in Wrapper : ~Valid(w)
  BY DEF Init, Valid, NoTensor, NoObject
<1>3. logical = [w \in Wrapper |-> logical[w]] /\ \A r \in Resource : mapped[r] = NoTensor
  BY DEF Init
<1> QED
  BY <1>1, <1>2, <1>3 DEF ViewsInv, WrapperDenotes

\* A step that gives every wrapper a tensor that denotes keeps the invariant.
LEMMA ViewsFollow ==
    ASSUME StorageInv, ViewsInv, CellLists', LengthsStay,
           logical' = [w \in Wrapper |-> logical'[w]],
           \A w \in Wrapper : WrapperFollows(w),
           \A r \in Resource : mapped'[r] = NoTensor \/ Described(mapped'[r])
    PROVE  ViewsInv'
<1>1. ASSUME NEW w \in Wrapper PROVE WrapperDenotes(w)'
  <2>1. CASE \E u \in Wrapper : tensor'[w] = tensor[u] /\ logical'[w] = logical[u]
    <3>1. PICK u \in Wrapper : tensor'[w] = tensor[u] /\ logical'[w] = logical[u]
      BY <2>1
    <3>2. CASE Valid(u)
      <4>1. Described(tensor[u]) /\ Denotes(tensor[u], logical[u], Len(cells[tensor[u].object]))
        BY <3>2 DEF ViewsInv, WrapperDenotes
      <4>2. tensor[u].object \in Object /\ tensor[u].object < nextStorageId
        <5>1. tensor[u].object \in Object
          BY <4>1 DEF Described, Descriptor
        <5>2. tensor[u].object \in 0..(nextStorageId - 1) /\ nextStorageId \in Nat
          BY StorageAssumption DEF StorageInv, ReferencesAllocated, Refers
        <5> QED
          BY <5>1, <5>2
      <4>3. Len(cells'[tensor[u].object]) = Len(cells[tensor[u].object])
        BY <4>2 DEF LengthsStay
      <4> QED
        BY <3>1, <4>1, <4>3 DEF WrapperDenotes
    <3>3. CASE ~Valid(u)
      BY <3>1, <3>3 DEF WrapperDenotes, Valid
    <3> QED
      BY <3>2, <3>3
  <2>2. CASE tensor'[w] = NoTensor
    BY <2>2 DEF WrapperDenotes, Valid, NoTensor
  <2>3. CASE /\ Described(tensor'[w])
             /\ Denotes(tensor'[w], logical'[w], Len(cells'[tensor'[w].object]))
    BY <2>3 DEF WrapperDenotes
  <2> QED
    BY <2>1, <2>2, <2>3 DEF WrapperFollows
<1> QED
  BY <1>1 DEF ViewsInv

\* Steps that leave the elements alone leave their lists.
LEMMA CellsUnchanged ==
    ASSUME ViewsInv, cells' = cells
    PROVE  CellLists' /\ LengthsStay
  BY DEF ViewsInv, CellLists, LengthsStay

\* A new object is a list, and the others are as they were.
LEMMA AllocationLists ==
    ASSUME StorageInv, ViewsInv, NEW n \in Nat, NEW content, Allocate(content),
           content = [i \in 1..n |-> content[i]]
    PROVE  /\ CellLists' /\ LengthsStay /\ nextStorageId \in Object
           /\ Len(cells'[nextStorageId]) = n
<1> DEFINE S == {content[i] : i \in 1..n}
<1>1. content \in Seq(S) /\ Len(content) = n
  <2>1. content \in [1..n -> S]
    OBVIOUS
  <2> HIDE DEF S
  <2> QED
    BY <2>1
<1> HIDE DEF S
<1>2. /\ nextStorageId \in Object /\ cells' = [cells EXCEPT ![nextStorageId] = content]
  BY DEF Allocate
<1>3. \A o \in Object : cells'[o] = IF o = nextStorageId THEN content ELSE cells[o]
  BY <1>2 DEF StorageInv, ReferencesAllocated
<1>4. CellLists'
  BY <1>1, <1>3 DEF ViewsInv, CellLists
<1>5. LengthsStay
  <2>1. \A o \in Object : o < nextStorageId => o # nextStorageId
    BY <1>2 DEF Object
  <2> QED
    BY <1>3, <2>1 DEF LengthsStay
<1> QED
  BY <1>1, <1>2, <1>3, <1>4, <1>5

\* A tensor is put into one wrapper.
LEMMA ConstructFollows ==
    ASSUME StorageInv, ViewsInv, NEW w \in Wrapper, NEW d, NEW cell, Construct(w, d, cell),
           Described(d), Denotes(d, cell, Len(cells'[d.object]))
    PROVE  /\ logical' = [v \in Wrapper |-> logical'[v]]
           /\ \A v \in Wrapper : WrapperFollows(v)
<1>1. /\ \A v \in Wrapper : tensor'[v] = IF v = w THEN d ELSE tensor[v]
      /\ \A v \in Wrapper : logical'[v] = IF v = w THEN cell ELSE logical[v]
      /\ logical' = [v \in Wrapper |-> logical'[v]]
  BY DEF Construct, StorageInv, ReferencesAllocated, ViewsInv
<1>2. ASSUME NEW v \in Wrapper PROVE WrapperFollows(v)
  <2>1. CASE v = w
    BY <1>1, <2>1 DEF WrapperFollows
  <2>2. CASE v # w
    BY <1>1, <2>2 DEF WrapperFollows
  <2> QED
    BY <2>1, <2>2
<1> QED
  BY <1>1, <1>2

\* What a valid wrapper is known to have.
LEMMA ValidDenotes ==
    ASSUME StorageInv, ViewsInv, NEW w \in Wrapper, Valid(w)
    PROVE  /\ Described(tensor[w]) /\ Denotes(tensor[w], logical[w], Len(cells[tensor[w].object]))
           /\ Len(cells[tensor[w].object]) \in Nat
<1>1. Described(tensor[w]) /\ Denotes(tensor[w], logical[w], Len(cells[tensor[w].object]))
  BY DEF ViewsInv, WrapperDenotes
<1>2. PICK S : cells[tensor[w].object] \in Seq(S)
  BY <1>1 DEF Described, Descriptor, ViewsInv, CellLists
<1> QED
  BY <1>1, <1>2, LenProperties

\* Materialize.
LEMMA MaterializeDenotes ==
    ASSUME StorageInv, ViewsInv, NEW w \in Wrapper, Materialize(w)
    PROVE  ViewsInv'
<1>1. PICK shape \in Shapes :
        /\ Allocate([i \in 1..ElementCount(shape) |-> i])
        /\ Construct(w, Materialized(nextStorageId, shape), RankCells(shape))
        /\ UNCHANGED <<mutableRef, mapped, reserved>>
  BY DEF Materialize
<1> DEFINE d == Materialized(nextStorageId, shape)
<1>2. shape \in Seq(Nat)
  BY StorageAssumption
<1>3. nextStorageId \in Object
  BY <1>1 DEF Allocate
<1>4. /\ Described(d) /\ ElementCount(shape) \in Nat
      /\ Denotes(d, RankCells(shape), ElementCount(shape))
  BY <1>2, <1>3, MaterializedReaches
<1>5. CellLists' /\ LengthsStay /\ Len(cells'[nextStorageId]) = ElementCount(shape)
  <2> DEFINE content == [i \in 1..ElementCount(shape) |-> i]
  <2>1. content = [i \in 1..ElementCount(shape) |-> content[i]] /\ Allocate(content)
    BY <1>1
  <2> HIDE DEF content
  <2> QED
    BY <1>4, <2>1, AllocationLists
<1>6. d.object = nextStorageId
  BY DEF Materialized
<1> HIDE DEF d
<1>7. Construct(w, d, RankCells(shape)) /\ Denotes(d, RankCells(shape), Len(cells'[d.object]))
  BY <1>1, <1>4, <1>5, <1>6 DEF d
<1>8. logical' = [v \in Wrapper |-> logical'[v]] /\ \A v \in Wrapper : WrapperFollows(v)
  BY <1>4, <1>7, ConstructFollows
<1>9. \A r \in Resource : mapped'[r] = NoTensor \/ Described(mapped'[r])
  BY <1>1 DEF ViewsInv
<1> QED
  BY <1>5, <1>8, <1>9, ViewsFollow

\* DeepCopy.
LEMMA DeepCopyDenotes ==
    ASSUME StorageInv, ViewsInv, NEW w \in Wrapper, NEW other \in Wrapper, DeepCopy(w, other)
    PROVE  ViewsInv'
<1> DEFINE t == tensor[other]
<1>1. /\ Valid(other) /\ Allocate(LogicalValues(t))
      /\ UNCHANGED <<mutableRef, mapped, reserved>>
  BY DEF DeepCopy
<1>2. PICK shape \in {t.shape} \cup {s \in Shapes : ElementCount(s) = ElementCount(t.shape)} :
        Construct(w, Materialized(nextStorageId, shape), RankCells(shape))
  BY DEF DeepCopy
<1>3. Described(t)
  BY <1>1, ValidDenotes
<1>4. shape \in Seq(Nat) /\ ElementCount(shape) = ElementCount(t.shape)
  BY <1>2, <1>3, StorageAssumption DEF Described, Descriptor
<1> DEFINE d == Materialized(nextStorageId, shape)
<1>5. nextStorageId \in Object
  BY <1>1 DEF Allocate
<1>6. /\ Described(d) /\ ElementCount(shape) \in Nat
      /\ Denotes(d, RankCells(shape), ElementCount(shape))
  BY <1>4, <1>5, MaterializedReaches
<1>7. CellLists' /\ LengthsStay /\ Len(cells'[nextStorageId]) = ElementCount(shape)
  <2> DEFINE content == LogicalValues(t)
  <2>1. content = [k \in 1..ElementCount(shape) |-> content[k]]
    BY <1>4 DEF LogicalValues
  <2>2. Allocate(content)
    BY <1>1
  <2> HIDE DEF content
  <2> QED
    BY <1>6, <2>1, <2>2, AllocationLists
<1>8. d.object = nextStorageId
  BY DEF Materialized
<1> HIDE DEF d
<1>9. Construct(w, d, RankCells(shape)) /\ Denotes(d, RankCells(shape), Len(cells'[d.object]))
  BY <1>2, <1>6, <1>7, <1>8 DEF d
<1>10. logical' = [v \in Wrapper |-> logical'[v]] /\ \A v \in Wrapper : WrapperFollows(v)
  BY <1>6, <1>9, ConstructFollows
<1>11. \A r \in Resource : mapped'[r] = NoTensor \/ Described(mapped'[r])
  BY <1>1 DEF ViewsInv
<1> QED
  BY <1>7, <1>10, <1>11, ViewsFollow

\* Drop, and the copies and moves of wrappers.
LEMMA MovesDenote ==
    ASSUME StorageInv, ViewsInv, NEW w \in Wrapper, NEW other \in Wrapper,
           \/ Drop(w) \/ CopyConstruct(w, other) \/ MoveConstruct(w, other) \/ Assign(w, other)
           \/ MoveAssign(w, other)
    PROVE  ViewsInv'
<1>1. UNCHANGED <<cells, mapped>>
  BY DEF Drop, CopyConstruct, MoveConstruct, Assign, MoveAssign
<1>2. tensor = [v \in Wrapper |-> tensor[v]] /\ logical = [v \in Wrapper |-> logical[v]]
  BY DEF StorageInv, ReferencesAllocated, ViewsInv
<1>3. /\ logical' = [v \in Wrapper |-> logical'[v]]
      /\ \A v \in Wrapper : \/ tensor'[v] = NoTensor
                            \/ \E u \in Wrapper : tensor'[v] = tensor[u] /\ logical'[v] = logical[u]
  <2>1. CASE Drop(w)
    BY <1>2, <2>1 DEF Drop
  <2>2. CASE CopyConstruct(w, other) \/ Assign(w, other)
    <3>1. /\ tensor' = [tensor EXCEPT ![w] = tensor[other]]
          /\ logical' = [logical EXCEPT ![w] = logical[other]]
      BY <2>2 DEF CopyConstruct, Construct, Assign
    <3> QED
      BY <1>2, <3>1
  <2>3. CASE MoveConstruct(w, other) \/ MoveAssign(w, other)
    <3>1. /\ tensor' = [tensor EXCEPT ![w] = tensor[other], ![other] = NoTensor]
          /\ logical' = [logical EXCEPT ![w] = logical[other], ![other] = <<>>]
      BY <2>3 DEF MoveConstruct, MoveAssign
    <3> QED
      BY <1>2, <3>1
  <2> QED
    BY <2>1, <2>2, <2>3
<1>4. \A v \in Wrapper : WrapperFollows(v)
  BY <1>3 DEF WrapperFollows
<1>5. \A r \in Resource : mapped'[r] = NoTensor \/ Described(mapped'[r])
  BY <1>1 DEF ViewsInv
<1> QED
  BY <1>1, <1>3, <1>4, <1>5, CellsUnchanged, ViewsFollow

\* A view in a wrapper, the elements left alone.
LEMMA ViewDenotes ==
    ASSUME StorageInv, ViewsInv, NEW w \in Wrapper, NEW other \in Wrapper, NEW d, NEW cell,
           Construct(w, d, cell), UNCHANGED <<cells, mapped>>,
           Described(d), d.object = tensor[other].object,
           Denotes(d, cell, Len(cells[tensor[other].object]))
    PROVE  ViewsInv'
<1>1. Denotes(d, cell, Len(cells'[d.object]))
  OBVIOUS
<1>2. logical' = [v \in Wrapper |-> logical'[v]] /\ \A v \in Wrapper : WrapperFollows(v)
  BY <1>1, ConstructFollows
<1>3. \A r \in Resource : mapped'[r] = NoTensor \/ Described(mapped'[r])
  BY DEF ViewsInv
<1> QED
  BY <1>2, <1>3, CellsUnchanged, ViewsFollow

\* Select, Transpose and ReshapeView.
LEMMA ViewsOfViewsDenote ==
    ASSUME StorageInv, ViewsInv, NEW w \in Wrapper, NEW other \in Wrapper,
           \/ Select(w, other) \/ Transpose(w, other) \/ ReshapeView(w, other)
    PROVE  ViewsInv'
<1> DEFINE t == tensor[other]
           size == Len(cells[t.object])
<1>1. UNCHANGED <<cells, mapped>> /\ Valid(other)
  BY DEF Select, Transpose, ReshapeView
<1>2. Described(t) /\ Denotes(t, logical[other], size) /\ size \in Nat
  BY <1>1, ValidDenotes
<1>3. CASE Select(w, other)
  <2>1. PICK s \in Slices(t.shape) :
          Construct(w, Selected(t, s), SelectedCells(logical[other], s, Selected(t, s).shape))
    BY <1>3 DEF Select
  <2>2. /\ Described(Selected(t, s)) /\ Selected(t, s).object = t.object
        /\ Denotes(Selected(t, s), SelectedCells(logical[other], s, Selected(t, s).shape), size)
    BY <1>2, SelectedDenotes
  <2> QED
    BY <1>1, <2>1, <2>2, ViewDenotes
<1>4. CASE Transpose(w, other)
  <2> DEFINE v == [t EXCEPT !.shape = Swapped(@), !.strides = Swapped(@), !.view = TRUE,
                            !.claimedContiguous = FALSE]
             cell == [x \in Indices(Swapped(t.shape)) |-> logical[other][Swapped(x)]]
  <2>1. Len(t.shape) = 2 /\ Construct(w, v, cell)
    BY <1>4 DEF Transpose
  <2>2. Described(v) /\ v.object = t.object /\ Denotes(v, cell, size)
    BY <1>2, <2>1, TransposedDenotes
  <2> HIDE DEF v, cell
  <2> QED
    BY <1>1, <2>1, <2>2, ViewDenotes
<1>5. CASE ReshapeView(w, other)
  <2>1. PICK shape \in Shapes :
          /\ Reshapable(t, shape)
          /\ Construct(w, [t EXCEPT !.shape = shape, !.strides = RowMajorStrides(shape),
                                    !.view = TRUE, !.claimedContiguous = TRUE],
                       [x \in Indices(shape) |-> logical[other][AtRank(t.shape, Rank(shape, x))]])
    BY <1>5 DEF ReshapeView
  <2> DEFINE v == [t EXCEPT !.shape = shape, !.strides = RowMajorStrides(shape),
                            !.view = TRUE, !.claimedContiguous = TRUE]
             cell == [x \in Indices(shape) |-> logical[other][AtRank(t.shape, Rank(shape, x))]]
  <2>2. shape \in Seq(Nat) /\ Construct(w, v, cell)
    BY <2>1, StorageAssumption
  <2>3. Described(v) /\ v.object = t.object /\ Denotes(v, cell, size)
    BY <1>2, <2>1, <2>2, ReshapedDenotes
  <2> HIDE DEF v, cell
  <2> QED
    BY <1>1, <2>2, <2>3, ViewDenotes
<1> QED
  BY <1>3, <1>4, <1>5

\* Wrappers that stay as they are.
LEMMA WrappersStay ==
    ASSUME StorageInv, ViewsInv, UNCHANGED <<tensor, logical>>
    PROVE  logical' = [v \in Wrapper |-> logical'[v]] /\ \A v \in Wrapper : WrapperFollows(v)
  BY DEF ViewsInv, WrapperFollows

\* Store writes over an element, and over no other object.
LEMMA WritesDenote ==
    ASSUME StorageInv, ViewsInv, Store
    PROVE  ViewsInv'
<1>1. UNCHANGED <<tensor, mapped, logical>>
  BY DEF Store
<1>2. PICK o, k, v : cells' = [cells EXCEPT ![o][k] = v]
  BY DEF Store
<1>3. cells = [q \in Object |-> cells[q]]
  BY DEF StorageInv, ReferencesAllocated
<1>4. ASSUME NEW q \in Object
      PROVE  (\E S : cells'[q] \in Seq(S)) /\ Len(cells'[q]) = Len(cells[q])
  <2>1. PICK S : cells[q] \in Seq(S)
    BY DEF ViewsInv, CellLists
  <2> DEFINE n == Len(cells[q])
             S2 == S \cup {v}
  <2>2. n \in Nat /\ cells[q] \in [1..n -> S]
    BY <2>1, LenProperties
  <2>3. cells'[q] = IF q = o THEN [cells[q] EXCEPT ![k] = v] ELSE cells[q]
    BY <1>2, <1>3
  <2> HIDE DEF n
  <2>4. cells'[q] \in [1..n -> S2]
    BY <2>2, <2>3
  <2> HIDE DEF S2
  <2>5. cells'[q] \in Seq(S2) /\ Len(cells'[q]) = n
    BY <2>2, <2>4
  <2> QED
    BY <2>5 DEF n
<1>5. CellLists' /\ LengthsStay
  BY <1>4 DEF CellLists, LengthsStay
<1>6. \A r \in Resource : mapped'[r] = NoTensor \/ Described(mapped'[r])
  BY <1>1 DEF ViewsInv
<1> QED
  BY <1>1, <1>5, <1>6, WrappersStay, ViewsFollow

\* Steps that leave wrappers and elements alone.
LEMMA OthersDenote ==
    ASSUME StorageInv, ViewsInv, UNCHANGED <<cells, tensor, mapped, logical>>
    PROVE  ViewsInv'
<1>1. \A r \in Resource : mapped'[r] = NoTensor \/ Described(mapped'[r])
  BY DEF ViewsInv
<1> QED
  BY <1>1, CellsUnchanged, WrappersStay, ViewsFollow

\* BindFresh and BindCopy: a resource gets a tensor that is described.
LEMMA BindingsDenote ==
    ASSUME StorageInv, ViewsInv,
           \/ \E r \in Resource, w \in Wrapper : BindFresh(r, w)
           \/ \E r \in DOMAIN CopyOf : BindCopy(r)
    PROVE  ViewsInv'
<1>1. mapped = [q \in Resource |-> mapped[q]]
  BY DEF StorageInv, ReferencesAllocated
<1>2. ASSUME NEW r \in Resource, NEW w \in Wrapper, BindFresh(r, w) PROVE ViewsInv'
  <2>1. /\ Valid(w) /\ UNCHANGED <<cells, tensor, logical>>
        /\ mapped' = [mapped EXCEPT ![r] = tensor[w]]
    BY <1>2 DEF BindFresh
  <2>2. Described(tensor[w])
    BY <2>1, ValidDenotes
  <2>3. \A q \in Resource : mapped'[q] = NoTensor \/ Described(mapped'[q])
    BY <1>1, <2>1, <2>2 DEF ViewsInv
  <2> QED
    BY <2>1, <2>3, CellsUnchanged, WrappersStay, ViewsFollow
<1>3. ASSUME NEW r \in DOMAIN CopyOf, BindCopy(r) PROVE ViewsInv'
  <2> DEFINE d == mapped[CopyOf[r]]
  <2>1. /\ d # NoTensor /\ Allocate(LogicalValues(d)) /\ UNCHANGED <<tensor, logical>>
        /\ mapped' = [mapped EXCEPT ![r] = Materialized(nextStorageId, d.shape)]
    BY <1>3 DEF BindCopy
  <2>2. Described(d) /\ d.shape \in Seq(Nat)
    BY <2>1, StorageAssumption DEF Resource, ViewsInv, Described, Descriptor
  <2>3. nextStorageId \in Object
    BY <2>1 DEF Allocate
  <2>4. Described(Materialized(nextStorageId, d.shape)) /\ ElementCount(d.shape) \in Nat
    BY <2>2, <2>3, MaterializedReaches
  <2>5. CellLists' /\ LengthsStay
    <3> DEFINE content == LogicalValues(d)
    <3>1. content = [k \in 1..ElementCount(d.shape) |-> content[k]]
      BY DEF LogicalValues
    <3>2. Allocate(content)
      BY <2>1
    <3> HIDE DEF content
    <3> QED
      BY <2>4, <3>1, <3>2, AllocationLists
  <2> HIDE DEF d
  <2>6. \A q \in Resource : mapped'[q] = NoTensor \/ Described(mapped'[q])
    BY <1>1, <2>1, <2>4 DEF ViewsInv
  <2> QED
    BY <2>1, <2>5, <2>6, WrappersStay, ViewsFollow
<1> QED
  BY <1>2, <1>3

-----------------------------------------------------------------------------
\* Every step of the host and of the backend keeps the invariant.
LEMMA ViewsStep ==
    ASSUME StorageInv, ViewsInv, [Next \/ \E o \in Object : Reserve(o) \/ Release(o)]_vars
    PROVE  ViewsInv'
<1>1. CASE \E w \in Wrapper : Materialize(w)
  BY <1>1, MaterializeDenotes
<1>2. CASE \E w, other \in Wrapper :
                \/ CopyConstruct(w, other) \/ MoveConstruct(w, other) \/ Assign(w, other)
                \/ MoveAssign(w, other)
  BY <1>2, MovesDenote
<1>3. CASE \E w \in Wrapper : Drop(w)
  BY <1>3, MovesDenote
<1>4. CASE \E w, other \in Wrapper :
                Select(w, other) \/ Transpose(w, other) \/ ReshapeView(w, other)
  BY <1>4, ViewsOfViewsDenote
<1>5. CASE \E w, other \in Wrapper : DeepCopy(w, other)
  BY <1>5, DeepCopyDenotes
<1>6. CASE Store
  BY <1>6, WritesDenote
<1>7. CASE \/ \E r \in Resource, w \in Wrapper : BindFresh(r, w)
           \/ \E r \in DOMAIN CopyOf : BindCopy(r)
  BY <1>7, BindingsDenote
<1>8. CASE ReleaseMutable \/ \E w \in Wrapper : ObtainMutable(w)
  <2>1. UNCHANGED <<cells, tensor, mapped, logical>>
    BY <1>8 DEF ReleaseMutable, ObtainMutable
  <2> QED
    BY <2>1, OthersDenote
<1>9. CASE (\E o \in Object : Reserve(o) \/ Release(o)) \/ UNCHANGED vars
  <2>1. UNCHANGED <<cells, tensor, mapped, logical>>
    BY <1>9 DEF Reserve, Release, vars, storageVars
  <2> QED
    BY <2>1, OthersDenote
<1> QED
  BY <1>1, <1>2, <1>3, <1>4, <1>5, <1>6, <1>7, <1>8, <1>9 DEF Next

\* ViewsDenote: however views are made of views, the offset and strides of a tensor reach
\* exactly the cells the language says it denotes, all of them inside its storage.
THEOREM Views == StorageSpec => []ViewsDenote
<1>1. Init => StorageInv /\ ViewsInv
  BY StorageInit, ViewsInit
<1>2. StorageInv /\ ViewsInv /\ [Next \/ \E o \in Object : Reserve(o) \/ Release(o)]_vars
        => StorageInv' /\ ViewsInv'
  BY StorageStep, ViewsStep DEF StepIsSafe
<1>3. ViewsInv => ViewsDenote
  BY DEF ViewsInv, WrapperDenotes, ViewsDenote, Denotes
<1> QED
  BY <1>1, <1>2, <1>3, PTL DEF StorageSpec
=============================================================================
