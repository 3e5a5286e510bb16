------------------------- MODULE PhysicalPlanProofs -------------------------
(***************************************************************************)
(* Proofs about PhysicalPlan, for regions of any size.                     *)
(*                                                                         *)
(* A group's nodes are linked: all but the last have their only consumer   *)
(* in the group, and nothing that another node reads is made inside.  So   *)
(* what a step reads was made by an earlier step, or is the step's own.    *)
(* A slot is shared by roots whose lifetimes are apart; when every step    *)
(* writes at its own position, the lifetimes of a plan are those of its    *)
(* execution.  A retained root shares its slot with no other.              *)
(***************************************************************************)
EXTENDS PhysicalPlan, SequenceTheorems, FiniteSetTheorems, WellFoundedInduction, TLAPS

Sequence(s) == \E S : s \in Seq(S)

\* A node reads earlier tensors, and a root is an earlier node that is its own root.
NodeOK(v) ==
    /\ DOMAIN Deps(v) \subseteq {1, 2}
    /\ \A i \in DOMAIN Deps(v) : Deps(v)[i] \in 1..(v - 1) /\ Tensor(Deps(v)[i])
    /\ nodes[v].op \in {"Alias", "Copy", "Index"} => 1 \in DOMAIN Deps(v)
    /\ Root(v) \in 1..v /\ nodes[Root(v)].op # "Alias" /\ Root(Root(v)) = Root(v)
    /\ nodes[v].op # "Alias" => Root(v) = v
    /\ Tensor(v) => Tensor(Root(v))
    /\ nodes[v].shape = nodes[Root(v)].shape

RegionOK == Sequence(nodes) /\ \A v \in Ids : NodeOK(v)

Planned == {"fuse", "assign", "verify", "execute", "done", "unsupported"}

PhaseOK ==
    /\ phase \in Planned \cup {"extract"}
    /\ phase = "extract" => pos = 1 /\ groups = <<>> /\ slots = <<>>
    /\ phase \in Planned => output = Len(nodes) /\ pos \in Ids
    /\ phase = "fuse" => slots = <<>> /\ slotOf = [v \in Ids |-> 0]
    /\ phase \in {"verify", "done"} => pos = 1
    /\ phase \in {"extract", "fuse", "assign", "verify"} => available = {}

\* How far each pass has come.
FusedTo == IF phase = "extract" THEN 0 ELSE IF phase = "fuse" THEN pos - 1 ELSE Len(nodes)
AssignedTo ==
    IF phase \in {"extract", "fuse"} THEN 0 ELSE IF phase = "assign" THEN pos - 1 ELSE Len(nodes)
ExecutedTo == IF phase = "done" THEN Len(nodes) ELSE pos - 1

\* The value a group keeps in a register: its one reader is the group's next node,
\* whose other operands are made before the group begins.
Linked(tail, v, front) ==
    /\ tail < v /\ Elementwise(tail) /\ Elementwise(v)
    /\ ~Retained(tail) /\ ReadsRoot(v, tail) # {}
    /\ \A u \in Ids : nodes[u].op # "Alias" /\ ReadsRoot(u, tail) # {} => u = v
    /\ OperandsReady(v, tail, front)

Member(i, j) == i \in DOMAIN groups /\ j \in DOMAIN groups[i]

GroupOK(i) ==
    /\ groups[i] # <<>>
    /\ \A j \in DOMAIN groups[i] :
        /\ groups[i][j] \in 1..FusedTo /\ KernelOp(groups[i][j]) /\ groups[i][1] <= groups[i][j]
        /\ j > 1 => Linked(groups[i][j - 1], groups[i][j], groups[i][1])

\* Every kernel operation so far is in one group.
GroupsOK ==
    /\ groups \in Seq(Seq(Nat))
    /\ \A i \in DOMAIN groups : GroupOK(i)
    /\ \A h, i, j, k : Member(h, j) /\ Member(i, k) /\ groups[h][j] = groups[i][k] => h = i /\ j = k
    /\ \A v \in 1..FusedTo : KernelOp(v) => \E i, j : Member(i, j) /\ groups[i][j] = v

SlotOK(s) ==
    /\ \E a, b, c, d : slots[s] = [shape |-> a, roots |-> b, external |-> c, reusable |-> d]
    /\ slots[s].roots # {}
    /\ \A r \in slots[s].roots :
        /\ r \in 1..AssignedTo /\ NeedsSlot(r) /\ slotOf[r] = s
        /\ slots[s].shape = nodes[r].shape /\ slots[s].reusable = Reusable(r)
        /\ slots[s].external = (nodes[r].op = "Input")
    /\ \A q, r \in slots[s].roots : q # r => slots[s].reusable /\ ~Overlaps(q, r)

\* Every root so far that needs memory is in one slot, its aliases with it.
SlotsOK ==
    /\ Sequence(slots)
    /\ \A s \in DOMAIN slots : SlotOK(s)
    /\ \A v \in Ids : Tensor(v) => slotOf[v] = slotOf[Root(v)]
    /\ \A r \in 1..AssignedTo : NeedsSlot(r) =>
        slotOf[r] \in DOMAIN slots /\ r \in slots[slotOf[r]].roots
    /\ \A v \in Ids : ~(Tensor(v) /\ Root(v) <= AssignedTo /\ NeedsSlot(Root(v))) => slotOf[v] = 0

\* Where a value is produced: with its group, or at its own position.
Start(v) == IF Elementwise(v) THEN GroupOf(v)[1] ELSE v

Produced(v) == nodes[v].op # "Alias" /\ ~FusedIntermediate(v) /\ Start(v) <= ExecutedTo

ExecutionOK ==
    phase \in {"execute", "done"} =>
        /\ available = {v \in Ids : Produced(v)}
        /\ DOMAIN contents = DOMAIN slots
        /\ ~(options.reuse /\ options.fusion) =>
            \A r \in available : Tensor(r) /\ (~options.reuse \/ LastObligation(r) > ExecutedTo)
                                 => Holding(r)

SequentialGroups == ~options.fusion => \A i \in DOMAIN groups : Len(groups[i]) = 1

PlanInv ==
    /\ RegionOK /\ PhaseOK
    /\ phase \in Planned => GroupsOK /\ SequentialGroups
    /\ phase \in Planned => SlotsOK
    /\ ExecutionOK

-----------------------------------------------------------------------------
\* A set of naturals has a least element.
LEMMA Least ==
    ASSUME NEW T, T \subseteq Nat, T # {}
    PROVE  \E x \in T : \A y \in T : x <= y
<1>1. PICK R : R = OpToRel(<, Nat)
  OBVIOUS
<1>2. IsWellFoundedOn(R, Nat)
  BY <1>1, NatLessThanWellFounded
<1>3. \A x, y \in Nat : x < y => <<x, y>> \in R
  BY <1>1 DEF OpToRel
<1>4. PICK x \in T : \A y \in T : ~(<<y, x>> \in R)
  BY <1>2, WFMin
<1>5. x \in Nat /\ \A y \in T : y \in Nat /\ ~(y < x)
  BY <1>3, <1>4
<1> QED
  BY <1>5

\* A set of naturals with a bound has a greatest element.
LEMMA Greatest ==
    ASSUME NEW n \in Nat, NEW T, T \subseteq 0..n, T # {}
    PROVE  \E x \in T : \A y \in T : y <= x
<1>1. PICK D : D = {n - y : y \in T}
  OBVIOUS
<1>2. D \subseteq Nat /\ D # {}
  <2>1. \A y \in T : y \in 0..n
    OBVIOUS
  <2>2. \A y \in T : n - y \in Nat
    BY <2>1
  <2> QED
    BY <1>1, <2>2
<1>3. PICK d \in D : \A e \in D : d <= e
  BY <1>2, Least
<1>4. PICK x \in T : d = n - x
  BY <1>1, <1>3
<1>5. \A y \in T : n - y \in D
  BY <1>1
<1>6. \A y \in T : y \in 0..n /\ n - x <= n - y
  BY <1>3, <1>4, <1>5
<1>7. x \in 0..n
  BY <1>4
<1> QED
  BY <1>6, <1>7

\* A sequence with one more entry.
LEMMA AppendFacts ==
    ASSUME NEW s, Sequence(s), NEW x
    PROVE  /\ Sequence(Append(s, x)) /\ Append(s, x) # <<>>
           /\ Len(s) \in Nat /\ DOMAIN s = 1..Len(s)
           /\ Len(Append(s, x)) = Len(s) + 1 /\ DOMAIN Append(s, x) = 1..(Len(s) + 1)
           /\ \A i \in DOMAIN s : Append(s, x)[i] = s[i]
           /\ Append(s, x)[Len(s) + 1] = x
<1>1. PICK S : s \in Seq(S)
  BY DEF Sequence
<1>2. s \in Seq(S \cup {x})
  BY <1>1
<1>3. Len(s) \in Nat /\ DOMAIN s = 1..Len(s)
  BY <1>2, LenProperties
<1>4. /\ Append(s, x) \in Seq(S \cup {x}) /\ Append(s, x) # <<>>
      /\ Len(Append(s, x)) = Len(s) + 1
      /\ \A i \in 1..Len(s) : Append(s, x)[i] = s[i]
      /\ Append(s, x)[Len(s) + 1] = x
  BY <1>2, AppendProperties
<1>5. DOMAIN Append(s, x) = 1..(Len(s) + 1)
  BY <1>4, LenProperties
<1> QED
  BY <1>3, <1>4, <1>5 DEF Sequence

\* The nodes are numbered.
LEMMA SequenceFacts ==
    ASSUME NEW s, Sequence(s)
    PROVE  Len(s) \in Nat /\ DOMAIN s = 1..Len(s) /\ (s # <<>> => Len(s) # 0)
  BY LenProperties, EmptySeq DEF Sequence

\* What is read under its root is an earlier tensor that has memory of its own.
LEMMA ReadsAreRoots ==
    ASSUME RegionOK, NEW v \in Ids, NEW r, ReadsRoot(v, r) # {}
    PROVE  /\ r \in Ids /\ r \in 1..(v - 1) /\ Root(r) = r /\ Tensor(r) /\ nodes[r].op # "Alias"
<1>1. PICK i \in DOMAIN Deps(v) : Root(Deps(v)[i]) = r
  BY DEF ReadsRoot
<1>2. PICK d : d = Deps(v)[i]
  OBVIOUS
<1>3. Len(nodes) \in Nat /\ Ids = 1..Len(nodes)
  BY SequenceFacts DEF RegionOK, Ids
<1>4. d \in 1..(v - 1) /\ Tensor(d) /\ Root(d) = r
  BY <1>1, <1>2 DEF RegionOK, NodeOK
<1>5. d \in Ids
  BY <1>3, <1>4
<1>6. Root(d) \in 1..d /\ nodes[Root(d)].op # "Alias" /\ Root(Root(d)) = Root(d) /\ Tensor(Root(d))
  BY <1>4, <1>5 DEF RegionOK, NodeOK
<1>7. r \in 1..(v - 1) /\ r \in Ids
  BY <1>3, <1>4, <1>6
<1> QED
  BY <1>4, <1>6, <1>7

\* A lifetime reaches to the last reader, and past the region for what is retained.
LEMMA Lifetimes ==
    ASSUME RegionOK, NEW r \in Ids
    PROVE  /\ LastObligation(r) \in Nat /\ r <= LastObligation(r)
           /\ \A v \in Ids : ReadsRoot(v, r) # {} => v <= LastObligation(r)
           /\ Retained(r) => LastObligation(r) = Len(nodes) + 1
<1>1. Len(nodes) \in Nat /\ Ids = 1..Len(nodes)
  BY SequenceFacts DEF RegionOK, Ids
<1>2. CASE Retained(r)
  BY <1>1, <1>2 DEF LastObligation
<1>3. CASE ~Retained(r)
  <2>1. PICK T : T = {r} \cup {v \in Ids : ReadsRoot(v, r) # {}}
    OBVIOUS
  <2>2. T \subseteq 0..Len(nodes) /\ T # {}
    BY <1>1, <2>1
  <2>3. \E k \in T : \A v \in T : v <= k
    BY <1>1, <2>2, Greatest
  <2>4. \E k \in T : \A v \in Ids : ReadsRoot(v, r) # {} => v <= k
    BY <2>1, <2>3
  <2>5. LastObligation(r) = CHOOSE k \in T : \A v \in Ids : ReadsRoot(v, r) # {} => v <= k
    BY <1>3, <2>1 DEF LastObligation
  <2>6. /\ LastObligation(r) \in T
        /\ \A v \in Ids : ReadsRoot(v, r) # {} => v <= LastObligation(r)
    BY <2>4, <2>5
  <2>7. \A v \in Ids : ReadsRoot(v, r) # {} => r <= v
    BY <1>1, ReadsAreRoots
  <2>8. r <= LastObligation(r) /\ LastObligation(r) \in Nat
    BY <1>1, <2>1, <2>6, <2>7
  <2> QED
    BY <1>3, <2>6, <2>8
<1> QED
  BY <1>2, <1>3

-----------------------------------------------------------------------------
\* What the passes ask of the region does not change once it is planned.
LEMMA RegionStays ==
    ASSUME UNCHANGED region
    PROVE  /\ Ids' = Ids /\ (RegionOK => RegionOK')
           /\ \A v : /\ Root(v)' = Root(v) /\ Deps(v)' = Deps(v) /\ (Tensor(v)' <=> Tensor(v))
                     /\ (Elementwise(v)' <=> Elementwise(v)) /\ (KernelOp(v)' <=> KernelOp(v))
                     /\ (Zero(v)' <=> Zero(v)) /\ (Retained(v)' <=> Retained(v))
                     /\ LastObligation(v)' = LastObligation(v)
                     /\ (ProtectedRoot(v)' <=> ProtectedRoot(v))
           /\ \A q, r : (Overlaps(q, r)' <=> Overlaps(q, r)) /\ ReadsRoot(q, r)' = ReadsRoot(q, r)
<1>1. UNCHANGED <<nodes, output, device, options, protected, barriers>>
  BY DEF region
<1>2. Ids' = Ids
  BY <1>1 DEF Ids
<1>3. \A v : /\ Root(v)' = Root(v) /\ Deps(v)' = Deps(v) /\ (Tensor(v)' <=> Tensor(v))
             /\ (Elementwise(v)' <=> Elementwise(v)) /\ (KernelOp(v)' <=> KernelOp(v))
             /\ (Zero(v)' <=> Zero(v)) /\ (Retained(v)' <=> Retained(v))
             /\ (ProtectedRoot(v)' <=> ProtectedRoot(v))
  BY <1>1, <1>2 DEF Root, Deps, Tensor, Elementwise, KernelOp, Zero, Retained, ProtectedRoot
<1>4. \A q, r : ReadsRoot(q, r)' = ReadsRoot(q, r)
  BY <1>3 DEF ReadsRoot
<1>5. ASSUME NEW v PROVE LastObligation(v)' = LastObligation(v)
  BY <1>1 DEF LastObligation, Retained, Ids, Root, ReadsRoot, Deps
<1>6. \A q, r : Overlaps(q, r)' <=> Overlaps(q, r)
  BY <1>5 DEF Overlaps
<1>7. RegionOK => RegionOK'
  BY <1>1, <1>2, <1>3 DEF RegionOK, NodeOK
<1> QED
  BY <1>2, <1>3, <1>4, <1>5, <1>6, <1>7

\* What an operation reads, as extraction gives it.
LEMMA OperandFacts ==
    ASSUME NEW op, NEW deps \in Operands(op)
    PROVE  /\ DOMAIN deps \subseteq {1, 2} /\ \A i \in DOMAIN deps : deps[i] \in Ids /\ Tensor(deps[i])
           /\ op \in {"Alias", "Copy", "Index"} => 1 \in DOMAIN deps
           /\ 1 \in DOMAIN deps <=> deps # <<>>
<1> DEFINE values == {v \in Ids : Tensor(v)}
<1>1. \/ deps = <<>> /\ op \in {"Input", "TensorLiteral"}
      \/ \E v \in values : deps = <<v>>
      \/ deps \in values \X values /\ op \notin {"Alias", "Copy", "Index"}
  BY DEF Operands
<1>2. CASE deps = <<>> /\ op \in {"Input", "TensorLiteral"}
  BY <1>2
<1>3. CASE \E v \in values : deps = <<v>>
  BY <1>3
<1>4. CASE deps \in values \X values /\ op \notin {"Alias", "Copy", "Index"}
  BY <1>4
<1> QED
  BY <1>1, <1>2, <1>3, <1>4

\* extractStrictRegion: the region is well formed.
LEMMA ExtractKeepsRegion ==
    ASSUME RegionOK, Extract
    PROVE  RegionOK' /\ Len(nodes') = Len(nodes) + 1
<1>1. PICK op, deps, shape, n :
        /\ deps \in Operands(op)
        /\ n = [op |-> op, deps |-> deps, shape |-> shape, root |-> RootOf(op, deps)]
        /\ deps # <<>> => shape = nodes[deps[1]].shape
        /\ nodes' = Append(nodes, n)
  BY DEF Extract
<1>2. /\ Sequence(nodes') /\ Len(nodes) \in Nat /\ DOMAIN nodes = Ids /\ Ids = 1..Len(nodes)
      /\ Len(nodes') = Len(nodes) + 1 /\ Ids' = 1..(Len(nodes) + 1)
      /\ \A v \in Ids : nodes'[v] = nodes[v]
      /\ nodes'[Len(nodes) + 1] = n
  BY <1>1, AppendFacts DEF RegionOK, Ids
<1>3. ASSUME NEW v \in Ids PROVE NodeOK(v)'
  <2>1. NodeOK(v)
    BY <1>3 DEF RegionOK
  <2>2. \A i \in DOMAIN Deps(v) : Deps(v)[i] \in Ids
    BY <1>2, <1>3, <2>1 DEF NodeOK
  <2>3. Root(v) \in Ids
    BY <1>2, <1>3, <2>1 DEF NodeOK
  <2> QED
    BY <1>2, <1>3, <2>1, <2>2, <2>3 DEF NodeOK, Deps, Tensor, Root
<1>4. ASSUME NEW v, v = Len(nodes) + 1 PROVE NodeOK(v)'
  <2>1. v = Len(nodes) + 1
    BY <1>4
  <2>2. /\ DOMAIN deps \subseteq {1, 2} /\ \A i \in DOMAIN deps : deps[i] \in Ids /\ Tensor(deps[i])
        /\ op \in {"Alias", "Copy", "Index"} => 1 \in DOMAIN deps
        /\ 1 \in DOMAIN deps <=> deps # <<>>
    BY <1>1, OperandFacts
  <2>3. nodes'[v].op = op /\ nodes'[v].deps = deps /\ nodes'[v].shape = shape
        /\ nodes'[v].root = RootOf(op, deps) /\ v \in Ids'
    BY <1>1, <1>2, <2>1
  <2>4. /\ DOMAIN deps \subseteq {1, 2}
        /\ \A i \in DOMAIN deps : deps[i] \in 1..(v - 1) /\ nodes'[deps[i]].op # "Index"
        /\ op \in {"Alias", "Copy", "Index"} => 1 \in DOMAIN deps
    BY <1>2, <2>1, <2>2 DEF Tensor
  <2>5. /\ nodes'[v].root \in 1..v /\ nodes'[nodes'[v].root].op # "Alias"
        /\ nodes'[nodes'[v].root].root = nodes'[v].root
        /\ op # "Alias" => nodes'[v].root = v
        /\ op # "Index" => nodes'[nodes'[v].root].op # "Index"
        /\ nodes'[v].shape = nodes'[nodes'[v].root].shape
    <3>1. CASE op = "Alias"
      <4>1. PICK d, r : d = deps[1] /\ r = nodes[d].root
        OBVIOUS
      <4>2. d \in Ids /\ deps # <<>> /\ Tensor(d) /\ NodeOK(d)
        BY <2>2, <3>1, <4>1 DEF RegionOK
      <4>3. /\ r \in 1..d /\ nodes[r].op # "Alias" /\ nodes[r].root = r /\ nodes[r].op # "Index"
            /\ nodes[d].shape = nodes[r].shape
        BY <4>1, <4>2 DEF NodeOK, Root, Tensor
      <4>4. r \in Ids /\ r \in 1..v
        BY <1>2, <2>1, <4>2, <4>3
      <4>5. nodes'[r] = nodes[r] /\ nodes'[v].root = r /\ shape = nodes[d].shape
        BY <1>1, <1>2, <2>3, <3>1, <4>1, <4>2, <4>4 DEF RootOf
      <4> QED
        BY <2>3, <3>1, <4>3, <4>4, <4>5
    <3>2. CASE op # "Alias"
      BY <1>2, <2>1, <2>3, <3>2 DEF RootOf
    <3> QED
      BY <3>1, <3>2
  <2>6. Deps(v)' = deps /\ Root(v)' = nodes'[v].root /\ (Tensor(v)' <=> op # "Index")
    BY <2>3 DEF Deps, Root, Tensor
  <2>7. /\ DOMAIN Deps(v)' \subseteq {1, 2}
        /\ (\A i \in DOMAIN Deps(v) : Deps(v)[i] \in 1..(v - 1) /\ Tensor(Deps(v)[i]))'
        /\ (nodes[v].op \in {"Alias", "Copy", "Index"} => 1 \in DOMAIN Deps(v))'
    BY <2>3, <2>4, <2>6 DEF Tensor
  <2>8. /\ (Root(v) \in 1..v /\ nodes[Root(v)].op # "Alias" /\ Root(Root(v)) = Root(v))'
        /\ (nodes[v].op # "Alias" => Root(v) = v)'
        /\ (Tensor(v) => Tensor(Root(v)))'
        /\ (nodes[v].shape = nodes[Root(v)].shape)'
    BY <2>3, <2>5, <2>6 DEF Root, Tensor
  <2> QED
    BY <2>7, <2>8 DEF NodeOK
<1>5. ASSUME NEW v \in Ids' PROVE NodeOK(v)'
  <2>1. v \in Ids \/ v = Len(nodes) + 1
    BY <1>2, <1>5
  <2> QED
    BY <1>3, <1>4, <2>1
<1> QED
  BY <1>2, <1>5 DEF RegionOK

-----------------------------------------------------------------------------
\* A link depends on the region only.
LEMMA LinksStay ==
    ASSUME UNCHANGED region, NEW t, NEW v, NEW f
    PROVE  Linked(t, v, f)' <=> Linked(t, v, f)
<1>1. nodes' = nodes /\ Ids' = Ids /\ Deps(v)' = Deps(v)
      /\ \A u : Root(u)' = Root(u) /\ (Elementwise(u)' <=> Elementwise(u))
                /\ (Retained(u)' <=> Retained(u)) /\ ReadsRoot(u, t)' = ReadsRoot(u, t)
  BY RegionStays DEF region
<1>2. OperandsReady(v, t, f)' <=> OperandsReady(v, t, f)
  BY <1>1 DEF OperandsReady
<1> QED
  BY <1>1, <1>2 DEF Linked

\* The positions of a group.
LEMMA MemberFacts ==
    ASSUME GroupsOK, NEW i \in DOMAIN groups
    PROVE  /\ groups[i] \in Seq(Nat) /\ Len(groups[i]) \in Nat \ {0}
           /\ DOMAIN groups[i] = 1..Len(groups[i]) /\ 1 \in DOMAIN groups[i]
           /\ Len(groups[i]) \in DOMAIN groups[i]
<1>1. groups \in Seq(Seq(Nat)) /\ groups[i] # <<>>
  BY DEF GroupsOK, GroupOK
<1>2. DOMAIN groups = 1..Len(groups)
  BY <1>1, LenProperties
<1>3. groups[i] \in Seq(Nat)
  BY <1>1, <1>2, ElementOfSeq
<1>4. Len(groups[i]) \in Nat \ {0} /\ DOMAIN groups[i] = 1..Len(groups[i])
  BY <1>1, <1>3, LenProperties, EmptySeq
<1> QED
  BY <1>3, <1>4

\* Where a node may join.
JoinsAt(i, j, v) ==
    \/ j = 1
    \/ /\ i \in DOMAIN groups /\ j - 1 \in DOMAIN groups[i]
       /\ Linked(groups[i][j - 1], v, groups[i][1])

\* One node joins the groups, alone or at the end of one it is linked to.
LEMMA GroupsGrow ==
    ASSUME GroupsOK, RegionOK, UNCHANGED region, FusedTo \in Nat, FusedTo' = FusedTo + 1,
           NEW p, p = FusedTo + 1, KernelOp(p), NEW i0, NEW j0, JoinsAt(i0, j0, p),
           groups' \in Seq(Seq(Nat)), \A i \in DOMAIN groups' : 1 \in DOMAIN groups'[i],
           i0 \in DOMAIN groups', j0 \in DOMAIN groups'[i0], groups'[i0][j0] = p,
           \A i \in DOMAIN groups : \A j \in DOMAIN groups[i] :
               i \in DOMAIN groups' /\ j \in DOMAIN groups'[i] /\ groups'[i][j] = groups[i][j],
           \A i \in DOMAIN groups' : \A j \in DOMAIN groups'[i] :
               \/ i = i0 /\ j = j0
               \/ i \in DOMAIN groups /\ j \in DOMAIN groups[i]
    PROVE  GroupsOK'
<1>1. \A i \in DOMAIN groups :
        /\ DOMAIN groups[i] = 1..Len(groups[i]) /\ 1 \in DOMAIN groups[i] /\ Len(groups[i]) \in Nat
        /\ GroupOK(i)
  BY MemberFacts DEF GroupsOK
<1>2. \A v : KernelOp(v)' <=> KernelOp(v)
  BY RegionStays
<1>3. ASSUME NEW i \in DOMAIN groups' PROVE GroupOK(i)'
  <2>1. groups'[i] # <<>>
    BY <1>3
  <2>2. ASSUME NEW j \in DOMAIN groups'[i], i \in DOMAIN groups, j \in DOMAIN groups[i]
        PROVE  (/\ groups[i][j] \in 1..FusedTo /\ KernelOp(groups[i][j])
                /\ groups[i][1] <= groups[i][j]
                /\ j > 1 => Linked(groups[i][j - 1], groups[i][j], groups[i][1]))'
    <3>1. groups'[i][j] = groups[i][j] /\ groups'[i][1] = groups[i][1]
      BY <1>1, <2>2
    <3>2. PICK t, v, f : t = groups'[i][j - 1] /\ v = groups'[i][j] /\ f = groups'[i][1]
      OBVIOUS
    <3>3. v \in 1..FusedTo /\ KernelOp(v) /\ f <= v
      BY <1>1, <2>2, <3>1, <3>2 DEF GroupOK
    <3>4. j > 1 => Linked(t, v, f)
      <4>1. j > 1 => j - 1 \in DOMAIN groups[i]
        BY <1>1, <2>2
      <4>2. j > 1 => groups'[i][j - 1] = groups[i][j - 1]
        BY <2>2, <4>1
      <4> QED
        BY <1>1, <2>2, <3>1, <3>2, <4>2 DEF GroupOK
    <3>5. KernelOp(v)' /\ v \in 1..FusedTo'
      BY <1>2, <3>3
    <3>6. j > 1 => Linked(t, v, f)'
      BY <3>4, LinksStay
    <3> QED
      BY <3>2, <3>3, <3>5, <3>6
  <2>3. ASSUME NEW j \in DOMAIN groups'[i], i = i0, j = j0
        PROVE  (/\ groups[i][j] \in 1..FusedTo /\ KernelOp(groups[i][j])
                /\ groups[i][1] <= groups[i][j]
                /\ j > 1 => Linked(groups[i][j - 1], groups[i][j], groups[i][1]))'
    <3>1. groups'[i][j] = p /\ p \in 1..FusedTo' /\ KernelOp(p)' /\ p \in Nat
      <4>1. KernelOp(p)'
        BY <1>2
      <4> QED
        BY <2>3, <4>1
    <3>2. CASE j0 = 1
      BY <2>3, <3>1, <3>2
    <3>3. CASE j0 # 1
      <4>1. groups'[i][1] = groups[i0][1] /\ groups[i0][1] \in 1..FusedTo
            /\ groups'[i][j - 1] = groups[i0][j0 - 1]
        BY <1>1, <2>3, <3>3 DEF GroupOK, JoinsAt
      <4>2. Linked(groups[i0][j0 - 1], p, groups[i0][1])'
        <5>1. PICK t, f : t = groups[i0][j0 - 1] /\ f = groups[i0][1]
          OBVIOUS
        <5>2. Linked(t, p, f)'
          BY <3>3, <5>1, LinksStay DEF JoinsAt
        <5>3. groups'[i0][j0 - 1] = t /\ groups'[i0][1] = f
          BY <2>3, <4>1, <5>1
        <5> QED
          BY <5>2, <5>3
      <4> QED
        BY <2>3, <3>1, <3>3, <4>1, <4>2
    <3> QED
      BY <3>2, <3>3
  <2> QED
    BY <1>3, <2>1, <2>2, <2>3 DEF GroupOK
<1>4. ASSUME NEW h, NEW i, NEW j, NEW k, Member(h, j)', Member(i, k)', groups'[h][j] = groups'[i][k]
      PROVE  h = i /\ j = k
  <2>1. \A g \in DOMAIN groups : \A l \in DOMAIN groups[g] :
            groups'[g][l] = groups[g][l] /\ groups'[g][l] # p
    BY <1>1 DEF GroupOK
  <2>2. (h = i0 /\ j = j0) \/ (h \in DOMAIN groups /\ j \in DOMAIN groups[h])
    BY <1>4 DEF Member
  <2>3. (i = i0 /\ k = j0) \/ (i \in DOMAIN groups /\ k \in DOMAIN groups[i])
    BY <1>4 DEF Member
  <2>4. CASE h = i0 /\ j = j0
    BY <1>4, <2>1, <2>3, <2>4
  <2>5. CASE i = i0 /\ k = j0
    BY <1>4, <2>1, <2>2, <2>5
  <2>6. CASE h \in DOMAIN groups /\ j \in DOMAIN groups[h] /\ i \in DOMAIN groups /\ k \in DOMAIN groups[i]
    BY <1>4, <2>1, <2>6 DEF GroupsOK, Member
  <2> QED
    BY <2>2, <2>3, <2>4, <2>5, <2>6
<1>5. ASSUME NEW v \in 1..FusedTo', KernelOp(v)' PROVE \E i, j : Member(i, j)' /\ groups'[i][j] = v
  <2>1. CASE v = p
    BY <2>1 DEF Member
  <2>2. CASE v \in 1..FusedTo
    <3>1. PICK i, j : Member(i, j) /\ groups[i][j] = v
      BY <1>2, <1>5, <2>2 DEF GroupsOK
    <3> QED
      BY <3>1 DEF Member
  <2> QED
    BY <1>5, <2>1, <2>2
<1> QED
  BY <1>3, <1>4, <1>5 DEF GroupsOK, Member

\* What makeFusionGroups asks of a node that joins a group.
LEMMA ExtendingLinks ==
    ASSUME RegionOK, NEW v \in Ids, NEW g, Extends(v, g)
    PROVE  Linked(Last(g), v, g[1])
<1>1. PICK t : t = Last(g)
  OBVIOUS
<1>2. /\ Elementwise(t) /\ Elementwise(v) /\ ~ProtectedRoot(t) /\ Root(output) # t
      /\ SingleUse(t, v) /\ OperandsReady(v, t, g[1])
  BY <1>1 DEF Extends
<1>3. ~Retained(t)
  BY <1>2 DEF Retained, ProtectedRoot
<1>4. {u[1] : u \in FusionUses(t)} = {v}
  BY <1>2 DEF SingleUse, OneConsumer
<1>5. ASSUME NEW u \in Ids, nodes[u].op # "Alias", ReadsRoot(u, t) # {} PROVE u = v
  <2>1. PICK i \in DOMAIN Deps(u) : i \in ReadsRoot(u, t)
    BY <1>5 DEF ReadsRoot
  <2>2. i \in 1..2
    BY <1>5 DEF RegionOK, NodeOK
  <2>3. <<u, i>> \in FusionUses(t)
    BY <1>5, <2>1, <2>2 DEF FusionUses
  <2>4. <<u, i>>[1] \in {v}
    BY <1>4, <2>3
  <2> QED
    BY <2>4
<1>6. ReadsRoot(v, t) # {}
  <2>1. PICK u \in FusionUses(t) : u[1] = v
    BY <1>4
  <2> QED
    BY <2>1 DEF FusionUses
<1>7. t < v
  <2>1. t \in 1..(v - 1)
    BY <1>6, ReadsAreRoots
  <2>2. v \in Nat
    BY SequenceFacts DEF RegionOK, Ids
  <2> QED
    BY <2>1, <2>2
<1> QED
  BY <1>1, <1>2, <1>3, <1>5, <1>6, <1>7 DEF Linked

\* makeFusionGroups keeps every kernel operation in one group of linked nodes.
LEMMA FuseKeepsGroups ==
    ASSUME RegionOK, PhaseOK, GroupsOK, SequentialGroups, Fuse
    PROVE  /\ GroupsOK' /\ SequentialGroups' /\ FusedTo' = FusedTo + 1
           /\ groups' \in Seq(Seq(Nat))
<1>1. /\ pos \in Ids /\ Len(nodes) \in Nat /\ Ids = 1..Len(nodes) /\ UNCHANGED region
      /\ nodes' = nodes /\ options' = options
  BY SequenceFacts DEF PhaseOK, Planned, Fuse, RegionOK, Ids, region
<1>2. FusedTo \in Nat /\ pos = FusedTo + 1 /\ FusedTo' = FusedTo + 1
  <2>1. phase = "fuse" /\ FusedTo = pos - 1
    BY DEF Fuse, FusedTo
  <2>2. CASE pos = Len(nodes)
    BY <1>1, <2>1, <2>2 DEF FusedTo, Fuse, NextNode
  <2>3. CASE pos # Len(nodes)
    BY <1>1, <2>1, <2>3 DEF FusedTo, Fuse, NextNode
  <2> QED
    BY <2>2, <2>3
<1>3. groups \in Seq(Seq(Nat)) /\ Len(groups) \in Nat /\ DOMAIN groups = 1..Len(groups)
      /\ <<pos>> \in Seq(Nat)
  BY <1>1, LenProperties DEF GroupsOK
<1>4. CASE groups' = groups /\ ~KernelOp(pos)
  <2>1. \A v \in 1..FusedTo' : v = pos \/ v \in 1..FusedTo
    BY <1>2
  <2>2. \A v \in 1..FusedTo : v \in 1..FusedTo'
    BY <1>2
  <2>3. \A v : KernelOp(v)' <=> KernelOp(v)
    BY <1>1, RegionStays
  <2>4. ASSUME NEW i \in DOMAIN groups PROVE GroupOK(i)'
    <3>1. GroupOK(i)
      BY DEF GroupsOK
    <3>2. \A j \in DOMAIN groups[i] : groups[i][j] \in 1..FusedTo' /\ KernelOp(groups[i][j])'
      <4>1. \A j \in DOMAIN groups[i] : groups[i][j] \in 1..FusedTo' /\ KernelOp(groups[i][j])
        BY <2>2, <3>1 DEF GroupOK
      <4>2. \A v : KernelOp(v) <=> KernelOp(v)'
        BY <2>3
      <4> QED
        BY <1>1, <1>4, <4>1 DEF KernelOp, Elementwise
    <3>3. \A t, v, f : Linked(t, v, f) => Linked(t, v, f)'
      BY <1>1, LinksStay
    <3>4. ASSUME NEW j \in DOMAIN groups[i], j > 1
          PROVE  Linked(groups[i][j - 1], groups[i][j], groups[i][1])'
      <4>1. PICK t, v, f : t = groups[i][j - 1] /\ v = groups[i][j] /\ f = groups[i][1]
        OBVIOUS
      <4>2. Linked(t, v, f)
        BY <3>1, <3>4, <4>1 DEF GroupOK
      <4>3. Linked(t, v, f)'
        BY <3>3, <4>2
      <4> QED
        BY <1>4, <4>1, <4>3
    <3> QED
      BY <1>4, <3>1, <3>2, <3>4 DEF GroupOK
  <2>5. \A v \in 1..FusedTo' : KernelOp(v)' => \E i, j : Member(i, j) /\ groups[i][j] = v
    BY <1>4, <2>1, <2>3 DEF GroupsOK
  <2> QED
    BY <1>1, <1>2, <1>3, <1>4, <2>4, <2>5 DEF GroupsOK, Member, SequentialGroups
<1>5. CASE groups' = Append(groups, <<pos>>) /\ KernelOp(pos)
  <2>1. PICK n, p, w : n = Len(groups) + 1 /\ p = pos /\ w = <<pos>>
    OBVIOUS
  <2>2. /\ groups' \in Seq(Seq(Nat)) /\ DOMAIN groups' = 1..n /\ n \in Nat /\ n > 0
        /\ \A i \in DOMAIN groups : groups'[i] = groups[i]
        /\ groups'[n] = w
    BY <1>3, <1>5, <2>1, AppendProperties, LenProperties
  <2>3. w[1] = p /\ DOMAIN w = {1} /\ Len(w) = 1
    BY <2>1
  <2>4. \A i \in DOMAIN groups' : i = n \/ i \in DOMAIN groups
    BY <1>3, <2>1, <2>2
  <2>5. \A i \in DOMAIN groups' : 1 \in DOMAIN groups'[i]
    BY <2>2, <2>3, <2>4, MemberFacts
  <2>6. \A i \in DOMAIN groups : i \in DOMAIN groups'
    BY <1>3, <2>1, <2>2
  <2>7. n \in DOMAIN groups' /\ 1 \in DOMAIN groups'[n] /\ groups'[n][1] = p
    BY <2>2, <2>3
  <2>8. GroupsOK'
    <3>1. \A i \in DOMAIN groups : \A j \in DOMAIN groups[i] :
               i \in DOMAIN groups' /\ j \in DOMAIN groups'[i] /\ groups'[i][j] = groups[i][j]
      BY <2>2, <2>6
    <3>2. \A i \in DOMAIN groups' : \A j \in DOMAIN groups'[i] :
               \/ i = n /\ j = 1
               \/ i \in DOMAIN groups /\ j \in DOMAIN groups[i]
      BY <2>2, <2>3, <2>4
    <3>3. p = FusedTo + 1 /\ KernelOp(p)
      BY <1>2, <1>5, <2>1
    <3>4. JoinsAt(n, 1, p)
      BY DEF JoinsAt
    <3> QED
      BY <1>1, <1>2, <2>2, <2>5, <2>7, <3>1, <3>2, <3>3, <3>4, GroupsGrow
  <2>9. SequentialGroups'
    BY <1>1, <2>2, <2>3, <2>4 DEF SequentialGroups
  <2> QED
    BY <1>2, <2>2, <2>8, <2>9
<1>6. CASE /\ groups' = [groups EXCEPT ![Len(groups)] = Append(@, pos)] /\ KernelOp(pos)
           /\ groups # <<>> /\ Extends(pos, Last(groups))
  <2>1. PICK n, g, m, p : n = Len(groups) /\ g = groups[n] /\ m = Len(g) + 1 /\ p = pos
    OBVIOUS
  <2>2. n \in DOMAIN groups
    BY <1>3, <1>6, <2>1, EmptySeq
  <2>3. g \in Seq(Nat) /\ Len(g) \in Nat \ {0} /\ DOMAIN g = 1..Len(g)
    BY <2>1, <2>2, MemberFacts
  <2>4. /\ Append(g, pos) \in Seq(Nat) /\ DOMAIN Append(g, pos) = 1..m
        /\ \A j \in DOMAIN g : Append(g, pos)[j] = g[j]
        /\ Append(g, pos)[m] = p
    BY <1>1, <2>1, <2>3, AppendProperties, LenProperties
  <2>5. groups' = [groups EXCEPT ![n] = Append(g, pos)]
    BY <1>6, <2>1
  <2>6. /\ groups' \in Seq(Seq(Nat)) /\ DOMAIN groups' = DOMAIN groups
        /\ groups'[n] = Append(g, pos)
        /\ \A i \in DOMAIN groups : i # n => groups'[i] = groups[i]
    BY <1>3, <2>2, <2>4, <2>5, ExceptSeq
  <2>7. Linked(groups[n][m - 1], p, groups[n][1])
    <3>1. Last(groups) = g /\ Last(g) = g[m - 1]
      BY <2>1, <2>3 DEF Last
    <3>2. Linked(Last(g), p, g[1])
      BY <1>1, <1>6, <2>1, <3>1, ExtendingLinks
    <3> QED
      BY <2>1, <3>1, <3>2
  <2>8. n \in DOMAIN groups' /\ m \in DOMAIN groups'[n] /\ groups'[n][m] = p
        /\ m - 1 \in DOMAIN groups[n] /\ 1 \in DOMAIN groups'[n]
    BY <2>1, <2>2, <2>3, <2>4, <2>6
  <2>9. GroupsOK'
    <3>1. \A i \in DOMAIN groups : \A j \in DOMAIN groups[i] :
               i \in DOMAIN groups' /\ j \in DOMAIN groups'[i] /\ groups'[i][j] = groups[i][j]
      <4>1. ASSUME NEW i \in DOMAIN groups, NEW j \in DOMAIN groups[i]
            PROVE  j \in DOMAIN groups'[i] /\ groups'[i][j] = groups[i][j]
        <5>1. CASE i = n
          <6>1. groups[i] = g /\ groups'[i] = Append(g, pos) /\ j \in DOMAIN g
            BY <2>1, <2>6, <4>1, <5>1
          <6>2. j \in 1..m
            BY <2>1, <2>3, <6>1
          <6> QED
            BY <2>4, <6>1, <6>2
        <5>2. CASE i # n
          BY <2>6, <4>1, <5>2
        <5> QED
          BY <5>1, <5>2
      <4> QED
        BY <2>6, <4>1
    <3>2. \A i \in DOMAIN groups' : \A j \in DOMAIN groups'[i] :
               \/ i = n /\ j = m
               \/ i \in DOMAIN groups /\ j \in DOMAIN groups[i]
      <4>1. ASSUME NEW i \in DOMAIN groups', NEW j \in DOMAIN groups'[i], ~(i = n /\ j = m)
            PROVE  i \in DOMAIN groups /\ j \in DOMAIN groups[i]
        <5>1. CASE i = n
          <6>1. groups[i] = g /\ groups'[i] = Append(g, pos)
            BY <2>1, <2>6, <4>1, <5>1
          <6>2. j \in 1..m /\ j # m
            BY <2>4, <4>1, <5>1, <6>1
          <6>3. j \in DOMAIN g
            BY <2>1, <2>3, <6>2
          <6> QED
            BY <2>6, <4>1, <6>1, <6>3
        <5>2. CASE i # n
          BY <2>6, <4>1, <5>2
        <5> QED
          BY <5>1, <5>2
      <4> QED
        BY <4>1
    <3>3. \A i \in DOMAIN groups' : 1 \in DOMAIN groups'[i]
      BY <2>6, <2>8, MemberFacts
    <3>4. p = FusedTo + 1 /\ KernelOp(p)
      BY <1>2, <1>6, <2>1
    <3>5. n \in DOMAIN groups' /\ m \in DOMAIN groups'[n] /\ groups'[n][m] = p
          /\ groups' \in Seq(Seq(Nat))
      BY <2>6, <2>8
    <3>6. JoinsAt(n, m, p)
      BY <2>2, <2>7, <2>8 DEF JoinsAt
    <3> QED
      BY <1>1, <1>2, <3>1, <3>2, <3>3, <3>4, <3>5, <3>6, GroupsGrow
  <2>10. options.fusion
    BY <1>6 DEF Extends
  <2> QED
    BY <1>1, <1>2, <2>6, <2>9, <2>10 DEF SequentialGroups
<1> QED
  BY <1>4, <1>5, <1>6 DEF Fuse

-----------------------------------------------------------------------------
\* What slot assignment asks of the groups does not change with region and groups.
LEMMA GroupsStay ==
    ASSUME UNCHANGED <<region, groups>>
    PROVE  /\ GroupsOK /\ FusedTo' = FusedTo => GroupsOK'
           /\ SequentialGroups => SequentialGroups'
           /\ \A v : /\ GroupOf(v)' = GroupOf(v) /\ (FusedIntermediate(v)' <=> FusedIntermediate(v))
                     /\ (Materialized(v)' <=> Materialized(v)) /\ (NeedsSlot(v)' <=> NeedsSlot(v))
                     /\ Reusable(v)' = Reusable(v)
<1>1. UNCHANGED <<nodes, output, device, options, protected, barriers, groups>>
  BY DEF region
<1>2. ASSUME GroupsOK, FusedTo' = FusedTo PROVE GroupsOK'
  <2>1. ASSUME NEW i \in DOMAIN groups PROVE GroupOK(i)'
    <3>1. GroupOK(i)
      BY <1>2 DEF GroupsOK
    <3>2. ASSUME NEW j \in DOMAIN groups[i], j > 1
          PROVE  Linked(groups[i][j - 1], groups[i][j], groups[i][1])'
      <4>1. PICK t, v, f : t = groups[i][j - 1] /\ v = groups[i][j] /\ f = groups[i][1]
        OBVIOUS
      <4>2. Linked(t, v, f)
        BY <3>1, <3>2, <4>1 DEF GroupOK
      <4>3. Linked(t, v, f)'
        BY <4>2, LinksStay
      <4> QED
        BY <1>1, <4>1, <4>3
    <3>3. \A j \in DOMAIN groups[i] : KernelOp(groups[i][j])'
      BY <1>1, <3>1 DEF GroupOK, KernelOp, Elementwise
    <3> QED
      BY <1>1, <1>2, <3>1, <3>2, <3>3 DEF GroupOK
  <2>2. \A v : KernelOp(v)' <=> KernelOp(v)
    BY RegionStays
  <2> QED
    BY <1>1, <1>2, <2>1, <2>2 DEF GroupsOK, Member
<1>3. SequentialGroups => SequentialGroups'
  BY <1>1 DEF SequentialGroups
<1>4. ASSUME NEW v
      PROVE  GroupOf(v)' = GroupOf(v) /\ (FusedIntermediate(v)' <=> FusedIntermediate(v))
  BY <1>1 DEF GroupOf, FusedIntermediate
<1>5. ASSUME NEW v PROVE Materialized(v)' <=> Materialized(v)
  BY <1>1 DEF FusedIntermediate, Materialized, Root
<1>6. \A v : NeedsSlot(v)' <=> NeedsSlot(v)
  BY <1>5, RegionStays DEF NeedsSlot
<1>7. ASSUME NEW v PROVE Reusable(v)' = Reusable(v)
  BY <1>1 DEF Reusable, FusedIntermediate, Materialized, Root, Retained, Zero, Ids
<1> QED
  BY <1>2, <1>3, <1>4, <1>5, <1>6, <1>7

\* The slots after a step that assigns nothing.
LEMMA SlotsStay ==
    ASSUME SlotsOK, RegionOK, UNCHANGED <<region, plan>>, AssignedTo \in Nat, AssignedTo' \in Nat,
           \/ AssignedTo' = AssignedTo
           \/ AssignedTo' = AssignedTo + 1 /\ ~NeedsSlot(AssignedTo + 1)
    PROVE  SlotsOK'
<1>1. UNCHANGED <<nodes, groups, slots, slotOf>> /\ Ids' = Ids
  BY RegionStays DEF region, plan
<1>2. \A v : /\ (NeedsSlot(v)' <=> NeedsSlot(v)) /\ Reusable(v)' = Reusable(v)
             /\ (Tensor(v)' <=> Tensor(v)) /\ Root(v)' = Root(v)
             /\ \A r : Overlaps(v, r)' <=> Overlaps(v, r)
  BY <1>1, GroupsStay, RegionStays
<1>3. \A r : NeedsSlot(r) => (r \in 1..AssignedTo' <=> r \in 1..AssignedTo)
  OBVIOUS
<1>4. ASSUME NEW s \in DOMAIN slots PROVE SlotOK(s)'
  <2>1. SlotOK(s)
    BY DEF SlotsOK
  <2>2. \A r \in slots[s].roots :
            /\ r \in 1..AssignedTo' /\ NeedsSlot(r)' /\ slotOf[r] = s
            /\ slots[s].shape = nodes[r].shape /\ slots[s].reusable = Reusable(r)'
            /\ slots[s].external = (nodes[r].op = "Input")
    BY <1>2, <1>3, <2>1 DEF SlotOK
  <2>3. \A q, r \in slots[s].roots : q # r => slots[s].reusable /\ ~Overlaps(q, r)'
    BY <1>2, <2>1 DEF SlotOK
  <2> QED
    BY <1>1, <2>1, <2>2, <2>3 DEF SlotOK
<1>5. \A v \in Ids : Tensor(v)' => slotOf[v] = slotOf[Root(v)']
  BY <1>2 DEF SlotsOK
<1>6. \A r \in 1..AssignedTo' : NeedsSlot(r)' =>
        slotOf[r] \in DOMAIN slots /\ r \in slots[slotOf[r]].roots
  BY <1>2, <1>3 DEF SlotsOK
<1>7. ASSUME NEW v \in Ids, (~(Tensor(v) /\ Root(v) <= AssignedTo /\ NeedsSlot(Root(v))))'
      PROVE  slotOf[v] = 0
  <2>1. PICK r : r = Root(v)
    OBVIOUS
  <2>2. r = Root(v)' /\ (NeedsSlot(r)' <=> NeedsSlot(r)) /\ (Tensor(v)' <=> Tensor(v))
    BY <1>2, <2>1
  <2>3. NeedsSlot(Root(v))' <=> NeedsSlot(r)'
    BY <2>2 DEF NeedsSlot, Tensor, Root, Materialized, FusedIntermediate, Zero
  <2>4. r \in Nat
    BY <2>1, SequenceFacts DEF RegionOK, NodeOK, Ids
  <2>5. ~(Tensor(v) /\ r <= AssignedTo /\ NeedsSlot(r))
    BY <1>3, <1>7, <2>2, <2>3, <2>4
  <2> QED
    BY <2>1, <2>5 DEF SlotsOK
<1> QED
  BY <1>1, <1>4, <1>5, <1>6, <1>7 DEF SlotsOK

\* A sequence with one entry changed.
LEMMA ExceptFacts ==
    ASSUME NEW s, Sequence(s), NEW i \in DOMAIN s, NEW x
    PROVE  /\ Sequence([s EXCEPT ![i] = x]) /\ DOMAIN [s EXCEPT ![i] = x] = DOMAIN s
           /\ [s EXCEPT ![i] = x][i] = x
           /\ \A j \in DOMAIN s : j # i => [s EXCEPT ![i] = x][j] = s[j]
<1>1. PICK S : s \in Seq(S)
  BY DEF Sequence
<1>2. s \in Seq(S \cup {x}) /\ i \in 1..Len(s)
  BY <1>1, LenProperties
<1>3. [s EXCEPT ![i] = x] \in Seq(S \cup {x})
  BY <1>2, ExceptSeq
<1> QED
  BY <1>3 DEF Sequence

\* Root p joins the roots of slot c, a new one when it had none.
SlotTaken(c, old, p) ==
    /\ slotOf' = [v \in Ids |-> IF Tensor(v) /\ Root(v) = p THEN c ELSE slotOf[v]]
    /\ Sequence(slots') /\ c \in DOMAIN slots' /\ DOMAIN slots' = DOMAIN slots \cup {c}
    /\ \A s \in DOMAIN slots : s # c => slots'[s] = slots[s]
    /\ \E a, d, e : slots'[c] = [shape |-> a, roots |-> old \cup {p}, external |-> d, reusable |-> e]
    /\ \/ /\ old = {} /\ c \notin DOMAIN slots
          /\ slots'[c].shape = nodes[p].shape /\ slots'[c].reusable = Reusable(p)
          /\ slots'[c].external = (nodes[p].op = "Input")
       \/ /\ c \in DOMAIN slots /\ old = slots[c].roots /\ Reusable(p) /\ Compatible(c, p)
          /\ slots'[c].shape = slots[c].shape /\ slots'[c].reusable = slots[c].reusable
          /\ slots'[c].external = slots[c].external

\* The slot a root is given: the first of those that can take it, or a new one.
LEMMA AssignChooses ==
    ASSUME SlotsOK, Assign, NEW p, p = pos, NeedsSlot(p)
    PROVE  \E c, old : SlotTaken(c, old, p)
<1>1. PICK T : T = {s \in DOMAIN slots : Reusable(p) /\ Compatible(s, p)}
  OBVIOUS
<1>2. Sequence(slots) /\ Len(slots) \in Nat /\ DOMAIN slots = 1..Len(slots)
  BY SequenceFacts DEF SlotsOK
<1>3. CASE T = {}
  <2>1. PICK c, old, n :
        /\ c = Len(slots) + 1 /\ old = {}
        /\ n = [shape |-> nodes[p].shape, roots |-> old \cup {p},
                external |-> nodes[p].op = "Input", reusable |-> Reusable(p)]
    OBVIOUS
  <2>2. slotOf' = [v \in Ids |-> IF Tensor(v) /\ Root(v) = p THEN c ELSE slotOf[v]]
    BY <1>1, <1>3, <2>1 DEF Assign, NewSlot
  <2>3. slots' = Append(slots, n)
    <3>1. slots' = Append(slots, [shape |-> nodes[p].shape, roots |-> {p},
                                  external |-> nodes[p].op = "Input",
                                  reusable |-> Reusable(p)])
      BY <1>1, <1>3 DEF Assign
    <3>2. {p} = old \cup {p}
      BY <2>1
    <3> QED
      BY <2>1, <3>1, <3>2
  <2>4. Sequence(slots') /\ DOMAIN slots' = 1..c /\ slots'[c] = n
        /\ \A s \in DOMAIN slots : slots'[s] = slots[s]
    BY <1>2, <2>1, <2>3, AppendFacts
  <2>5. c \in DOMAIN slots' /\ DOMAIN slots' = DOMAIN slots \cup {c} /\ c \notin DOMAIN slots
    BY <1>2, <2>1, <2>4
  <2>6. /\ n.shape = nodes[p].shape /\ n.reusable = Reusable(p)
        /\ n.external = (nodes[p].op = "Input")
    BY <2>1
  <2>7. \E a, d, e : n = [shape |-> a, roots |-> old \cup {p}, external |-> d, reusable |-> e]
    BY <2>1
  <2>8. /\ Sequence(slots') /\ c \in DOMAIN slots' /\ DOMAIN slots' = DOMAIN slots \cup {c}
        /\ \A s \in DOMAIN slots : s # c => slots'[s] = slots[s]
        /\ \E a, d, e : slots'[c] = [shape |-> a, roots |-> old \cup {p}, external |-> d, reusable |-> e]
    BY <2>4, <2>5, <2>7
  <2>9. /\ old = {} /\ c \notin DOMAIN slots
        /\ slots'[c].shape = nodes[p].shape /\ slots'[c].reusable = Reusable(p)
        /\ slots'[c].external = (nodes[p].op = "Input")
    BY <2>1, <2>4, <2>5, <2>6
  <2>10. SlotTaken(c, old, p)
    BY <2>2, <2>8, <2>9 DEF SlotTaken
  <2> QED
    BY <2>10
<1>4. CASE T # {}
  <2>1. PICK c : c = CHOOSE s \in T : \A t \in T : s <= t
    OBVIOUS
  <2>2. c \in T
    <3>1. T \subseteq Nat
      BY <1>1, <1>2
    <3>2. \E s \in T : \A t \in T : s <= t
      BY <1>4, <3>1, Least
    <3> QED
      BY <2>1, <3>2
  <2>3. slotOf' = [v \in Ids |-> IF Tensor(v) /\ Root(v) = p THEN c ELSE slotOf[v]]
    BY <1>1, <1>4, <2>1 DEF Assign
  <2>4. PICK old, n : old = slots[c].roots /\ n = [slots[c] EXCEPT !.roots = old \cup {p}]
    OBVIOUS
  <2>5. slots' = [slots EXCEPT ![c] = n]
    <3>1. slots' = [slots EXCEPT ![c].roots = @ \cup {p}]
      BY <1>1, <1>4, <2>1 DEF Assign
    <3> QED
      BY <2>4, <3>1
  <2>6. c \in DOMAIN slots /\ Reusable(p) /\ Compatible(c, p)
    BY <1>1, <2>2
  <2>7. Sequence(slots') /\ DOMAIN slots' = DOMAIN slots /\ slots'[c] = n
        /\ \A s \in DOMAIN slots : s # c => slots'[s] = slots[s]
    BY <1>2, <2>5, <2>6, ExceptFacts
  <2>8. PICK a, b, d, e : slots[c] = [shape |-> a, roots |-> b, external |-> d, reusable |-> e]
    BY <2>6 DEF SlotsOK, SlotOK
  <2>9. n = [shape |-> a, roots |-> old \cup {p}, external |-> d, reusable |-> e]
    BY <2>4, <2>8
  <2>10. n.shape = slots[c].shape /\ n.reusable = slots[c].reusable
         /\ n.external = slots[c].external
    BY <2>8, <2>9
  <2>11. DOMAIN slots' = DOMAIN slots \cup {c} /\ c \in DOMAIN slots'
    BY <2>6, <2>7
  <2>12. SlotTaken(c, old, p)
    BY <2>3, <2>4, <2>6, <2>7, <2>9, <2>10, <2>11 DEF SlotTaken
  <2> QED
    BY <2>12
<1> QED
  BY <1>3, <1>4

\* assignSlots: a slot's roots have lifetimes apart, and every root so far has its slot.
LEMMA AssignKeepsSlots ==
    ASSUME RegionOK, PhaseOK, SlotsOK, Assign
    PROVE  SlotsOK' /\ AssignedTo' = AssignedTo + 1
<1>1. /\ phase = "assign" /\ pos \in Ids /\ Len(nodes) \in Nat /\ Ids = 1..Len(nodes)
      /\ UNCHANGED <<region, groups, nodes>> /\ Ids' = Ids
  BY SequenceFacts, RegionStays DEF PhaseOK, Planned, Assign, RegionOK, Ids, region
<1>2. AssignedTo \in Nat /\ pos = AssignedTo + 1 /\ AssignedTo' = AssignedTo + 1
  <2>1. AssignedTo = pos - 1
    BY <1>1 DEF AssignedTo
  <2>2. CASE pos = Len(nodes)
    BY <1>1, <2>1, <2>2 DEF AssignedTo, Assign, NextNode
  <2>3. CASE pos # Len(nodes)
    BY <1>1, <2>1, <2>3 DEF AssignedTo, Assign, NextNode
  <2> QED
    BY <2>2, <2>3
<1>3. CASE ~NeedsSlot(pos)
  <2>1. UNCHANGED <<region, plan>>
    BY <1>1, <1>3 DEF Assign, plan
  <2>2. ~NeedsSlot(AssignedTo + 1)
    BY <1>2, <1>3
  <2> QED
    BY <1>2, <2>1, <2>2, SlotsStay
<1>4. CASE NeedsSlot(pos)
  <2>1. PICK p : p = pos
    OBVIOUS
  <2>16. PICK c, old : SlotTaken(c, old, p)
    BY <1>4, <2>1, AssignChooses
  <2>2. /\ slotOf' = [v \in Ids |-> IF Tensor(v) /\ Root(v) = p THEN c ELSE slotOf[v]]
        /\ Sequence(slots') /\ c \in DOMAIN slots' /\ DOMAIN slots' = DOMAIN slots \cup {c}
        /\ \A s \in DOMAIN slots : s # c => slots'[s] = slots[s]
        /\ \E a, d, e : slots'[c] = [shape |-> a, roots |-> old \cup {p}, external |-> d, reusable |-> e]
        /\ \/ /\ old = {} /\ c \notin DOMAIN slots
              /\ slots'[c].shape = nodes[p].shape /\ slots'[c].reusable = Reusable(p)
              /\ slots'[c].external = (nodes[p].op = "Input")
           \/ /\ c \in DOMAIN slots /\ old = slots[c].roots /\ Reusable(p) /\ Compatible(c, p)
              /\ slots'[c].shape = slots[c].shape /\ slots'[c].reusable = slots[c].reusable
              /\ slots'[c].external = slots[c].external
    BY <2>16 DEF SlotTaken
  <2>3. \A v : /\ (NeedsSlot(v)' <=> NeedsSlot(v)) /\ Reusable(v)' = Reusable(v)
               /\ (Tensor(v)' <=> Tensor(v)) /\ Root(v)' = Root(v)
               /\ \A r : Overlaps(v, r)' <=> Overlaps(v, r)
    BY <1>1, GroupsStay, RegionStays
  <2>4. p \in Ids /\ p = AssignedTo + 1 /\ p \in Nat /\ NeedsSlot(p) /\ Tensor(p) /\ Root(p) = p
    BY <1>1, <1>2, <1>4, <2>1 DEF NeedsSlot
  <2>5. slots'[c].roots = old \cup {p}
    BY <2>2
  <2>6. slotOf'[p] = c
    BY <2>2, <2>4
  <2>7. \A r \in 1..AssignedTo : NeedsSlot(r) => r # p /\ r \in Ids /\ slotOf'[r] = slotOf[r]
    <3>1. \A r \in 1..AssignedTo : r # p /\ r \in Ids
      BY <1>1, <1>2, <2>4
    <3>2. \A r : NeedsSlot(r) => Root(r) = r
      BY DEF NeedsSlot
    <3> QED
      BY <2>2, <3>1, <3>2
  <2>8. \A s \in DOMAIN slots : \A r \in slots[s].roots :
            r \in 1..AssignedTo' /\ NeedsSlot(r)' /\ slotOf'[r] = s /\ r # p
    BY <1>2, <2>3, <2>7 DEF SlotsOK, SlotOK
  <2>9. ASSUME NEW s \in DOMAIN slots, s # c PROVE SlotOK(s)'
    <3>1. SlotOK(s) /\ slots'[s] = slots[s]
      BY <2>2, <2>9 DEF SlotsOK
    <3>2. \A r \in slots'[s].roots :
              /\ r \in 1..AssignedTo' /\ NeedsSlot(r)' /\ slotOf'[r] = s
              /\ slots'[s].shape = nodes'[r].shape /\ slots'[s].reusable = Reusable(r)'
              /\ slots'[s].external = (nodes'[r].op = "Input")
      BY <1>1, <2>3, <2>8, <3>1 DEF SlotOK
    <3>3. \A q, r \in slots'[s].roots : q # r => slots'[s].reusable /\ ~Overlaps(q, r)'
      BY <2>3, <3>1 DEF SlotOK
    <3>4. slots'[s].roots # {}
          /\ \E a, b, d, e : slots'[s] = [shape |-> a, roots |-> b, external |-> d, reusable |-> e]
      <4>1. PICK a, b, d, e : slots[s] = [shape |-> a, roots |-> b, external |-> d, reusable |-> e]
        BY <3>1 DEF SlotOK
      <4>2. slots'[s] = [shape |-> a, roots |-> b, external |-> d, reusable |-> e]
        BY <3>1, <4>1
      <4>3. slots'[s].roots # {}
        BY <3>1 DEF SlotOK
      <4> QED
        BY <4>2, <4>3
    <3> QED
      BY <3>2, <3>3, <3>4 DEF SlotOK
  <2>10. SlotOK(c)'
    <3>1. CASE old = {} /\ c \notin DOMAIN slots
      <4>1. \A r \in slots'[c].roots : r = p
        BY <2>5, <3>1
      <4>2. slots'[c].shape = nodes[p].shape /\ slots'[c].reusable = Reusable(p)'
            /\ slots'[c].external = (nodes[p].op = "Input")
        BY <2>2, <2>3, <3>1
      <4>3. p \in 1..AssignedTo' /\ NeedsSlot(p)'
        BY <1>2, <2>3, <2>4
      <4> QED
        BY <1>1, <2>2, <2>5, <2>6, <4>1, <4>2, <4>3 DEF SlotOK
    <3>2. CASE /\ c \in DOMAIN slots /\ old = slots[c].roots /\ Reusable(p) /\ Compatible(c, p)
               /\ slots'[c].shape = slots[c].shape /\ slots'[c].reusable = slots[c].reusable
               /\ slots'[c].external = slots[c].external
      <4>1. SlotOK(c) /\ slots[c].reusable /\ slots[c].shape = nodes[p].shape
            /\ \A q \in old : ~Overlaps(q, p)
        BY <3>2 DEF SlotsOK, Compatible
      <4>2. PICK r \in old : Reusable(r) /\ slots[c].external = (nodes[r].op = "Input")
                            /\ slots[c].reusable = Reusable(r)
        BY <3>2, <4>1 DEF SlotOK
      <4>3. nodes[r].op # "Input" /\ nodes[p].op # "Input"
        BY <3>2, <4>2 DEF Reusable
      <4>4. Reusable(p) = Reusable(r)
        BY <3>2, <4>2 DEF Reusable
      <4>5. \A q \in old \cup {p} :
              /\ q \in 1..AssignedTo' /\ NeedsSlot(q)' /\ slotOf'[q] = c
              /\ slots[c].shape = nodes[q].shape /\ slots[c].reusable = Reusable(q)'
              /\ slots[c].external = (nodes[q].op = "Input")
        <5>1. ASSUME NEW q \in old
              PROVE /\ q \in 1..AssignedTo' /\ NeedsSlot(q)' /\ slotOf'[q] = c
                    /\ slots[c].shape = nodes[q].shape /\ slots[c].reusable = Reusable(q)'
                    /\ slots[c].external = (nodes[q].op = "Input")
          BY <2>3, <2>8, <3>2, <4>1 DEF SlotOK
        <5>2. /\ p \in 1..AssignedTo' /\ NeedsSlot(p)' /\ slotOf'[p] = c
              /\ slots[c].shape = nodes[p].shape
          BY <1>2, <2>3, <2>4, <2>6, <4>1
        <5>4. slots[c].reusable = Reusable(p)'
          BY <2>3, <4>2, <4>4
        <5>3. slots[c].external = (nodes[p].op = "Input")
          BY <4>2, <4>3
        <5> QED
          BY <5>1, <5>2, <5>3, <5>4
      <4>6. \A q, r2 : Overlaps(q, r2) <=> Overlaps(r2, q)
        BY DEF Overlaps
      <4>7. \A q, r2 \in old \cup {p} : q # r2 => slots[c].reusable /\ ~Overlaps(q, r2)'
        <5>1. ASSUME NEW q \in old \cup {p}, NEW r2 \in old \cup {p}, q # r2
              PROVE  ~Overlaps(q, r2)
          <6>1. CASE q = p \/ r2 = p
            BY <4>1, <4>6, <5>1, <6>1
          <6>2. CASE q \in old /\ r2 \in old
            BY <3>2, <4>1, <5>1, <6>2 DEF SlotOK
          <6> QED
            BY <5>1, <6>1, <6>2
        <5> QED
          BY <2>3, <4>1, <5>1
      <4> QED
        BY <1>1, <2>2, <2>5, <3>2, <4>5, <4>7 DEF SlotOK
    <3> QED
      BY <2>2, <3>1, <3>2
  <2>11. \A v \in Ids : Tensor(v)' => slotOf'[v] = slotOf'[Root(v)']
    <3>1. ASSUME NEW v \in Ids, Tensor(v) PROVE slotOf'[v] = slotOf'[Root(v)]
      <4>1. Root(v) \in Ids /\ Tensor(Root(v)) /\ Root(Root(v)) = Root(v)
            /\ slotOf[v] = slotOf[Root(v)]
        BY <1>1, <3>1 DEF RegionOK, NodeOK, SlotsOK
      <4> QED
        BY <2>2, <3>1, <4>1
    <3> QED
      BY <2>3, <3>1
  <2>12. \A r \in 1..AssignedTo' : NeedsSlot(r)' =>
            slotOf'[r] \in DOMAIN slots' /\ r \in slots'[slotOf'[r]].roots
    <3>1. ASSUME NEW r \in 1..AssignedTo, NeedsSlot(r)
          PROVE  slotOf'[r] \in DOMAIN slots' /\ r \in slots'[slotOf'[r]].roots
      <4>1. slotOf'[r] = slotOf[r] /\ slotOf[r] \in DOMAIN slots /\ r \in slots[slotOf[r]].roots
        BY <2>7, <3>1 DEF SlotsOK
      <4>2. slotOf[r] = c => slots[slotOf[r]].roots = old
        BY <2>2, <4>1
      <4> QED
        BY <2>2, <2>5, <4>1, <4>2
    <3>2. slotOf'[p] \in DOMAIN slots' /\ p \in slots'[slotOf'[p]].roots
      BY <2>2, <2>5, <2>6
    <3>3. \A r \in 1..AssignedTo' : r = p \/ r \in 1..AssignedTo
      BY <1>2, <2>4
    <3> QED
      BY <2>3, <3>1, <3>2, <3>3
  <2>13. ASSUME NEW v \in Ids, (~(Tensor(v) /\ Root(v) <= AssignedTo /\ NeedsSlot(Root(v))))'
         PROVE  slotOf'[v] = 0
    <3>1. PICK r : r = Root(v)
      OBVIOUS
    <3>2. r = Root(v)' /\ (NeedsSlot(r)' <=> NeedsSlot(r)) /\ (Tensor(v)' <=> Tensor(v))
      BY <2>3, <3>1
    <3>3. NeedsSlot(Root(v))' <=> NeedsSlot(r)'
      BY <3>2 DEF NeedsSlot, Tensor, Root, Materialized, FusedIntermediate, Zero
    <3>4. r \in Nat
      BY <1>1, <3>1 DEF RegionOK, NodeOK
    <3>5. ~(Tensor(v) /\ r <= AssignedTo + 1 /\ NeedsSlot(r))
      BY <1>2, <2>13, <3>2, <3>3, <3>4
    <3>6. ~(Tensor(v) /\ r = p) /\ ~(Tensor(v) /\ r <= AssignedTo /\ NeedsSlot(r))
      BY <1>2, <2>4, <3>4, <3>5
    <3>7. slotOf[v] = 0
      BY <3>1, <3>6 DEF SlotsOK
    <3> QED
      BY <2>2, <3>1, <3>6, <3>7
  <2>14. \A s \in DOMAIN slots' : s \in DOMAIN slots \/ s = c
    BY <2>2
  <2>15. ASSUME NEW s \in DOMAIN slots' PROVE SlotOK(s)'
    BY <2>9, <2>10, <2>14
  <2> QED
    BY <1>1, <1>2, <2>2, <2>11, <2>12, <2>13, <2>15 DEF SlotsOK
<1> QED
  BY <1>3, <1>4

-----------------------------------------------------------------------------
\* Two roots in one slot are reusable, and their lifetimes are apart.
LEMMA SharedSlot ==
    ASSUME RegionOK, SlotsOK, AssignedTo = Len(nodes),
           NEW q \in Ids, NEW r \in Ids, q # r, Tensor(q), Tensor(r), Root(q) = q, Root(r) = r,
           slotOf[q] = slotOf[r], slotOf[r] # 0
    PROVE  options.reuse /\ ~Retained(q) /\ ~Retained(r) /\ ~Overlaps(q, r)
<1>1. Len(nodes) \in Nat /\ Ids = 1..Len(nodes)
  BY SequenceFacts DEF RegionOK, Ids
<1>2. NeedsSlot(q) /\ NeedsSlot(r)
  BY <1>1 DEF SlotsOK
<1>3. PICK s : s = slotOf[r]
  OBVIOUS
<1>4. s \in DOMAIN slots /\ q \in slots[s].roots /\ r \in slots[s].roots
  BY <1>1, <1>2, <1>3 DEF SlotsOK
<1>5. SlotOK(s)
  BY <1>4 DEF SlotsOK
<1>6. slots[s].reusable /\ ~Overlaps(q, r)
  BY <1>4, <1>5 DEF SlotOK
<1>7. slots[s].reusable = Reusable(q) /\ slots[s].reusable = Reusable(r)
  BY <1>4, <1>5 DEF SlotOK
<1>8. Reusable(q) /\ Reusable(r)
  BY <1>6, <1>7
<1> QED
  BY <1>6, <1>8 DEF Reusable

\* A root with bytes that no group keeps in a register has a slot.
LEMMA RootHasSlot ==
    ASSUME RegionOK, SlotsOK, AssignedTo = Len(nodes),
           NEW r \in Ids, Tensor(r), Root(r) = r, ~FusedIntermediate(r), ~Zero(r)
    PROVE  slotOf[r] \in DOMAIN slots /\ slotOf[r] # 0
<1>1. Len(nodes) \in Nat /\ Ids = 1..Len(nodes) /\ Len(slots) \in Nat /\ DOMAIN slots = 1..Len(slots)
  BY SequenceFacts DEF RegionOK, SlotsOK, Ids
<1>2. NeedsSlot(r)
  BY DEF NeedsSlot, Materialized
<1>3. slotOf[r] \in DOMAIN slots
  BY <1>1, <1>2 DEF SlotsOK
<1> QED
  BY <1>1, <1>3

\* verifyPhysicalPlan finds nothing wrong.
LEMMA PlanPasses ==
    ASSUME RegionOK, SlotsOK, AssignedTo = Len(nodes)
    PROVE  PlanVerifies
<1>1. Len(nodes) \in Nat /\ Ids = 1..Len(nodes) /\ Len(slots) \in Nat /\ DOMAIN slots = 1..Len(slots)
  BY SequenceFacts DEF RegionOK, SlotsOK, Ids
<1>2. ASSUME NEW s \in DOMAIN slots PROVE SlotVerifies(s)
  <2>1. SlotOK(s)
    BY DEF SlotsOK
  <2>2. \A q, r \in slots[s].roots : q # r => ~Overlaps(q, r)
    BY <2>1 DEF SlotOK
  <2>3. PICK r \in slots[s].roots : TRUE
    BY <2>1 DEF SlotOK
  <2>4. slots[s].reusable = Reusable(r) /\ slots[s].external = (nodes[r].op = "Input")
    BY <2>1 DEF SlotOK
  <2>5. ~(slots[s].external /\ slots[s].reusable)
    BY <2>4 DEF Reusable
  <2>6. ASSUME ~slots[s].reusable PROVE Cardinality(slots[s].roots) = 1
    <3>1. slots[s].roots = {r}
      BY <2>1, <2>3, <2>6 DEF SlotOK
    <3> QED
      BY <3>1, FS_Singleton
  <2>7. Cardinality(slots[s].roots) > 1 => slots[s].reusable
    BY <2>6
  <2>8. ASSUME NEW q \in slots[s].roots
        PROVE /\ slots[s].shape = nodes[q].shape
              /\ (q = output \/ q \in protected) => ~slots[s].reusable /\ Cardinality(slots[s].roots) = 1
              /\ slots[s].reusable = Reusable(q)
              /\ slots[s].external = (nodes[q].op = "Input")
    <3>1. /\ slots[s].shape = nodes[q].shape /\ slots[s].reusable = Reusable(q)
          /\ slots[s].external = (nodes[q].op = "Input") /\ NeedsSlot(q) /\ q \in 1..AssignedTo
      BY <2>1 DEF SlotOK
    <3>2. ASSUME q = output \/ q \in protected PROVE ~slots[s].reusable
      <4>1. q \in Ids /\ Root(q) = q
        BY <1>1, <3>1 DEF NeedsSlot
      <4>2. Retained(q)
        BY <3>2, <4>1 DEF Retained
      <4> QED
        BY <3>1, <4>2 DEF Reusable
    <3> QED
      BY <2>6, <3>1, <3>2
  <2> QED
    BY <2>2, <2>5, <2>7, <2>8 DEF SlotVerifies
<1>3. ASSUME NEW v \in Ids, Tensor(v)
      PROVE  (slotOf[v] # 0) <=> (Materialized(v) /\ ~Zero(v))
  <2>1. PICK r : r = Root(v)
    OBVIOUS
  <2>2. r \in Ids /\ Tensor(r) /\ Root(r) = r /\ nodes[v].shape = nodes[r].shape /\ r <= Len(nodes)
    BY <1>1, <1>3, <2>1 DEF RegionOK, NodeOK
  <2>3. slotOf[v] = slotOf[r]
    BY <1>3, <2>1 DEF SlotsOK
  <2>4. (Materialized(v) /\ ~Zero(v)) <=> (~FusedIntermediate(r) /\ ~Zero(r))
    BY <2>1, <2>2 DEF Materialized, Zero
  <2>5. (~FusedIntermediate(r) /\ ~Zero(r)) => slotOf[r] # 0
    BY <2>2, RootHasSlot
  <2>6. ~(~FusedIntermediate(r) /\ ~Zero(r)) => slotOf[r] = 0
    BY <2>2 DEF SlotsOK, NeedsSlot, Materialized
  <2> QED
    BY <2>3, <2>4, <2>5, <2>6
<1> QED
  BY <1>2, <1>3 DEF PlanVerifies

-----------------------------------------------------------------------------
\* The group a node is in.
LEMMA GroupOfMember ==
    ASSUME GroupsOK, NEW i \in DOMAIN groups, NEW j \in DOMAIN groups[i]
    PROVE  GroupOf(groups[i][j]) = groups[i]
<1>1. PICK v, G : v = groups[i][j] /\ G = {groups[h] : h \in DOMAIN groups}
  OBVIOUS
<1>2. groups[i] \in G /\ v \in {groups[i][k] : k \in DOMAIN groups[i]}
  BY <1>1
<1>3. PICK g : g = GroupOf(v)
  OBVIOUS
<1>4. g \in G /\ v \in {g[k] : k \in DOMAIN g}
  BY <1>1, <1>2, <1>3 DEF GroupOf
<1>5. PICK h \in DOMAIN groups : g = groups[h]
  BY <1>1, <1>4
<1>6. PICK k \in DOMAIN groups[h] : groups[h][k] = v
  BY <1>4, <1>5
<1>7. h = i
  BY <1>1, <1>6 DEF GroupsOK, Member
<1> QED
  BY <1>1, <1>3, <1>5, <1>7

\* Once groups are made, every kernel operation has its group.
LEMMA GroupOfKernel ==
    ASSUME RegionOK, GroupsOK, FusedTo = Len(nodes), NEW v \in Ids, KernelOp(v)
    PROVE  \E i \in DOMAIN groups : \E j \in DOMAIN groups[i] :
                groups[i][j] = v /\ GroupOf(v) = groups[i]
<1>1. v \in 1..FusedTo
  BY DEF Ids
<1>2. PICK i, j : Member(i, j) /\ groups[i][j] = v
  BY <1>1 DEF GroupsOK
<1>3. GroupOf(groups[i][j]) = groups[i]
  BY <1>2, GroupOfMember DEF Member
<1> QED
  BY <1>2, <1>3 DEF Member

\* What a group keeps in a register is read by the group's next node only.
LEMMA IntermediateFacts ==
    ASSUME GroupsOK, NEW r, FusedIntermediate(r)
    PROVE  \E i \in DOMAIN groups : \E j \in DOMAIN groups[i] :
                /\ groups[i][j] = r /\ j + 1 \in DOMAIN groups[i]
                /\ Linked(r, groups[i][j + 1], groups[i][1])
<1>1. PICK i \in DOMAIN groups : \E j \in 1..(Len(groups[i]) - 1) : groups[i][j] = r
  BY DEF FusedIntermediate
<1>2. PICK j \in 1..(Len(groups[i]) - 1) : groups[i][j] = r
  BY <1>1
<1>3. DOMAIN groups[i] = 1..Len(groups[i]) /\ Len(groups[i]) \in Nat /\ GroupOK(i)
  BY MemberFacts DEF GroupsOK
<1>4. PICK k : k = j + 1
  OBVIOUS
<1>5. j \in DOMAIN groups[i] /\ k \in DOMAIN groups[i] /\ k > 1 /\ k - 1 = j
  BY <1>3, <1>4
<1>6. Linked(groups[i][k - 1], groups[i][k], groups[i][1])
  BY <1>3, <1>5 DEF GroupOK
<1> QED
  BY <1>2, <1>4, <1>5, <1>6

\* Whatever step pos reads is an earlier root outside every register, read at pos or later.
LEMMA ReadsFacts ==
    ASSUME RegionOK, GroupsOK, FusedTo = Len(nodes), pos \in Ids, NEW r \in Reads
    PROVE  /\ r \in Ids /\ r < pos /\ Tensor(r) /\ Root(r) = r /\ nodes[r].op # "Alias"
           /\ ~FusedIntermediate(r)
           /\ \E u \in Ids : pos <= u /\ ReadsRoot(u, r) # {}
<1>1. Len(nodes) \in Nat /\ Ids = 1..Len(nodes)
  BY SequenceFacts DEF RegionOK, Ids
<1>2. CASE Elementwise(pos)
  <2>1. Group[1] = pos /\ r \in GroupInputs(Group)
    BY <1>2 DEF Reads, Elementwise
  <2>2. PICK n \in DOMAIN groups : Group = groups[n]
    BY <1>2, GroupOfKernel DEF KernelOp, Group
  <2>3. PICK i \in DOMAIN groups[n] : ReadsRoot(groups[n][i], r) # {}
    BY <2>1, <2>2 DEF GroupInputs
  <2>4. \A k \in DOMAIN groups[n] : groups[n][k] # r
    BY <2>1, <2>2 DEF GroupInputs
  <2>5. PICK u : u = groups[n][i]
    OBVIOUS
  <2>6. DOMAIN groups[n] = 1..Len(groups[n]) /\ Len(groups[n]) \in Nat \ {0} /\ GroupOK(n)
    BY MemberFacts DEF GroupsOK
  <2>7. u \in Ids /\ KernelOp(u) /\ pos <= u /\ groups[n][1] = pos
    BY <1>1, <2>1, <2>2, <2>5, <2>6 DEF GroupOK
  <2>8. /\ r \in Ids /\ r \in 1..(u - 1) /\ Root(r) = r /\ Tensor(r) /\ nodes[r].op # "Alias"
    BY <2>3, <2>5, <2>7, ReadsAreRoots
  <2>9. r < pos
    <3>1. CASE i = 1
      BY <1>1, <2>5, <2>7, <2>8, <3>1
    <3>2. CASE i # 1
      <4>1. i > 1 /\ i - 1 \in DOMAIN groups[n]
        BY <2>6, <3>2
      <4>2. PICK t : t = groups[n][i - 1]
        OBVIOUS
      <4>3. Linked(t, u, pos) /\ t # r
        BY <2>4, <2>5, <2>6, <2>7, <4>1, <4>2 DEF GroupOK
      <4>4. PICK k \in DOMAIN Deps(u) : Root(Deps(u)[k]) = r
        BY <2>3, <2>5 DEF ReadsRoot
      <4>5. r <= pos
        BY <4>3, <4>4 DEF Linked, OperandsReady
      <4>6. r # pos
        BY <2>4, <2>6, <2>7
      <4> QED
        BY <1>1, <2>8, <4>5, <4>6
    <3> QED
      BY <3>1, <3>2
  <2>10. nodes[u].op # "Alias"
    BY <2>7 DEF KernelOp, Elementwise
  <2>11. ASSUME FusedIntermediate(r) PROVE FALSE
    <3>1. PICK h \in DOMAIN groups : \E j \in DOMAIN groups[h] :
                /\ groups[h][j] = r /\ j + 1 \in DOMAIN groups[h]
                /\ Linked(r, groups[h][j + 1], groups[h][1])
      BY <2>11, IntermediateFacts
    <3>2. PICK j \in DOMAIN groups[h] :
                /\ groups[h][j] = r /\ j + 1 \in DOMAIN groups[h]
                /\ Linked(r, groups[h][j + 1], groups[h][1])
      BY <3>1
    <3>3. groups[h][j + 1] = groups[n][i]
      BY <2>3, <2>5, <2>7, <2>10, <3>2 DEF Linked
    <3>4. h = n
      BY <3>2, <3>3 DEF GroupsOK, Member
    <3> QED
      BY <2>4, <3>2, <3>4
  <2> QED
    BY <2>3, <2>5, <2>7, <2>8, <2>9, <2>11
<1>3. CASE ~Elementwise(pos)
  <2>1. nodes[pos].op \in {"Copy", "Index"} /\ r = Root(Deps(pos)[1])
    BY <1>3 DEF Reads
  <2>2. 1 \in DOMAIN Deps(pos)
    BY <2>1 DEF RegionOK, NodeOK
  <2>3. ReadsRoot(pos, r) # {}
    BY <2>1, <2>2 DEF ReadsRoot
  <2>4. /\ r \in Ids /\ r \in 1..(pos - 1) /\ Root(r) = r /\ Tensor(r) /\ nodes[r].op # "Alias"
    BY <2>3, ReadsAreRoots
  <2>5. ASSUME FusedIntermediate(r) PROVE FALSE
    <3>1. PICK h, j : Linked(r, groups[h][j + 1], groups[h][1])
      BY <2>5, IntermediateFacts
    <3>2. groups[h][j + 1] = pos /\ Elementwise(groups[h][j + 1])
      BY <2>1, <2>3, <3>1 DEF Linked
    <3> QED
      BY <1>3, <3>2
  <2> QED
    BY <1>1, <2>3, <2>4, <2>5
<1> QED
  BY <1>2, <1>3

\* A position is a number.
LEMMA StartFacts ==
    ASSUME RegionOK, GroupsOK, FusedTo = Len(nodes), NEW v \in Ids
    PROVE  Start(v) \in Nat \ {0} /\ Start(v) <= v /\ (SequentialGroups /\ ~options.fusion => Start(v) = v)
<1>1. Len(nodes) \in Nat /\ Ids = 1..Len(nodes)
  BY SequenceFacts DEF RegionOK, Ids
<1>2. CASE ~Elementwise(v)
  BY <1>1, <1>2 DEF Start
<1>3. CASE Elementwise(v)
  <2>1. PICK i \in DOMAIN groups : \E j \in DOMAIN groups[i] :
                groups[i][j] = v /\ GroupOf(v) = groups[i]
    BY <1>3, GroupOfKernel DEF KernelOp
  <2>2. PICK j \in DOMAIN groups[i] : groups[i][j] = v
    BY <2>1
  <2>3. Start(v) = groups[i][1]
    BY <1>3, <2>1 DEF Start
  <2>4. GroupOK(i) /\ 1 \in DOMAIN groups[i] /\ DOMAIN groups[i] = 1..Len(groups[i])
    BY MemberFacts DEF GroupsOK
  <2>5. groups[i][1] \in 1..FusedTo /\ groups[i][1] <= v
    BY <2>2, <2>4 DEF GroupOK
  <2>6. ASSUME SequentialGroups, ~options.fusion PROVE j = 1
    <3>1. Len(groups[i]) = 1
      BY <2>6 DEF SequentialGroups
    <3>2. j \in 1..1
      BY <2>2, <2>4, <3>1
    <3> QED
      BY <3>2
  <2> QED
    BY <1>1, <2>2, <2>3, <2>5, <2>6
<1> QED
  BY <1>2, <1>3

\* Step pos produces the one value that starts there and is not kept in a register.
LEMMA ProducesFacts ==
    ASSUME RegionOK, GroupsOK, FusedTo = Len(nodes), pos \in Ids
    PROVE  /\ \A v \in Ids : nodes[v].op # "Alias" /\ ~FusedIntermediate(v) /\ Start(v) = pos
                                => v = Produces
           /\ Produces # 0 => /\ Produces \in Ids /\ nodes[Produces].op # "Alias"
                              /\ ~FusedIntermediate(Produces) /\ Start(Produces) = pos
<1>1. Len(nodes) \in Nat /\ Ids = 1..Len(nodes) /\ pos \in Nat \ {0}
  BY SequenceFacts DEF RegionOK, Ids
<1>2. ASSUME NEW v \in Ids, nodes[v].op # "Alias", Start(v) = pos, ~Elementwise(pos)
      PROVE  v = pos
  <2>1. CASE ~Elementwise(v)
    BY <1>2, <2>1 DEF Start
  <2>2. CASE Elementwise(v)
    <3>1. PICK i \in DOMAIN groups : \E j \in DOMAIN groups[i] :
                  groups[i][j] = v /\ GroupOf(v) = groups[i]
      BY <2>2, GroupOfKernel DEF KernelOp
    <3>2. PICK j \in DOMAIN groups[i] : groups[i][j] = v
      BY <3>1
    <3>3. groups[i][1] = pos
      BY <1>2, <2>2, <3>1 DEF Start
    <3>4. GroupOK(i) /\ DOMAIN groups[i] = 1..Len(groups[i]) /\ Len(groups[i]) \in Nat
      BY MemberFacts DEF GroupsOK
    <3>5. j # 1
      BY <1>2, <2>2, <3>2, <3>3
    <3>6. j > 1 /\ 2 \in DOMAIN groups[i]
      BY <3>4, <3>5
    <3>7. 2 > 1 => Linked(groups[i][2 - 1], groups[i][2], groups[i][1])
      BY <3>4, <3>6 DEF GroupOK
    <3>8. Elementwise(groups[i][1])
      <4>1. 2 - 1 = 1
        OBVIOUS
      <4> QED
        BY <3>7, <4>1 DEF Linked
    <3> QED
      BY <1>2, <3>3, <3>8
  <2> QED
    BY <2>1, <2>2
<1>3. CASE ~Elementwise(pos)
  <2>1. Produces = IF nodes[pos].op = "Alias" THEN 0 ELSE pos
    BY <1>3 DEF Produces
  <2>2. ASSUME FusedIntermediate(pos) PROVE FALSE
    BY <1>3, <2>2, IntermediateFacts DEF Linked
  <2>3. Start(pos) = pos
    BY <1>3 DEF Start
  <2> QED
    BY <1>1, <1>2, <1>3, <2>1, <2>2, <2>3
<1>4. CASE Elementwise(pos)
  <2>1. PICK n \in DOMAIN groups : \E l \in DOMAIN groups[n] :
                groups[n][l] = pos /\ GroupOf(pos) = groups[n]
    BY <1>4, GroupOfKernel DEF KernelOp
  <2>2. Group = groups[n]
    BY <2>1 DEF Group
  <2>3. PICK m : m = Len(groups[n])
    OBVIOUS
  <2>4. m \in DOMAIN groups[n] /\ m \in Nat \ {0} /\ DOMAIN groups[n] = 1..m /\ GroupOK(n)
    BY <2>3, MemberFacts DEF GroupsOK
  <2>5. Produces = IF groups[n][1] = pos THEN groups[n][m] ELSE 0
    BY <1>4, <2>2, <2>3 DEF Produces, Last
  <2>6. ASSUME NEW v \in Ids, nodes[v].op # "Alias", ~FusedIntermediate(v), Start(v) = pos
        PROVE  v = Produces
    <3>1. CASE ~Elementwise(v)
      BY <1>4, <2>6, <3>1 DEF Start
    <3>2. CASE Elementwise(v)
      <4>1. PICK i \in DOMAIN groups : \E j \in DOMAIN groups[i] :
                    groups[i][j] = v /\ GroupOf(v) = groups[i]
        BY <3>2, GroupOfKernel DEF KernelOp
      <4>2. PICK j \in DOMAIN groups[i] : groups[i][j] = v
        BY <4>1
      <4>3. groups[i][1] = pos
        BY <2>6, <3>2, <4>1 DEF Start
      <4>4. 1 \in DOMAIN groups[i]
        BY MemberFacts
      <4>5. i = n
        BY <2>1, <4>3, <4>4 DEF GroupsOK, Member
      <4>6. j = m
        <5>1. j \notin 1..(Len(groups[n]) - 1)
          BY <2>6, <4>2, <4>5 DEF FusedIntermediate
        <5> QED
          BY <2>3, <2>4, <4>2, <4>5, <5>1
      <4> QED
        BY <2>5, <4>2, <4>3, <4>5, <4>6
    <3> QED
      BY <3>1, <3>2
  <2>7. ASSUME Produces # 0
        PROVE  /\ Produces \in Ids /\ nodes[Produces].op # "Alias"
               /\ ~FusedIntermediate(Produces) /\ Start(Produces) = pos
    <3>1. groups[n][1] = pos /\ Produces = groups[n][m]
      BY <2>5, <2>7
    <3>2. Produces \in Ids /\ KernelOp(Produces)
      BY <1>1, <2>4, <3>1 DEF GroupOK
    <3>3. nodes[Produces].op # "Alias"
      BY <3>2 DEF KernelOp, Elementwise
    <3>4. Elementwise(Produces)
      <4>1. CASE m = 1
        BY <1>4, <3>1, <4>1
      <4>2. CASE m # 1
        BY <2>4, <3>1, <4>2 DEF GroupOK, Linked
      <4> QED
        BY <4>1, <4>2
    <3>5. Start(Produces) = pos
      <4>1. GroupOf(groups[n][m]) = groups[n]
        BY <2>4, GroupOfMember
      <4> QED
        BY <3>1, <3>4, <4>1 DEF Start
    <3>6. ASSUME FusedIntermediate(Produces) PROVE FALSE
      <4>1. PICK i \in DOMAIN groups : \E j \in DOMAIN groups[i] :
                    groups[i][j] = Produces /\ j + 1 \in DOMAIN groups[i]
        BY <3>6, IntermediateFacts
      <4>2. PICK j \in DOMAIN groups[i] : groups[i][j] = Produces /\ j + 1 \in DOMAIN groups[i]
        BY <4>1
      <4>3. i = n /\ j = m
        BY <2>4, <3>1, <4>2 DEF GroupsOK, Member
      <4> QED
        BY <2>4, <4>2, <4>3
    <3> QED
      BY <3>2, <3>3, <3>5, <3>6
  <2> QED
    BY <2>6, <2>7
<1> QED
  BY <1>3, <1>4

-----------------------------------------------------------------------------
\* How far the passes have come when the backend runs.
LEMMA ExecutingFacts ==
    ASSUME RegionOK, PhaseOK, phase \in {"execute", "done"}
    PROVE  /\ FusedTo = Len(nodes) /\ AssignedTo = Len(nodes) /\ Len(nodes) \in Nat
           /\ Ids = 1..Len(nodes) /\ pos \in Ids /\ output = Len(nodes)
           /\ phase = "execute" => ExecutedTo = pos - 1
           /\ phase = "done" => ExecutedTo = Len(nodes)
  BY SequenceFacts DEF RegionOK, PhaseOK, Planned, Ids, FusedTo, AssignedTo, ExecutedTo

\* Whatever step pos reads has been produced.
LEMMA ReadsProduced ==
    ASSUME RegionOK, PhaseOK, GroupsOK, ExecutionOK, phase = "execute", NEW r \in Reads
    PROVE  r \in available /\ pos <= LastObligation(r)
<1>1. FusedTo = Len(nodes) /\ Ids = 1..Len(nodes) /\ pos \in Ids /\ ExecutedTo = pos - 1
      /\ Len(nodes) \in Nat
  BY ExecutingFacts
<1>2. /\ r \in Ids /\ r < pos /\ nodes[r].op # "Alias" /\ ~FusedIntermediate(r)
      /\ \E u \in Ids : pos <= u /\ ReadsRoot(u, r) # {}
  BY <1>1, ReadsFacts
<1>3. Start(r) \in Nat /\ Start(r) <= r
  BY <1>1, <1>2, StartFacts
<1>4. Start(r) <= ExecutedTo
  BY <1>1, <1>2, <1>3
<1>5. r \in available
  BY <1>2, <1>4 DEF ExecutionOK, Produced
<1>6. pos <= LastObligation(r)
  <2>1. PICK u \in Ids : pos <= u /\ ReadsRoot(u, r) # {}
    BY <1>2
  <2>2. u <= LastObligation(r) /\ LastObligation(r) \in Nat
    BY <1>2, <2>1, Lifetimes
  <2> QED
    BY <1>1, <2>1, <2>2
<1> QED
  BY <1>5, <1>6

\* Whatever step pos reads is in its slot, unless slots are reused and kernels fused.
LEMMA ReadsHold ==
    ASSUME RegionOK, PhaseOK, GroupsOK, ExecutionOK, phase = "execute",
           ~(options.reuse /\ options.fusion), NEW r \in Reads
    PROVE  Holding(r)
<1>1. r \in available /\ pos <= LastObligation(r)
  BY ReadsProduced
<1>2. /\ FusedTo = Len(nodes) /\ Ids = 1..Len(nodes) /\ pos \in Ids /\ ExecutedTo = pos - 1
      /\ Len(nodes) \in Nat
  BY ExecutingFacts
<1>3. r \in Ids /\ Tensor(r)
  BY <1>2, ReadsFacts
<1>4. LastObligation(r) > ExecutedTo
  <2>1. LastObligation(r) \in Nat
    BY <1>3, Lifetimes
  <2> QED
    BY <1>1, <1>2, <2>1
<1> QED
  BY <1>1, <1>3, <1>4 DEF ExecutionOK

\* The value a step produces reaches its slot, unless slots are reused and kernels fused.
LEMMA ProducedHolds ==
    ASSUME RegionOK, PhaseOK, GroupsOK, SequentialGroups, SlotsOK, ExecutionOK, phase = "execute",
           ~(options.reuse /\ options.fusion),
           Produces # 0, Tensor(Produces), slotOf[Produces] # 0
    PROVE  /\ \A r \in Reads : r \in available /\ Holding(r)
           /\ ~ClearsOperand(Produces)
<1>1. \A r \in Reads : r \in available /\ Holding(r)
  BY ReadsProduced, ReadsHold
<1>2. ASSUME NEW q \in Reads, slotOf[q] = slotOf[Produces] PROVE FALSE
  <2>1. /\ FusedTo = Len(nodes) /\ AssignedTo = Len(nodes) /\ Ids = 1..Len(nodes)
        /\ Len(nodes) \in Nat /\ pos \in Ids
    BY ExecutingFacts
  <2>2. PICK p : p = Produces
    OBVIOUS
  <2>3. p \in Ids /\ nodes[p].op # "Alias" /\ Start(p) = pos /\ Tensor(p) /\ slotOf[p] # 0
        /\ slotOf[q] = slotOf[p]
    BY <1>2, <2>1, <2>2, ProducesFacts
  <2>4. Root(p) = p /\ Start(p) \in Nat /\ Start(p) <= p
        /\ (~options.fusion => Start(p) = p)
    BY <2>1, <2>3, StartFacts DEF RegionOK, NodeOK
  <2>5. q \in Ids /\ q < pos /\ Tensor(q) /\ Root(q) = q
    BY <2>1, ReadsFacts
  <2>6. pos <= LastObligation(q) /\ LastObligation(q) \in Nat
        /\ p <= LastObligation(p) /\ LastObligation(p) \in Nat
    BY <2>3, <2>5, ReadsProduced, Lifetimes
  <2>7. q # p
    BY <2>1, <2>3, <2>4, <2>5
  <2>8. options.reuse /\ ~Overlaps(q, p)
    BY <2>1, <2>3, <2>4, <2>5, <2>7, SharedSlot
  <2>9. p = pos
    BY <2>3, <2>4, <2>8
  <2>10. LastObligation(q) < p \/ LastObligation(p) < q
    BY <2>8 DEF Overlaps
  <2> QED
    BY <2>1, <2>5, <2>6, <2>9, <2>10
<1> QED
  BY <1>1, <1>2 DEF ClearsOperand

\* A step overwrites nothing that is still to be read, unless slots are reused and kernels fused.
LEMMA OthersStay ==
    ASSUME RegionOK, PhaseOK, GroupsOK, SequentialGroups, SlotsOK, ExecutionOK, phase = "execute",
           ~(options.reuse /\ options.fusion),
           Produces # 0, Tensor(Produces), slotOf[Produces] # 0,
           NEW r \in available, Tensor(r), ~options.reuse \/ LastObligation(r) > pos
    PROVE  slotOf[r] # slotOf[Produces]
<1>1. SUFFICES ASSUME slotOf[r] = slotOf[Produces] PROVE FALSE
  OBVIOUS
<1>2. /\ FusedTo = Len(nodes) /\ AssignedTo = Len(nodes) /\ Ids = 1..Len(nodes)
      /\ Len(nodes) \in Nat /\ pos \in Ids /\ ExecutedTo = pos - 1
  BY ExecutingFacts
<1>3. PICK p : p = Produces
  OBVIOUS
<1>4. p \in Ids /\ nodes[p].op # "Alias" /\ Start(p) = pos /\ Tensor(p) /\ slotOf[p] # 0
      /\ slotOf[r] = slotOf[p]
  BY <1>1, <1>2, <1>3, ProducesFacts
<1>5. r \in Ids /\ nodes[r].op # "Alias" /\ Start(r) <= pos - 1
  BY <1>2 DEF ExecutionOK, Produced
<1>6. Root(p) = p /\ Root(r) = r
  BY <1>4, <1>5 DEF RegionOK, NodeOK
<1>7. /\ ~options.fusion => Start(p) = p
      /\ ~options.fusion => Start(r) = r
      /\ Start(r) \in Nat
  BY <1>2, <1>4, <1>5, StartFacts
<1>8. r # p
  BY <1>2, <1>4, <1>5, <1>7
<1>9. options.reuse /\ ~Overlaps(r, p)
  BY <1>2, <1>4, <1>5, <1>6, <1>8, SharedSlot
<1>10. LastObligation(r) < p \/ LastObligation(p) < r
  BY <1>9 DEF Overlaps
<1>11. LastObligation(r) \in Nat /\ LastObligation(p) \in Nat /\ p <= LastObligation(p)
  BY <1>4, <1>5, Lifetimes
<1>12. p = pos /\ r <= pos - 1 /\ LastObligation(r) > pos
  BY <1>4, <1>5, <1>7, <1>9
<1> QED
  BY <1>2, <1>5, <1>10, <1>11, <1>12

\* What holds of a value whose memory this step leaves alone.
LEMMA HoldingStays ==
    ASSUME UNCHANGED <<region, plan>>, NEW v, NEW s, s = slotOf[v], contents'[s] = contents[s]
    PROVE  Holding(v)' <=> Holding(v)
  BY DEF Holding, Zero, Root, region, plan

\* The backend's memory after a step: what was produced, and what of it is in its slot.
LEMMA ExecuteKeeps ==
    ASSUME RegionOK, PhaseOK, GroupsOK, SequentialGroups, SlotsOK, ExecutionOK, Execute
    PROVE  ExecutionOK'
<1>1. /\ FusedTo = Len(nodes) /\ AssignedTo = Len(nodes) /\ Ids = 1..Len(nodes)
      /\ Len(nodes) \in Nat /\ pos \in Ids /\ ExecutedTo = pos - 1 /\ phase = "execute"
  BY ExecutingFacts DEF Execute
<1>2. UNCHANGED <<region, plan, nodes, options, slots, slotOf>> /\ UNCHANGED <<region, groups>>
  BY DEF Execute, region, plan
<1>3. phase' \in {"execute", "done"} /\ ExecutedTo' = pos /\ ExecutedTo \in Nat
  <2>1. CASE pos = Len(nodes)
    BY <1>1, <1>2, <2>1 DEF Execute, NextNode, ExecutedTo
  <2>2. CASE pos # Len(nodes)
    BY <1>1, <1>2, <2>2 DEF Execute, NextNode, ExecutedTo
  <2> QED
    BY <2>1, <2>2
<1>4. PICK p : p = Produces
  OBVIOUS
<1>5. p # 0 => /\ p \in Ids /\ nodes[p].op # "Alias" /\ ~FusedIntermediate(p) /\ Start(p) = pos
               /\ Root(p) = p
  BY <1>1, <1>4, ProducesFacts DEF RegionOK, NodeOK
<1>6. available' = IF p = 0 THEN available ELSE available \cup {p}
  BY <1>4 DEF Execute, memory
<1>7. available = {v \in Ids : Produced(v)} /\ DOMAIN contents = DOMAIN slots
  BY <1>1 DEF ExecutionOK
<1>8. \A v : (FusedIntermediate(v)' <=> FusedIntermediate(v)) /\ Start(v)' = Start(v)
             /\ (Tensor(v)' <=> Tensor(v)) /\ LastObligation(v)' = LastObligation(v)
             /\ Root(v)' = Root(v) /\ (Zero(v)' <=> Zero(v))
  <2>1. \A v : GroupOf(v)' = GroupOf(v) /\ (FusedIntermediate(v)' <=> FusedIntermediate(v))
    BY <1>2, GroupsStay
  <2>2. \A v : (Elementwise(v)' <=> Elementwise(v)) /\ (Tensor(v)' <=> Tensor(v))
               /\ LastObligation(v)' = LastObligation(v)
               /\ Root(v)' = Root(v) /\ (Zero(v)' <=> Zero(v))
    BY <1>2, RegionStays
  <2>3. ASSUME NEW v PROVE Start(v)' = Start(v)
    BY <2>1, <2>2 DEF Start
  <2> QED
    BY <2>1, <2>2, <2>3
<1>9. \A v \in Ids : Produced(v)' <=> (Produced(v) \/ (p # 0 /\ v = p))
  <2>1. ASSUME NEW v \in Ids PROVE Produced(v)' <=> (Produced(v) \/ (p # 0 /\ v = p))
    <3>1. Produced(v)' <=> nodes[v].op # "Alias" /\ ~FusedIntermediate(v) /\ Start(v) <= pos
      BY <1>2, <1>3, <1>8 DEF Produced
    <3>2. Produced(v) <=> nodes[v].op # "Alias" /\ ~FusedIntermediate(v) /\ Start(v) <= pos - 1
      BY <1>1 DEF Produced
    <3>3. Start(v) \in Nat /\ pos \in Nat
      BY <1>1, StartFacts
    <3>4. nodes[v].op # "Alias" /\ ~FusedIntermediate(v) /\ Start(v) = pos => v = p /\ v # 0
      BY <1>1, <1>4, ProducesFacts
    <3> QED
      BY <1>5, <3>1, <3>2, <3>3, <3>4
  <2> QED
    BY <2>1
<1>10. available' = {v \in Ids : Produced(v)'}
  BY <1>5, <1>6, <1>7, <1>9
<1>11. DOMAIN contents' = DOMAIN slots
  BY <1>7 DEF Execute, memory
<1>12. ASSUME ~(options.reuse /\ options.fusion), NEW r \in available', Tensor(r),
              ~options.reuse \/ LastObligation(r) > pos
       PROVE  Holding(r)'
  <2>1. r \in Ids /\ nodes[r].op # "Alias" /\ ~FusedIntermediate(r) /\ Root(r) = r
    BY <1>5, <1>6, <1>7, <1>12 DEF Produced, RegionOK, NodeOK
  <2>2. CASE Zero(r)
    BY <1>8, <2>2 DEF Holding
  <2>3. CASE ~Zero(r)
    <3>1. slotOf[r] \in DOMAIN slots /\ slotOf[r] # 0
      BY <1>1, <1>12, <2>1, <2>3, RootHasSlot
    <3>2. CASE p # 0 /\ r = p
      <4>1. /\ \A q \in Reads : q \in available /\ Holding(q)
            /\ ~ClearsOperand(Produces)
        BY <1>1, <1>4, <1>12, <3>1, <3>2, ProducedHolds
      <4>2. contents' = [contents EXCEPT ![slotOf[p]] = p]
        BY <1>4, <1>12, <3>1, <3>2, <4>1 DEF Execute
      <4>3. contents'[slotOf[r]] = r
        BY <1>7, <3>1, <3>2, <4>2
      <4> QED
        BY <1>2, <1>8, <2>1, <4>3 DEF Holding
    <3>3. CASE p = 0 \/ r # p
      <4>1. r \in available
        BY <1>6, <1>12, <3>3
      <4>2. LastObligation(r) \in Nat
        BY <2>1, Lifetimes
      <4>3. Holding(r)
        BY <1>1, <1>12, <4>1, <4>2 DEF ExecutionOK
      <4>4. contents'[slotOf[r]] = contents[slotOf[r]]
        <5>1. CASE p # 0 /\ Tensor(p) /\ slotOf[p] # 0
          <6>1. slotOf[r] # slotOf[p]
            BY <1>1, <1>4, <1>12, <4>1, <5>1, OthersStay
          <6>2. \E x : contents' = [contents EXCEPT ![slotOf[p]] = x]
            BY <1>4, <5>1 DEF Execute
          <6> QED
            BY <1>7, <3>1, <6>1, <6>2
        <5>2. CASE ~(p # 0 /\ Tensor(p) /\ slotOf[p] # 0)
          BY <1>4, <5>2 DEF Execute, memory
        <5> QED
          BY <5>1, <5>2
      <4> QED
        BY <1>2, <4>3, <4>4, HoldingStays
    <3> QED
      BY <3>2, <3>3
  <2> QED
    BY <2>2, <2>3
<1>13. ~(options.reuse /\ options.fusion)' =>
         \A r \in available' : Tensor(r)' /\ (~options'.reuse \/ LastObligation(r)' > ExecutedTo')
                                 => Holding(r)'
  BY <1>2, <1>3, <1>8, <1>12
<1>14. Ids' = Ids
  BY <1>2, RegionStays
<1> QED
  BY <1>2, <1>10, <1>11, <1>13, <1>14 DEF ExecutionOK

-----------------------------------------------------------------------------
\* No slot is given before the groups are made.
LEMMA NoSlots ==
    ASSUME RegionOK', slots' = <<>>, slotOf' = [v \in Ids' |-> 0], AssignedTo' = 0
    PROVE  SlotsOK'
<1>1. Sequence(slots') /\ DOMAIN slots' = {}
  BY EmptySeq DEF Sequence
<1>2. Len(nodes)' \in Nat /\ Ids' = 1..Len(nodes)'
  BY SequenceFacts DEF RegionOK, Ids
<1>3. \A v \in Ids' : Root(v)' \in Ids'
  BY <1>2 DEF RegionOK, NodeOK
<1>4. \A v \in Ids' : slotOf'[v] = 0 /\ slotOf'[Root(v)'] = 0
  BY <1>3
<1> QED
  BY <1>1, <1>4 DEF SlotsOK

\* The passes that follow leave region and plan alone.
LEMMA PlanStays ==
    ASSUME RegionOK, GroupsOK, SequentialGroups, SlotsOK, UNCHANGED <<region, plan>>,
           FusedTo' = FusedTo, AssignedTo \in Nat, AssignedTo' = AssignedTo
    PROVE  RegionOK' /\ GroupsOK' /\ SequentialGroups' /\ SlotsOK'
<1>1. UNCHANGED <<region, groups>>
  BY DEF plan
<1>2. RegionOK' /\ GroupsOK' /\ SequentialGroups'
  BY <1>1, RegionStays, GroupsStay
<1>3. SlotsOK'
  BY SlotsStay
<1> QED
  BY <1>2, <1>3

\* The plan's invariant holds at first.
LEMMA PlanInit ==
    Init => PlanInv
<1> SUFFICES ASSUME Init PROVE PlanInv
  OBVIOUS
<1>1. Sequence(nodes) /\ Ids = {}
  BY EmptySeq DEF Init, Sequence, Ids
<1>2. RegionOK /\ PhaseOK
  BY <1>1 DEF Init, RegionOK, PhaseOK, Planned
<1> QED
  BY <1>2 DEF Init, PlanInv, Planned, ExecutionOK

\* extractStrictRegion comes before any plan.
LEMMA PlanExtract ==
    ASSUME PlanInv, Extract
    PROVE  PlanInv'
<1>1. RegionOK'
  BY ExtractKeepsRegion DEF PlanInv
<1>2. phase' = "extract" /\ PhaseOK'
  BY DEF PlanInv, Extract, PhaseOK, Planned, plan, memory
<1> QED
  BY <1>1, <1>2 DEF PlanInv, Planned, ExecutionOK

\* Planning begins with no groups and no slots.
LEMMA PlanStart ==
    ASSUME PlanInv, StartPlanning
    PROVE  PlanInv'
<1>1. /\ RegionOK /\ PhaseOK /\ nodes' = nodes /\ phase = "extract" /\ phase' = "fuse"
      /\ pos' = pos /\ groups' = groups /\ slots' = slots /\ available' = available
      /\ output' = Len(nodes) /\ slotOf' = [v \in Ids |-> 0] /\ nodes # <<>>
  BY DEF PlanInv, StartPlanning, memory
<1>2. pos = 1 /\ groups = <<>> /\ slots = <<>> /\ available = {}
  BY <1>1 DEF PhaseOK
<1>3. Len(nodes) \in Nat \ {0} /\ Ids = 1..Len(nodes) /\ Ids' = Ids
  BY <1>1, SequenceFacts DEF RegionOK, Ids
<1>4. RegionOK'
  BY <1>1, <1>3 DEF RegionOK, NodeOK, Deps, Root, Tensor
<1>5. PhaseOK'
  BY <1>1, <1>2, <1>3 DEF PhaseOK, Planned
<1>6. FusedTo' = 0 /\ AssignedTo' = 0
  BY <1>1, <1>2 DEF FusedTo, AssignedTo
<1>7. GroupsOK' /\ SequentialGroups'
  <2>1. groups' \in Seq(Seq(Nat)) /\ DOMAIN groups' = {} /\ 1..FusedTo' = {}
    BY <1>1, <1>2, <1>6, EmptySeq
  <2> QED
    BY <2>1 DEF GroupsOK, SequentialGroups, Member
<1>8. SlotsOK'
  BY <1>1, <1>2, <1>3, <1>4, <1>6, NoSlots
<1> QED
  BY <1>1, <1>4, <1>5, <1>7, <1>8 DEF PlanInv, ExecutionOK

\* makeFusionGroups keeps the invariant.
LEMMA PlanFuse ==
    ASSUME PlanInv, Fuse
    PROVE  PlanInv'
<1>1. /\ RegionOK /\ PhaseOK /\ phase = "fuse" /\ UNCHANGED <<region, nodes, output, slots, slotOf, available>>
      /\ phase \in Planned
  BY DEF PlanInv, Fuse, region, memory, Planned
<1>2. GroupsOK /\ SequentialGroups
  BY <1>1 DEF PlanInv
<1>3. RegionOK' /\ Ids' = Ids
  BY <1>1, RegionStays
<1>4. GroupsOK' /\ SequentialGroups'
  BY <1>1, <1>2, FuseKeepsGroups
<1>5. /\ pos \in Ids /\ output = Len(nodes) /\ slots = <<>> /\ slotOf = [v \in Ids |-> 0] /\ available = {}
      /\ Len(nodes) \in Nat /\ Ids = 1..Len(nodes)
  BY <1>1, SequenceFacts DEF PhaseOK, RegionOK, Ids
<1>6. /\ phase' \in {"fuse", "assign"} /\ pos' \in Ids /\ (phase' = "assign" => pos' = 1)
  <2>1. CASE pos = Len(nodes)
    BY <1>5, <2>1 DEF Fuse, NextNode
  <2>2. CASE pos # Len(nodes)
    BY <1>1, <1>5, <2>2 DEF Fuse, NextNode
  <2> QED
    BY <2>1, <2>2
<1>7. PhaseOK' /\ AssignedTo' = 0
  BY <1>1, <1>3, <1>5, <1>6 DEF PhaseOK, Planned, AssignedTo
<1>8. SlotsOK'
  BY <1>1, <1>3, <1>5, <1>7, NoSlots
<1> QED
  BY <1>3, <1>4, <1>6, <1>7, <1>8 DEF PlanInv, ExecutionOK

\* assignSlots keeps the invariant.
LEMMA PlanAssign ==
    ASSUME PlanInv, Assign
    PROVE  PlanInv'
<1>1. /\ RegionOK /\ PhaseOK /\ phase = "assign" /\ UNCHANGED <<region, nodes, output, groups, available>>
      /\ phase \in Planned
  BY DEF PlanInv, Assign, region, memory, Planned
<1>2. GroupsOK /\ SequentialGroups /\ SlotsOK
  BY <1>1 DEF PlanInv
<1>3. /\ pos \in Ids /\ output = Len(nodes) /\ available = {}
      /\ Len(nodes) \in Nat /\ Ids = 1..Len(nodes)
  BY <1>1, SequenceFacts DEF PhaseOK, RegionOK, Ids
<1>4. RegionOK' /\ Ids' = Ids
  BY <1>1, RegionStays
<1>5. /\ phase' \in {"assign", "verify"} /\ pos' \in Ids /\ (phase' = "verify" => pos' = 1)
  <2>1. CASE pos = Len(nodes)
    BY <1>3, <2>1 DEF Assign, NextNode
  <2>2. CASE pos # Len(nodes)
    BY <1>1, <1>3, <2>2 DEF Assign, NextNode
  <2> QED
    BY <2>1, <2>2
<1>6. PhaseOK' /\ FusedTo' = FusedTo
  BY <1>1, <1>3, <1>4, <1>5 DEF PhaseOK, Planned, FusedTo
<1>7. GroupsOK' /\ SequentialGroups'
  <2>1. UNCHANGED <<region, groups>>
    BY <1>1
  <2> QED
    BY <1>2, <1>6, <2>1, GroupsStay
<1>8. SlotsOK'
  BY <1>1, <1>2, AssignKeepsSlots
<1> QED
  BY <1>4, <1>5, <1>6, <1>7, <1>8 DEF PlanInv, ExecutionOK

\* verifyPhysicalPlan accepts, and execution begins with nothing produced.
LEMMA PlanVerify ==
    ASSUME PlanInv, Verify
    PROVE  PlanInv' /\ phase' = "execute"
<1>1. /\ RegionOK /\ PhaseOK /\ phase = "verify"
      /\ UNCHANGED <<region, plan, nodes, output, slots, pos, available>> /\ phase \in Planned
  BY DEF PlanInv, Verify, region, plan, Planned
<1>2. GroupsOK /\ SequentialGroups /\ SlotsOK
  BY <1>1 DEF PlanInv
<1>3. /\ pos \in Ids /\ pos = 1 /\ output = Len(nodes) /\ available = {}
      /\ Len(nodes) \in Nat /\ Ids = 1..Len(nodes)
  BY <1>1, SequenceFacts DEF PhaseOK, RegionOK, Ids
<1>4. FusedTo = Len(nodes) /\ AssignedTo = Len(nodes)
  BY <1>1 DEF FusedTo, AssignedTo
<1>5. phase' = "execute"
  BY <1>1, <1>2, <1>4, PlanPasses DEF Verify
<1>6. FusedTo' = FusedTo /\ AssignedTo' = AssignedTo /\ ExecutedTo' = 0
  BY <1>1, <1>3, <1>4, <1>5 DEF FusedTo, AssignedTo, ExecutedTo
<1>7. RegionOK' /\ GroupsOK' /\ SequentialGroups' /\ SlotsOK' /\ Ids' = Ids
  BY <1>1, <1>2, <1>3, <1>4, <1>6, PlanStays, RegionStays
<1>8. PhaseOK'
  BY <1>1, <1>3, <1>5, <1>7 DEF PhaseOK, Planned
<1>9. DOMAIN contents' = DOMAIN slots'
  BY <1>1 DEF Verify
<1>10. ASSUME NEW v \in Ids PROVE ~Produced(v)'
  <2>1. Start(v) \in Nat \ {0}
    BY <1>1, <1>2, <1>4, StartFacts
  <2>2. Start(v)' = Start(v)
    <3>1. GroupOf(v)' = GroupOf(v) /\ (Elementwise(v)' <=> Elementwise(v))
      BY <1>1, GroupsStay, RegionStays DEF plan
    <3> QED
      BY <3>1 DEF Start
  <2> QED
    BY <1>6, <2>1, <2>2 DEF Produced
<1>11. ExecutionOK'
  BY <1>1, <1>3, <1>7, <1>9, <1>10 DEF ExecutionOK
<1> QED
  BY <1>5, <1>7, <1>8, <1>11 DEF PlanInv

\* The backend's walk keeps the invariant.
LEMMA PlanExecute ==
    ASSUME PlanInv, Execute
    PROVE  PlanInv'
<1>1. /\ RegionOK /\ PhaseOK /\ phase = "execute" /\ phase \in Planned
      /\ UNCHANGED <<region, plan, nodes, output>>
  BY DEF PlanInv, Execute, region, plan, Planned
<1>2. GroupsOK /\ SequentialGroups /\ SlotsOK /\ ExecutionOK
  BY <1>1 DEF PlanInv
<1>3. /\ FusedTo = Len(nodes) /\ AssignedTo = Len(nodes) /\ Len(nodes) \in Nat
      /\ Ids = 1..Len(nodes) /\ pos \in Ids /\ output = Len(nodes)
  BY <1>1, ExecutingFacts
<1>4. /\ phase' \in {"execute", "done"} /\ pos' \in Ids /\ (phase' = "done" => pos' = 1)
  <2>1. CASE pos = Len(nodes)
    BY <1>3, <2>1 DEF Execute, NextNode
  <2>2. CASE pos # Len(nodes)
    BY <1>1, <1>3, <2>2 DEF Execute, NextNode
  <2> QED
    BY <2>1, <2>2
<1>5. FusedTo' = FusedTo /\ AssignedTo' = AssignedTo
  BY <1>1, <1>3, <1>4 DEF FusedTo, AssignedTo
<1>6. RegionOK' /\ GroupsOK' /\ SequentialGroups' /\ SlotsOK' /\ Ids' = Ids
  BY <1>1, <1>2, <1>3, <1>5, PlanStays, RegionStays
<1>7. PhaseOK'
  BY <1>1, <1>3, <1>4, <1>6 DEF PhaseOK, Planned
<1>8. ExecutionOK'
  BY <1>1, <1>2, ExecuteKeeps
<1> QED
  BY <1>6, <1>7, <1>8 DEF PlanInv

\* Host emission gives up and changes nothing.
LEMMA PlanUnsupported ==
    ASSUME PlanInv, Unsupported
    PROVE  PlanInv'
<1>1. /\ RegionOK /\ PhaseOK /\ phase = "execute" /\ phase \in Planned /\ phase' = "unsupported"
      /\ UNCHANGED <<region, plan, nodes, output, pos>>
  BY DEF PlanInv, Unsupported, region, plan, Planned
<1>2. GroupsOK /\ SequentialGroups /\ SlotsOK
  BY <1>1 DEF PlanInv
<1>3. /\ FusedTo = Len(nodes) /\ AssignedTo = Len(nodes) /\ Len(nodes) \in Nat
      /\ Ids = 1..Len(nodes) /\ pos \in Ids /\ output = Len(nodes)
  BY <1>1, ExecutingFacts
<1>4. FusedTo' = FusedTo /\ AssignedTo' = AssignedTo
  BY <1>1, <1>3 DEF FusedTo, AssignedTo
<1>5. RegionOK' /\ GroupsOK' /\ SequentialGroups' /\ SlotsOK' /\ Ids' = Ids
  BY <1>1, <1>2, <1>3, <1>4, PlanStays, RegionStays
<1>6. PhaseOK'
  BY <1>1, <1>3, <1>5 DEF PhaseOK, Planned
<1> QED
  BY <1>1, <1>5, <1>6 DEF PlanInv, ExecutionOK

\* A step that changes nothing keeps the invariant.
LEMMA PlanStutter ==
    ASSUME PlanInv, UNCHANGED vars
    PROVE  PlanInv'
<1>1. UNCHANGED <<phase, pos, region, plan, memory, nodes, output, slots, slotOf, groups, available, contents>>
      /\ UNCHANGED <<region, groups>>
  BY DEF vars, region, plan, memory
<1>2. RegionOK /\ PhaseOK /\ RegionOK' /\ Ids' = Ids
  BY <1>1, RegionStays DEF PlanInv
<1>3. PhaseOK'
  BY <1>1, <1>2 DEF PhaseOK
<1>4. FusedTo' = FusedTo /\ AssignedTo' = AssignedTo /\ ExecutedTo' = ExecutedTo
  BY <1>1 DEF FusedTo, AssignedTo, ExecutedTo
<1>5. ASSUME phase \in Planned PROVE GroupsOK' /\ SequentialGroups' /\ SlotsOK'
  <2>1. GroupsOK /\ SequentialGroups /\ SlotsOK
    BY <1>5 DEF PlanInv
  <2>2. AssignedTo \in Nat
    BY <1>2, <1>5, SequenceFacts DEF AssignedTo, RegionOK, PhaseOK, Ids
  <2> QED
    BY <1>1, <1>2, <1>4, <2>1, <2>2, PlanStays
<1>6. ASSUME phase \in {"execute", "done"} PROVE ExecutionOK'
  <2>1. ExecutionOK
    BY DEF PlanInv
  <2>2. \A v : (Produced(v)' <=> Produced(v)) /\ (Holding(v)' <=> Holding(v))
    <3>1. \A v : /\ GroupOf(v)' = GroupOf(v) /\ (FusedIntermediate(v)' <=> FusedIntermediate(v))
                 /\ (Elementwise(v)' <=> Elementwise(v)) /\ Root(v)' = Root(v) /\ (Zero(v)' <=> Zero(v))
      BY <1>1, GroupsStay, RegionStays
    <3>2. ASSUME NEW v PROVE Start(v)' = Start(v)
      BY <3>1 DEF Start
    <3> QED
      BY <1>1, <1>4, <3>1, <3>2 DEF Produced, Holding
  <2>3. \A v : (Tensor(v)' <=> Tensor(v)) /\ LastObligation(v)' = LastObligation(v)
    BY <1>1, RegionStays
  <2>4. options' = options
    BY <1>1 DEF region
  <2> QED
    BY <1>1, <1>2, <1>4, <1>6, <2>1, <2>2, <2>3, <2>4 DEF ExecutionOK
<1> QED
  BY <1>1, <1>2, <1>3, <1>5, <1>6 DEF PlanInv, ExecutionOK

-----------------------------------------------------------------------------
\* Every reachable state of a region, its plan and its execution is as PlanInv says.
THEOREM PlanIsInvariant ==
    Spec => []PlanInv
<1>1. ASSUME PlanInv, [Next]_vars PROVE PlanInv'
  BY <1>1, PlanExtract, PlanStart, PlanFuse, PlanAssign, PlanVerify, PlanExecute, PlanUnsupported,
     PlanStutter DEF Next
<1> QED
  BY PlanInit, <1>1, PTL DEF Spec

\* buildPhysicalPlan's own verification never rejects the plan it made.
THEOREM PlannerAcceptsItself ==
    Spec => []BuildAcceptsItself
<1>1. PlanInv => BuildAcceptsItself
  BY DEF PlanInv, PhaseOK, Planned, BuildAcceptsItself
<1> QED
  BY PlanIsInvariant, <1>1, PTL

\* No group starts before one of its operands, and nothing outside a group reads a value
\* that fused code keeps in a register, in a region of any size and with any options.
THEOREM OperandsAreProduced ==
    Spec => []ReadsAreAvailable
<1>1. ASSUME PlanInv, phase = "execute", NEW r \in Reads PROVE r \in available
  <2>1. RegionOK /\ PhaseOK /\ GroupsOK /\ ExecutionOK
    BY <1>1 DEF PlanInv, Planned
  <2> QED
    BY <1>1, <2>1, ReadsProduced
<1>2. PlanInv => ReadsAreAvailable
  BY <1>1 DEF ReadsAreAvailable
<1> QED
  BY PlanIsInvariant, <1>2, PTL

\* With slots reused or kernels fused, but not both, what a step reads is still in its
\* slot, and the region's output is in its slot at the end.
THEOREM OperandsAreIntact ==
    Spec => []ReadsSeeTheirValueUnlessBoth
<1>1. ASSUME PlanInv, ~(options.reuse /\ options.fusion), phase = "execute", NEW r \in Reads
      PROVE  Holding(r)
  <2>1. RegionOK /\ PhaseOK /\ GroupsOK /\ ExecutionOK
    BY <1>1 DEF PlanInv, Planned
  <2> QED
    BY <1>1, <2>1, ReadsHold
<1>2. ASSUME PlanInv, ~(options.reuse /\ options.fusion), phase = "done", Tensor(output)
      PROVE  Holding(output)
  <2>1. RegionOK /\ PhaseOK /\ GroupsOK /\ SlotsOK /\ ExecutionOK
    BY <1>2 DEF PlanInv, Planned
  <2>2. /\ FusedTo = Len(nodes) /\ AssignedTo = Len(nodes) /\ Len(nodes) \in Nat
        /\ Ids = 1..Len(nodes) /\ output \in Ids /\ ExecutedTo = Len(nodes)
    BY <1>2, <2>1, ExecutingFacts
  <2>3. PICK r : r = Root(output)
    OBVIOUS
  <2>4. /\ r \in Ids /\ nodes[r].op # "Alias" /\ Root(r) = r /\ Tensor(r)
        /\ nodes[output].shape = nodes[r].shape
    BY <1>2, <2>1, <2>2, <2>3 DEF RegionOK, NodeOK
  <2>5. Retained(r)
    BY <2>2, <2>3 DEF Retained
  <2>6. ~FusedIntermediate(r)
    BY <2>1, <2>5, IntermediateFacts DEF Linked
  <2>7. Start(r) \in Nat /\ Start(r) <= r
    BY <2>1, <2>2, <2>4, StartFacts
  <2>8. r \in available
    BY <1>2, <2>1, <2>2, <2>4, <2>6, <2>7 DEF ExecutionOK, Produced
  <2>9. LastObligation(r) > ExecutedTo
    BY <2>1, <2>2, <2>4, <2>5, Lifetimes
  <2>10. Holding(r)
    BY <1>2, <2>1, <2>4, <2>8, <2>9 DEF ExecutionOK
  <2>11. slotOf[output] = slotOf[r]
    BY <1>2, <2>1, <2>2, <2>3 DEF SlotsOK
  <2> QED
    BY <2>3, <2>4, <2>10, <2>11 DEF Holding, Zero
<1>3. PlanInv => ReadsSeeTheirValueUnlessBoth
  BY <1>1, <1>2 DEF ReadsSeeTheirValueUnlessBoth, ReadsSeeTheirValue
<1> QED
  BY PlanIsInvariant, <1>3, PTL

\* With reuse and fusion both on too, no step overwrites the region's output or a value
\* under an obligation once it is in its slot.
THEOREM RetainedValuesAreKept ==
    Spec => RetainedValuesStay
<1> DEFINE Kept == \A v \in Ids : (phase = "execute" /\ Tensor(v) /\ (v = output \/ v \in protected)
                                  /\ Root(v) \in available /\ Holding(v)) => Holding(v)'
<1>1. ASSUME PlanInv, Execute, NEW v \in Ids, Tensor(v), v = output \/ v \in protected,
             Root(v) \in available, Holding(v)
      PROVE  Holding(v)'
  <2>1. RegionOK /\ PhaseOK /\ GroupsOK /\ SlotsOK /\ ExecutionOK /\ phase = "execute"
    BY <1>1 DEF PlanInv, Planned, Execute
  <2>2. /\ FusedTo = Len(nodes) /\ AssignedTo = Len(nodes) /\ Len(nodes) \in Nat
        /\ Ids = 1..Len(nodes) /\ pos \in Ids /\ ExecutedTo = pos - 1
    BY <2>1, ExecutingFacts
  <2>3. UNCHANGED <<region, plan>>
    BY <1>1 DEF Execute
  <2>4. PICK r, p : r = Root(v) /\ p = Produces
    OBVIOUS
  <2>5. /\ r \in Ids /\ Root(r) = r /\ Tensor(r) /\ nodes[v].shape = nodes[r].shape
        /\ slotOf[v] = slotOf[r]
    BY <1>1, <2>1, <2>2, <2>4 DEF RegionOK, NodeOK, SlotsOK
  <2>6. Retained(r)
    BY <1>1, <2>4 DEF Retained
  <2>7. ~FusedIntermediate(r) /\ Start(r) <= pos - 1
    BY <1>1, <2>1, <2>2, <2>4 DEF ExecutionOK, Produced
  <2>8. CASE Zero(v)
    <3>1. Zero(v)'
      BY <2>3, <2>8, RegionStays
    <3> QED
      BY <3>1 DEF Holding
  <2>9. CASE ~Zero(v)
    <3>1. slotOf[r] \in DOMAIN slots /\ slotOf[r] # 0
      BY <2>1, <2>2, <2>5, <2>7, <2>9, RootHasSlot DEF Zero
    <3>2. CASE p # 0 /\ Tensor(p) /\ slotOf[p] # 0
      <4>1. p \in Ids /\ nodes[p].op # "Alias" /\ Start(p) = pos
        BY <2>1, <2>2, <2>4, <3>2, ProducesFacts
      <4>2. Root(p) = p
        BY <2>1, <4>1 DEF RegionOK, NodeOK
      <4>3. r # p
        BY <2>2, <2>7, <4>1
      <4>4. slotOf[r] # slotOf[p]
        BY <2>1, <2>2, <2>5, <2>6, <3>2, <4>1, <4>2, <4>3, SharedSlot
      <4>5. \E x : contents' = [contents EXCEPT ![slotOf[p]] = x]
        BY <1>1, <2>4, <3>2 DEF Execute
      <4>6. contents'[slotOf[r]] = contents[slotOf[r]]
        BY <2>1, <3>1, <4>4, <4>5 DEF ExecutionOK
      <4> QED
        BY <1>1, <2>3, <2>5, <4>6, HoldingStays
    <3>3. CASE ~(p # 0 /\ Tensor(p) /\ slotOf[p] # 0)
      <4>1. contents' = contents
        BY <1>1, <2>4, <3>3 DEF Execute, memory
      <4> QED
        BY <1>1, <2>3, <4>1, HoldingStays
    <3> QED
      BY <3>2, <3>3
  <2> QED
    BY <2>8, <2>9
<1>2. ASSUME UNCHANGED <<region, plan, memory>>, NEW v, Holding(v) PROVE Holding(v)'
  BY <1>2, HoldingStays DEF memory
<1>3. ASSUME PlanInv, [Next]_vars, phase = "execute" PROVE Kept
  <2>1. CASE Execute
    BY <1>1, <1>3, <2>1
  <2>2. CASE Unsupported \/ UNCHANGED vars
    <3>1. UNCHANGED <<region, plan, memory>>
      BY <2>2 DEF Unsupported, vars
    <3> QED
      BY <1>2, <3>1
  <2>3. ~(Extract \/ StartPlanning \/ Fuse \/ Assign \/ Verify)
    BY <1>3 DEF Extract, StartPlanning, Fuse, Assign, Verify
  <2> QED
    BY <1>3, <2>1, <2>2, <2>3 DEF Next
<1>4. PlanInv /\ [Next]_vars => [Kept]_vars
  BY <1>3
<1> QED
  BY PlanIsInvariant, <1>4, PTL DEF Spec, RetainedValuesStay
=============================================================================
