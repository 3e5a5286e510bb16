----------------------------- MODULE LegacyGraph -----------------------------
(***************************************************************************)
(* thiran::Graph (ir/Graph.cpp), its optimisation passes (optimizer/) and  *)
(* shape inference (analysis/ShapeInference.cpp), as operators on a graph  *)
(* value: the ids of its nodes in storage order, the nodes with both their *)
(* adjacency lists, and the edges.                                         *)
(*                                                                         *)
(* What a graph means is its outputs at sample inputs.  A tensor is its    *)
(* shape and one number modulo Modulus: the arithmetic is that of a field, *)
(* MatMul and Softmax are functions without algebraic laws, ReLU is        *)
(* idempotent and Transpose an involution.                                 *)
(***************************************************************************)
EXTENDS Integers, FiniteSets, Sequences, SequencesExt

Modulus == 7

Nullary == {"Input", "Constant"}
Unary == {"Output", "ReLU", "Softmax", "Reshape", "Transpose", "Transfer"}
Binary == {"Add", "Subtract", "Multiply", "Divide", "MatMul", "FusedMatMulRelu"}
Elementwise == {"Add", "Subtract", "Multiply", "Divide"}
Arity(op) == IF op \in Nullary THEN 0 ELSE IF op \in Unary THEN 1 ELSE 2

(***************************************************************************)
(* The meaning of an operation                                             *)
(***************************************************************************)
Inverse7(b) == CHOOSE i \in 0..(Modulus - 1) : b = 0 \/ (b * i) % Modulus = 1
Arithmetic(op, a, b) ==
    (CASE op = "Add" -> a + b [] op = "Subtract" -> a + Modulus - b
       [] op = "Multiply" -> a * b [] op = "Divide" -> a * Inverse7(b)) % Modulus
Relu(a) == IF a < 4 THEN a ELSE 0
Product(a, b) == (2 * a + 3 * a * b + b + 1) % Modulus

Elements(shape) == FoldLeft(LAMBDA a, b : a * b, 1, shape)

\* The shape of a result; Bad when the operands do not fit.
Bad == <<0>>
ResultShape(op, declared, shapes) ==
    CASE op = "Input" -> IF declared = <<>> THEN <<1, 1>> ELSE declared
      [] op = "Constant" -> declared
      [] op \in {"MatMul", "FusedMatMulRelu"} ->
            IF Len(shapes[1]) = 2 /\ Len(shapes[2]) = 2 /\ shapes[1][2] = shapes[2][1]
            THEN <<shapes[1][1], shapes[2][2]>> ELSE Bad
      [] op \in Elementwise -> IF shapes[1] = <<>> THEN shapes[2]
                               ELSE IF shapes[2] \in {<<>>, shapes[1]} THEN shapes[1] ELSE Bad
      [] op = "Transpose" -> IF Len(shapes[1]) = 2 THEN <<shapes[1][2], shapes[1][1]>> ELSE Bad
      [] op = "Reshape" ->
            IF declared = <<>> THEN shapes[1]
            ELSE IF \A d \in Range(declared) : d > 0
                    /\ Elements(declared) = Elements(shapes[1])
                 THEN declared ELSE Bad
      [] OTHER -> shapes[1]

\* What an operation computes from tensors [shape, data].
Apply(op, declared, attr, args) ==
    LET a == args[1].data b == args[2].data IN
    [shape |-> ResultShape(op, declared, [i \in DOMAIN args |-> args[i].shape]),
     data |-> CASE op = "Constant" -> attr
                [] op \in Elementwise -> Arithmetic(op, a, b)
                [] op = "MatMul" -> Product(a, b)
                [] op = "FusedMatMulRelu" -> Relu(Product(a, b))
                [] op = "ReLU" -> Relu(a)
                [] op = "Softmax" -> (a * a + 3) % Modulus
                [] op = "Transpose" -> Modulus - 1 - a
                [] OTHER -> a]

(***************************************************************************)
(* Graph                                                                   *)
(***************************************************************************)
\* failed: a replacement its caller had checked was refused, which is an exception.
EmptyGraph == [order |-> <<>>, node |-> <<>>, edges |-> {}, nextId |-> 1, failed |-> FALSE]
Owns(g, n) == n \in DOMAIN g.node

CreateNode(g, name, op, shape, attr) ==
    [g EXCEPT !.order = Append(@, g.nextId), !.nextId = @ + 1,
              !.node = (g.nextId :> [name |-> name, op |-> op, ins |-> <<>>, outs |-> <<>>,
                                     shape |-> shape, attr |-> attr]) @@ @]

\* An edge is a pair of nodes: a second operand of the same producer is dropped.
Connect(g, from, to) ==
    IF <<from, to>> \in g.edges THEN g
    ELSE [g EXCEPT !.node[from].outs = Append(@, to), !.node[to].ins = Append(@, from),
                   !.edges = @ \cup {<<from, to>>}]

Disconnect(g, from, to) ==
    [g EXCEPT !.node[from].outs = SelectSeq(@, LAMBDA m : m # to),
              !.node[to].ins = SelectSeq(@, LAMBDA m : m # from), !.edges = @ \ {<<from, to>>}]

RemoveNode(g, n) ==
    LET cut == FoldLeft(LAMBDA h, m : Disconnect(h, m, n), g, g.node[n].ins)
        alone == FoldLeft(LAMBDA h, m : Disconnect(h, n, m), cut, g.node[n].outs)
    IN [alone EXCEPT !.order = SelectSeq(@, LAMBDA m : m # n),
                     !.node = [m \in DOMAIN @ \ {n} |-> @[m]]]

First(s, x) == CHOOSE i \in DOMAIN s : s[i] = x /\ \A j \in 1..(i - 1) : s[j] # x

\* replaceInput refuses a consumer that would hold the new producer twice.
Replaceable(g, consumer, old, new) ==
    /\ {consumer, old, new} \subseteq DOMAIN g.node /\ old # new
    /\ old \in Range(g.node[consumer].ins) /\ consumer \in Range(g.node[old].outs)
    /\ <<old, consumer>> \in g.edges /\ new \notin Range(g.node[consumer].ins)

ReplaceInput(g, consumer, old, new) ==
    IF ~Replaceable(g, consumer, old, new) THEN [g EXCEPT !.failed = TRUE]
    ELSE [g EXCEPT !.node[consumer].ins[First(g.node[consumer].ins, old)] = new,
                   !.node[old].outs = RemoveAt(@, First(@, consumer)),
                   !.node[new].outs = Append(@, consumer),
                   !.edges = (@ \ {<<old, consumer>>}) \cup {<<new, consumer>>}]

ReplaceEverywhere(g, old, new) ==
    FoldLeft(LAMBDA h, c : ReplaceInput(h, c, old, new), g, g.node[old].outs)

\* Mutant of ReplaceableEverywhere: a reader may already read the replacement.
ReplaceableEverywhereUnchecked(g, old, new) == Owns(g, new) /\ old # new

\* The preflight of the whole fan-out.
ReplaceableEverywhere(g, old, new) ==
    /\ Owns(g, old) /\ Owns(g, new) /\ old # new
    /\ \A c \in Range(g.node[old].outs) :
        /\ Replaceable(g, c, old, new)
        /\ c \notin Range(g.node[new].outs) /\ <<new, c>> \notin g.edges

(***************************************************************************)
(* The passes                                                              *)
(***************************************************************************)
\* Canonicalization sorts the operands of Add and Multiply by name; which name is smaller is
\* any choice: swapped are the nodes whose operands change places.
Canonicalized(g, swapped) ==
    [g EXCEPT !.node = [n \in DOMAIN @ |-> IF n \in swapped THEN [@[n] EXCEPT !.ins = Reverse(@)] ELSE @[n]]]

ScalarConstant(g, n) == g.node[n].op = "Constant" /\ g.node[n].shape = <<>>
IsValue(g, n, v) == ScalarConstant(g, n) /\ g.node[n].attr = v

\* The operand a node is folded into, or 0: a transpose of a transpose, a reshape to the
\* shape it has, a transfer to where the tensor is, a neutral element.
FoldsInto(g, n) ==
    LET node == g.node[n] in == node.ins producer == g.node[in[1]]
        Neutral(v) == IF IsValue(g, in[2], v) THEN in[1] ELSE IF IsValue(g, in[1], v) THEN in[2] ELSE 0
    IN CASE node.op = "Transpose" /\ Len(in) = 1 /\ producer.op = "Transpose" /\ Len(producer.ins) = 1
                -> producer.ins[1]
         [] node.op = "Reshape" /\ Len(in) = 1 /\ node.shape # <<>> /\ node.shape = producer.shape -> in[1]
         [] node.op = "Transfer" /\ Len(in) = 1 /\ producer.op = "Transfer" /\ node.attr = producer.attr -> in[1]
         [] node.op = "Add" /\ Len(in) = 2 -> Neutral(0)
         [] node.op = "Multiply" /\ Len(in) = 2 -> Neutral(1)
         [] OTHER -> 0

BothConstant(g, n) ==
    Len(g.node[n].ins) = 2 /\ ScalarConstant(g, g.node[n].ins[1]) /\ ScalarConstant(g, g.node[n].ins[2])

\* One node of ConstantFold::run.
FoldAt(g, n) ==
    LET in == g.node[n].ins op == g.node[n].op into == FoldsInto(g, n) IN
    IF BothConstant(g, n)
    THEN IF op \in Elementwise /\ ~(op = "Divide" /\ g.node[in[2]].attr = 0)
         THEN [Disconnect(Disconnect(g, in[1], n), in[2], n) EXCEPT
                  !.node[n].op = "Constant",
                  !.node[n].attr = Arithmetic(op, g.node[in[1]].attr, g.node[in[2]].attr)]
         ELSE g
    ELSE IF into # 0 /\ ReplaceableEverywhere(g, n, into)
         THEN RemoveNode(ReplaceEverywhere(g, n, into), n) ELSE g

\* RemoveDoubleRelu.
DoubleRelu(g, n) ==
    LET in == g.node[n].ins IN
    /\ g.node[n].op = "ReLU" /\ Len(in) = 1 /\ g.node[in[1]].op = "ReLU"
    /\ \A c \in Range(g.node[n].outs) : in[1] \notin Range(g.node[c].ins)
RewriteAt(g, n) == RemoveNode(ReplaceEverywhere(g, n, g.node[n].ins[1]), n)

\* Mutant of Fusible: the product may have other readers.
FusibleShared(g, n) ==
    /\ Owns(g, n) /\ g.node[n].op = "MatMul" /\ g.node[n].outs # <<>>
    /\ LET next == g.node[g.node[n].outs[1]] IN
        next.op = "ReLU" /\ Len(next.ins) = 1 /\ \A c \in Range(next.outs) : n \notin Range(g.node[c].ins)

\* A product whose only reader is a ReLU.
Fusible(g, n) ==
    /\ Owns(g, n) /\ g.node[n].op = "MatMul" /\ Len(g.node[n].outs) = 1
    /\ LET next == g.node[g.node[n].outs[1]] IN
        next.op = "ReLU" /\ Len(next.ins) = 1 /\ \A c \in Range(next.outs) : n \notin Range(g.node[c].ins)

FuseAt(g, n) ==
    LET next == g.node[n].outs[1] IN
    RemoveNode([ReplaceEverywhere(g, next, n) EXCEPT !.node[n].op = "FusedMatMulRelu"], next)

\* One round of DCEPass::run.
Dead(g) == SelectSeq(g.order, LAMBDA n : g.node[n].outs = <<>> /\ g.node[n].op \notin {"Output", "Input"})
DropDead(g) == FoldLeft(LAMBDA h, n : RemoveNode(h, n), g, Dead(g))

(***************************************************************************)
(* GraphVerifier and ShapeInference                                        *)
(***************************************************************************)
NamesUnique(g) == \A m, n \in DOMAIN g.node : g.node[m].name = g.node[n].name => m = n
EdgesAgree(g) ==
    /\ \A e \in g.edges : /\ Owns(g, e[1]) /\ Owns(g, e[2])
                          /\ e[2] \in Range(g.node[e[1]].outs) /\ e[1] \in Range(g.node[e[2]].ins)
    /\ \A n \in DOMAIN g.node :
        /\ \A m \in Range(g.node[n].ins) : <<m, n>> \in g.edges
        /\ \A m \in Range(g.node[n].outs) : <<n, m>> \in g.edges
ArityHolds(g) == \A n \in DOMAIN g.node : Len(g.node[n].ins) = Arity(g.node[n].op)

RECURSIVE Below(_, _)
Below(g, seen) ==
    LET more == seen \cup UNION {Range(g.node[n].outs) : n \in seen} IN
    IF more = seen THEN seen ELSE Below(g, more)
Acyclic(g) == \A n \in DOMAIN g.node : n \notin Below(g, Range(g.node[n].outs))

Verified(g) == NamesUnique(g) /\ EdgesAgree(g) /\ ArityHolds(g) /\ Acyclic(g)

\* infer visits the nodes in storage order; an operand without a shape yet is an error.
InferAt(state, n) ==
    LET node == state.graph.node[n]
        missing == \E m \in Range(node.ins) : m \notin DOMAIN state.shapes
        shape == ResultShape(node.op, node.shape, [i \in DOMAIN node.ins |-> state.shapes[node.ins[i]]])
    IN IF missing \/ shape = Bad THEN [state EXCEPT !.ok = FALSE]
       ELSE [state EXCEPT !.shapes = (n :> shape) @@ @, !.graph.node[n].shape = shape]
Inferred(g) == FoldLeft(InferAt, [graph |-> g, shapes |-> <<>>, ok |-> TRUE], g.order)

\* The tensor of each node, in giving the graph's inputs by name.
Values(g, in) ==
    LET value[n \in DOMAIN g.node] ==
            IF g.node[n].op = "Input"
            THEN [shape |-> ResultShape("Input", g.node[n].shape, <<>>), data |-> in[g.node[n].name]]
            ELSE Apply(g.node[n].op, g.node[n].shape, g.node[n].attr,
                       [i \in DOMAIN g.node[n].ins |-> value[g.node[n].ins[i]]])
    IN value
=============================================================================
