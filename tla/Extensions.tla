----------------------------- MODULE Extensions -----------------------------
(***************************************************************************)
(* Research operations: scalar recipes applied lane by lane to tensors of  *)
(* one shape, with an optional derivative.  Input 1..arity of a gradient   *)
(* recipe is a primal input, arity + 1 the result, arity + 2 the output    *)
(* cotangent.  Identity fields, digests and back ends are left out.        *)
(***************************************************************************)
EXTENDS Integers, Sequences, FiniteSets, SequencesExt, TLC

Node(opcode) == [opcode |-> opcode, left |-> 0, right |-> 0, input |-> 0, constant |-> 0]
InputNode(k) == [Node("Input") EXCEPT !.input = k]
ConstantNode(n) == [Node("Constant") EXCEPT !.constant = n]
BinaryNode(opcode, left, right) == [Node(opcode) EXCEPT !.left = left, !.right = right]
Recipe(inputs, nodes) == [inputs |-> inputs, nodes |-> nodes, root |-> Len(nodes)]

BinaryOpcodes == {"Add", "Subtract", "Multiply", "Divide"}

ValidRecipe(recipe, inputs, mayDivide) ==
    /\ recipe.inputs = inputs
    /\ recipe.root \in DOMAIN recipe.nodes
    /\ \A k \in DOMAIN recipe.nodes :
          LET node == recipe.nodes[k]
          IN /\ node.opcode = "Input" => node.input \in 1..inputs
             /\ node.opcode \in BinaryOpcodes \union {"Negate"} => node.left \in 1..(k - 1)
             /\ node.opcode \in BinaryOpcodes => node.right \in 1..(k - 1)
             /\ node.opcode = "Divide" => mayDivide

\* The inputs a node's value depends on.
Dependencies(recipe) ==
    LET inputs[k \in DOMAIN recipe.nodes] ==
            LET node == recipe.nodes[k]
            IN CASE node.opcode = "Input" -> {node.input}
                 [] node.opcode = "Constant" -> {}
                 [] node.opcode = "Negate" -> inputs[node.left]
                 [] OTHER -> inputs[node.left] \union inputs[node.right]
    IN inputs[recipe.root]

ValidGradient(op, k) ==
    LET gradient == op.gradients[k]
        read == {gradient.nodes[n].input :
                    n \in {n \in DOMAIN gradient.nodes : gradient.nodes[n].opcode = "Input"}}
    IN /\ k \in op.differentiable <=> gradient.nodes # <<>>
       /\ gradient.nodes # <<>> =>
            /\ ValidRecipe(gradient, op.arity + 2, FALSE)
            /\ op.arity + 2 \in Dependencies(gradient)
            /\ read \intersect 1..op.arity \subseteq op.savedInputs
            /\ op.arity + 1 \in read => op.savesOutput

ValidOperation(op) ==
    /\ op.arity \in 1..8 /\ op.like \in 1..op.arity
    /\ 1 <= op.minimumRank /\ op.minimumRank <= op.maximumRank /\ op.maximumRank <= 2
    /\ ValidRecipe(op.forward, op.arity, op.mayTrap)
    /\ op.derivative =>
          /\ op.differentiable \union op.savedInputs \subseteq 1..op.arity
          /\ Len(op.gradients) = op.arity
          /\ \A k \in 1..op.arity : ValidGradient(op, k)

\* prepare: an extension is taken with all of its operations or not at all.
Prepared(registry, extension) ==
    LET names == [k \in DOMAIN registry |-> registry[k].name]
                 \o [k \in DOMAIN extension.operations |-> extension.operations[k].name]
    IN /\ extension.operations # <<>>
       /\ \A k \in DOMAIN registry : registry[k].extension # extension.name
       /\ \A k \in DOMAIN extension.operations : ValidOperation(extension.operations[k])
       /\ IsInjective(names)

Register(registry, extension) ==
    IF ~Prepared(registry, extension) THEN registry
    ELSE registry \o [k \in DOMAIN extension.operations |->
                        extension.operations[k] @@ [extension |-> extension.name]]

\* The extensions that are registered before the registry is frozen, in order.
CONSTANT Loaded
Registry == FoldLeft(Register, <<>>, Loaded)

\* The value of a recipe, or <<>> for a division by zero.
EvaluateRecipe(recipe, inputs) ==
    LET value[k \in DOMAIN recipe.nodes] ==
            LET node == recipe.nodes[k]
                left == value[node.left]
                right == value[node.right]
            IN CASE node.opcode = "Input" -> <<inputs[node.input]>>
                 [] node.opcode = "Constant" -> <<node.constant>>
                 [] left = <<>> -> <<>>
                 [] node.opcode = "Negate" -> <<-left[1]>>
                 [] right = <<>> -> <<>>
                 [] node.opcode = "Add" -> <<left[1] + right[1]>>
                 [] node.opcode = "Subtract" -> <<left[1] - right[1]>>
                 [] node.opcode = "Multiply" -> <<left[1] * right[1]>>
                 [] OTHER -> IF right[1] = 0 THEN <<>> ELSE <<left[1] \div right[1]>>
        divided == {k \in DOMAIN recipe.nodes : value[k] = <<>>}
    IN IF divided # {} THEN <<>> ELSE value[recipe.root]
=============================================================================
