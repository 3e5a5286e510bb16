----------------------------- MODULE MCGpuPending -----------------------------
(***************************************************************************)
(* Programs for GpuPending: the ways a walk can take.                      *)
(***************************************************************************)
EXTENDS GpuPending

Node(op, deps, slot) == [op |-> op, deps |-> deps, slot |-> slot, traps |-> FALSE, index |-> 1,
                         content |-> <<>>]
Traps(n) == [n EXCEPT !.traps = TRUE]
Input == Node("input", <<>>, 0)
Literal2 == [Node("literal", <<>>, 1) EXCEPT !.content = <<1, 2>>]
AtIndex(n, index) == [n EXCEPT !.index = index]

\* Two checked sums; the second reuses the slot of a value that is dead.
CheckedSums ==
    [nodes |-> <<Input, Input, Traps(Node("group", <<1, 2>>, 1)), Node("alias", <<3>>, 1),
                 Traps(Node("group", <<4, 2>>, 2)), Node("copy", <<5>>, 1)>>, outputs |-> <<6>>]

\* A literal of device scalars, with an index that may be out of bounds.
Elements(index) ==
    [nodes |-> <<Input, AtIndex(Node("index", <<1>>, 0), 1), AtIndex(Node("index", <<1>>, 0), index),
                 Node("stack", <<2, 3>>, 1)>>, outputs |-> <<4>>]

\* A host literal and a plain sum; the output is a scalar of the host.
HostScalar ==
    [nodes |-> <<Input, [Node("integer", <<>>, 0) EXCEPT !.content = <<7>>]>>, outputs |-> <<2>>]

LiteralSum ==
    [nodes |-> <<Input, Literal2, Node("group", <<2>>, 2)>>, outputs |-> <<3>>]

\* A raw kernel with two outputs.
RawKernel ==
    [nodes |-> <<Node("bytes", <<>>, 0), Node("bytes", <<>>, 0), Node("output", <<1, 2>>, 0),
                 Node("output", <<1, 2>>, 0), Node("kernel", <<1, 2>>, 0)>>, outputs |-> <<3, 4>>]

MCPrograms == {CheckedSums, Elements(2), Elements(3), HostScalar, LiteralSum, RawKernel}
MCShapes == {<<2>>, <<0>>}
MCStepSet == {1}
MCCopyOf == <<>>
=============================================================================
