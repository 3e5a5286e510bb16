-------------------------- MODULE MCCheckedProgram --------------------------
(***************************************************************************)
(* Five families of small programs: ownership across branches and loops,   *)
(* scopes and scans, shapes and traps, differentiable expressions, and     *)
(* losses with the requests, batches and deployments that train them.      *)
(***************************************************************************)
EXTENDS TrainingRun

V == TensorType(F32, 1)
M == TensorType(F32, 2)
A == Name("A")
B == Name("B")
P == Name("P")
X == Name("X")
Y == Name("Y")
N == Name("n")
Sum1(e) == CallNamed("sum", <<e, IntLit(0)>>)
Row(numbers) == Literal(<<[k \in DOMAIN numbers |-> RealLit(numbers[k])]>>)
Part(e) == At(e, <<Span(<<IntLit(0)>>, <<IntLit(1)>>, <<>>)>>)
Move(e) == Own("Move", e)
Borrow(e) == Own("MutableBorrow", e)
Copy(e) == Own("Copy", e)

-----------------------------------------------------------------------------
\* Ownership: functions 1 to 4 borrow, consume, read twice and step a scan.
Mutate(e) == Do(Call(1, <<Borrow(e)>>))
Library ==
    <<Fn(<<Param("T", V, "MutableBorrow")>>, F32, <<Return(Sum1(Name("T")))>>),
      Fn(<<Param("T", V, "Consume")>>, V, <<Return(Name("T"))>>),
      Fn(<<Param("S", V, "Read"), Param("T", V, "Read")>>, V, <<Return(Name("T"))>>),
      Fn(<<Param("e", F32, "Read"), Param("S", V, "Read")>>, TupleType(<<F32, V>>),
         <<Return(TupleExpr(<<Name("e"), Name("S")>>))>>)>>

Simple ==
    {Rebind("A", Row(<<1, 2>>)), Rebind("B", Part(A)), Rebind("B", A), Rebind("A", Move(B)),
     Rebind("A", Call(2, <<Move(A)>>)), Rebind("B", Call(3, <<A, Part(B)>>)),
     Mutate(A), Do(Sum1(B))}
Compound ==
    {If(Name("c"), <<s>>, <<>>) : s \in Simple}
    \union {If(Name("c"), <<s>>, << <<t>> >>) : s, t \in Simple}
    \union {For("i", IntLit(0), IntLit(2), <<s, t>>) : s, t \in Simple}
    \union {While(Name("c"), <<s, If(Name("d"), <<t, Break>>, <<>>)>>) : s, t \in Simple}

OwnedPrograms ==
    {Append(Library, Fn(<<Param("P", V, "Read"), Param("c", Bool, "Read"), Param("d", Bool, "Read")>>,
                        F32, <<LetMut("A", Copy(P)), LetMut("B", b), s, last[1], Return(Sum1(last[2]))>>)) :
        b \in {A, Part(A)}, s \in Simple \union Compound,
        last \in {<<Do(Sum1(A)), B>>, <<Mutate(A), B>>, <<Mutate(A), A>>}}

\* Inner scopes, returns and scans that keep or drop what they were given.
Fixed(result, body) ==
    Fn(<<Param("P", V, "Read"), Param("Q", M, "Read"), Param("T", V, "MutableBorrow"),
         Param("c", Bool, "Read")>>, result, body)
RowStep(next) ==
    Fn(<<Param("e", V, "Read"), Param("S", V, "Read")>>, TupleType(<<F32, V>>),
       <<Return(TupleExpr(<<Sum1(Name("e")), next>>))>>)
Use(r) == Do(Call(7, <<r>>))
Scans ==
    <<RowStep(Name("S")), RowStep(Name("e")),
      Fn(<<Param("R", TupleType(<<V, V>>), "Read")>>, F32, <<Return(RealLit(0))>>)>>
Scanned(step) == CallNamed("scan", <<Step(step), Name("Q"), A>>)
Pair(e) == TupleExpr(<<e, A>>)
ScopedBodies ==
    {<<F32, <<LetMut("B", P), If(Name("c"), <<Let("W", Copy(P)), Rebind("B", w)>>, <<>>), Return(Sum1(B))>> >> :
        w \in {Part(Name("W")), Name("W"), Call(3, <<P, Part(Name("W"))>>)}}
    \union {<<V, <<LetMut("A", Copy(P)), LetMut("B", b), t, Return(r)>> >> :
        b \in {A, P, Name("T"), Part(P)}, t \in {Mutate(A), Mutate(B), Do(Sum1(B))},
        r \in {A, B, Part(B), Name("T"), Copy(Name("T"))}}
    \union {<<F32, <<LetMut("A", Copy(P)), Let("R", Scanned(step)), t, u, Return(RealLit(0))>> >> :
        step \in {5, 6}, t \in {Mutate(A), Rebind("A", Copy(A)), Do(Sum1(A))},
        u \in {Use(Name("R")), Use(Scanned(5)), Do(Sum1(A))}}
    \union {<<F32, <<LetMut("A", P), LetMut("R", a), If(Name("c"), <<Rebind("R", b)>>, <<>>), t,
                     Use(Name("R")), Return(Sum1(A))>> >> :
        a, b \in {Pair(A), Pair(Copy(A)), Copy(Pair(A)), Scanned(5)},
        t \in {Do(Sum1(A)), While(Name("c"), <<Rebind("A", Copy(A)), Break>>),
               While(Name("c"), <<Rebind("A", Copy(A))>>)}}
    \union {<<V, <<LetMut("A", Copy(P)),
                   For("i", IntLit(0), IntLit(2),
                       <<For("j", IntLit(0), IntLit(2), <<s, If(Name("c"), <<t>>, <<>>)>>)>>),
                   Return(Copy(A))>> >> :
        s \in {Rebind("A", Call(2, <<Move(A)>>)), Do(Call(2, <<Move(A)>>)), Mutate(A)},
        t \in {Break, Continue, Rebind("A", Copy(P)), Return(A)}}
ScopedPrograms == {Append(Library \o Scans, Fixed(b[1], b[2])) : b \in ScopedBodies}

-----------------------------------------------------------------------------
\* Shapes and traps.
\* "skew" does not save what its gradient reads and is refused; "more" repeats a name.
Unary(name, mayTrap, nodes) ==
    [name |-> name, arity |-> 1, like |-> 1, minimumRank |-> 1, maximumRank |-> 1, mayTrap |-> mayTrap,
     forward |-> Recipe(1, nodes), derivative |-> FALSE, differentiable |-> {}, savedInputs |-> {},
     savesOutput |-> FALSE, gradients |-> <<>>]
Increment == <<InputNode(1), ConstantNode(1), BinaryNode("Add", 1, 2)>>
Shift(name, savesOutput) ==
    [Unary(name, FALSE, Increment) EXCEPT
        !.derivative = TRUE, !.differentiable = {1}, !.savedInputs = {1}, !.savesOutput = savesOutput,
        !.gradients = <<Recipe(3, <<InputNode(2), InputNode(1), BinaryNode("Subtract", 1, 2),
                                    InputNode(3), BinaryNode("Multiply", 4, 3)>>)>>]
Mix ==
    [Unary("mix", FALSE, <<>>) EXCEPT
        !.arity = 2, !.maximumRank = 2,
        !.forward = Recipe(2, <<InputNode(1), InputNode(2), BinaryNode("Multiply", 1, 2),
                                BinaryNode("Add", 3, 1)>>),
        !.derivative = TRUE, !.differentiable = {1, 2}, !.savedInputs = {1, 2},
        !.gradients = <<Recipe(4, <<InputNode(2), ConstantNode(1), BinaryNode("Add", 1, 2), InputNode(4),
                                    BinaryNode("Multiply", 4, 3)>>),
                        Recipe(4, <<InputNode(1), InputNode(4), BinaryNode("Multiply", 1, 2)>>)>>]
Unit ==
    Unary("unit", TRUE, <<InputNode(1), ConstantNode(5), BinaryNode("Divide", 1, 1), BinaryNode("Add", 2, 3)>>)
MCLoaded ==
    <<[name |-> "first", operations |-> <<Mix, Shift("shift", TRUE)>>],
      [name |-> "skewed", operations |-> <<Shift("skew", FALSE)>>],
      [name |-> "more", operations |-> <<Unit, Shift("shift", TRUE)>>],
      [name |-> "second", operations |-> <<Unit>>]>>

Scalars == {At(X, <<Pick(N)>>), At(Y, <<Pick(IntLit(0)), Pick(N)>>), Sum1(X)}
Vectors ==
    {X, Row(<<1, 2>>), Row(<<3>>), Part(X), At(X, <<Span(<<N>>, <<>>, <<>>)>>),
     At(X, <<Span(<<>>, <<N>>, <<>>)>>), At(X, <<Span(<<>>, <<>>, <<N>>)>>), At(Y, <<Pick(N)>>),
     Sum1(Y), CallNamed("unit", <<X>>), CallNamed("mix", <<Row(<<1, 2>>), X>>)}
Matrices == {Y, Transposed(Y), Binary("Multiply", Y, Y), Binary("Multiply", Y, Transposed(Y))}
Whole == {N, Minus(N), Binary("Add", N, IntLit(1)), Binary("Multiply", N, N),
          Sum1(Literal(<< <<N, N>> >>))}

Helper == Fn(<<Param("X", V, "Read"), Param("n", I64, "Read")>>, F32, <<Return(At(X, <<Pick(N)>>))>>)
CountStep(output) ==
    Fn(<<Param("e", F32, "Read"), Param("S", V, "Read")>>, TupleType(<<V, V>>),
       <<Return(TupleExpr(<<Row(<<1, 2>>), output>>))>>)
ShapedBodies ==
    {<<F32, <<Return(e)>> >> : e \in Scalars}
    \union {<<V, <<Return(Binary("Add", a, b))>> >> : a \in Vectors, b \in {X, Row(<<1, 2>>)}}
    \union {<<M, <<Return(Binary(op, a, b))>> >> :
                op \in {"Subtract", "ElementMultiply"}, a \in Matrices, b \in {Y, X, Row(<<1, 2>>)}}
    \union {<<M, <<Return(e)>> >> : e \in Matrices}
    \union {<<I64, <<Return(e)>> >> : e \in Whole}
    \union {<<F32, <<Return(e)>> >> :
                e \in {Call(1, <<X, IntLit(1)>>), Call(1, <<At(Y, <<Pick(N)>>), N>>), Call(4, <<X, Y, N>>)}}
    \union {<<I64, <<LetMut("k", N), For("i", a, b, <<Rebind("k", Binary("Add", Name("k"), Name("i")))>>),
                     Return(Name("k"))>> >> : a \in {IntLit(0), N}, b \in {N, IntLit(7)}}
    \union {<<F32, <<LetMut("Z", a), Rebind("Z", b), Return(At(Name("Z"), <<Pick(IntLit(1))>>))>> >> :
                a \in {Row(<<1, 2>>), X}, b \in {X, Part(X), Row(<<5, 6>>)}}
    \union {<<F32, <<If(BoolLit(b), <<Return(Sum1(X))>>, << <<Return(At(X, <<Pick(N)>>))>> >>)>> >> :
                b \in BOOLEAN}
    \union {<<TupleType(<<M, V>>), <<Return(CallNamed("scan", <<Step(step), X, a>>))>> >> :
                step \in {2, 3}, a \in {X, Row(<<1, 2>>)}}
ShapedEntry(body) ==
    Fn(<<Param("X", V, "Read"), Param("Y", M, "Read"), Param("n", I64, "Read")>>, body[1], body[2])
ShapedPrograms ==
    {<<Helper, CountStep(Name("S")), CountStep(Binary("Add", Name("S"), Row(<<1, 2>>))), ShapedEntry(b)>> :
        b \in ShapedBodies}

-----------------------------------------------------------------------------
\* Differentiable expressions: the entry's parameters are k, X and Y.
K == Name("k")
Terms ==
    {X, Minus(X), Binary("Add", X, Y), Binary("Subtract", Y, X), Binary("ElementMultiply", X, Y),
     Binary("Multiply", K, X), CallNamed("mix", <<X, Y>>), CallNamed("shift", <<Y>>), CallNamed("skew", <<Y>>),
     CallNamed("stop_gradient", <<X>>)}
Outer(t) ==
    {t, Sum1(t), Binary("ElementMultiply", t, X), Binary("Subtract", K, t),
     CallNamed("mix", <<X, t>>), CallNamed("mix", <<t, t>>)}
SmoothBodies ==
    {<<IF o = Sum1(t) THEN F32 ELSE V, <<Let("Z", o), Return(Name("Z"))>> >> :
        <<t, o>> \in UNION {{t} \X Outer(t) : t \in Terms}}
    \union {<<F32, <<Return(e)>> >> : e \in {K, Binary("Multiply", K, K), Sum1(Binary("Multiply", K, X))}}
SmoothPrograms ==
    {<<Fn(<<Param("k", F32, "Read"), Param("X", V, "Read"), Param("Y", V, "Read")>>, b[1], b[2])>> :
        b \in SmoothBodies}
    \union {<<Fn(<<Param("Y", M, "Read"), Param("X", V, "Read")>>, b[1], <<Return(b[2])>>)>> :
        b \in {<<M, Binary("Multiply", Y, Transposed(Y))>>,
               <<M, Binary("ElementMultiply", Binary("Multiply", Transposed(Y), Y), X)>>,
               <<V, Sum1(Binary("Subtract", Y, X))>>,
               <<V, CallNamed("sum", <<Transposed(Binary("ElementMultiply", X, Y)), IntLit(1)>>)>>,
               <<V, Binary("Add", X, Sum1(Y))>>}}

-----------------------------------------------------------------------------
\* Training: a loss of two parameters of one type with the inference that uses them, and a loss
\* of a scalar with one that cannot be stepped because it also reads a whole number.
Residual == Binary("Subtract", Binary("Add", Binary("ElementMultiply", X, A), B), Y)
MCLosses ==
    {<<Fn(<<Param("X", V, "Read"), Param("A", V, "Read"), Param("B", V, "Read")>>, V,
          <<Return(Binary("Add", Binary("ElementMultiply", X, A), B))>>),
       Fn(<<Param("X", V, "Consume"), Param("A", V, "Read"), Param("B", V, "Read"), Param("Y", V, "Read")>>, F32,
          <<Let("Z", Residual), Return(Sum1(Binary("ElementMultiply", Name("Z"), Name("Z"))))>>)>>,
     <<Fn(<<Param("k", F32, "Read"), Param("X", V, "Consume")>>, F32,
          <<Return(Binary("Multiply", K, Sum1(Binary("Multiply", K, X))))>>),
       Fn(<<Param("k", F32, "Read"), Param("n", I64, "Read")>>, F32, <<Return(Binary("Multiply", K, K))>>)>>}

Sgd(rate) == [kind |-> "SGD", rate |-> rate, momentum |-> 0]
Momentum(rate, momentum) == [kind |-> "SGDMomentum", rate |-> rate, momentum |-> momentum]
Asked(function, trained, optimizer) ==
    [function |-> function, trained |-> trained, optimizer |-> optimizer]
MCPlanRequests ==
    {Asked(2, <<2, 3>>, Momentum(1, 1)), Asked(2, <<3, 2>>, Momentum(1, 1)), Asked(1, <<1>>, Sgd(2)),
     Asked(2, <<1>>, Sgd(1))}
    \union {Asked(2, <<2>>, o) : o \in {Sgd(-1), Sgd(NaN), Sgd(Infinity), Momentum(1, 2), Momentum(1, NaN)}}
    \union {Asked(1, <<2>>, Sgd(1)), Asked(3, <<1>>, Sgd(1)), Asked(2, <<>>, Sgd(1)),
            Asked(2, <<2, 2>>, Sgd(1)), Asked(2, <<5>>, Sgd(1)), Asked(2, <<2>>, Sgd(1))}

Ramp(extent, from) == TensorValue("f32", <<extent>>, [c \in Coordinates(<<extent>>) |-> from + c[1]])
MCInitials(types) ==
    IF types = <<V, V>> THEN {<<Ramp(1, 1), Ramp(1, 3)>>, <<Ramp(2, 1), Ramp(1, 3)>>, <<Ramp(1, 1)>>}
    ELSE {<<Float(2)>>, <<Ramp(1, 1)>>}
MCBatches(step) ==
    LET x == <<1, Ramp(2, 1 + step)>>
        y == <<4, Ramp(2, 2)>>
    IN {<<x, y>>, <<y>>, <<x, x, y>>, <<x, y, <<2, Ramp(1, 5)>> >>, <<x, <<4, Float(1)>> >>,
        <<<<1, Ramp(3, 1)>>, y>>, <<<<2, Ramp(2, 1 + step)>> >>, <<<<2, Int64(1)>> >> }

Slot1(extent) == [type |-> V, shape |-> <<extent>>]
EntryOf(x, a, b) == [parameters |-> <<Slot1(x), Slot1(a), Slot1(b)>>, result |-> Slot1(2)]
Artifact(backend, identity, entry) == [backend |-> backend, identity |-> identity, entry |-> entry]
Request(identity, publicBindings, parameterBindings) ==
    [identity |-> identity, publicInputs |-> <<Slot1(2)>>, result |-> Slot1(2),
     publicBindings |-> publicBindings, parameterBindings |-> parameterBindings]
Deployment(request, artifacts) == [request |-> request, artifacts |-> artifacts]
Direct == Request("one", <<<<1, 1>> >>, <<<<2, 2>>, <<3, 3>> >>)
MCDeployments ==
    {Deployment(Direct, <<Artifact("cpu", "one", EntryOf(2, a, 1)), Artifact("gpu", "one", EntryOf(2, a, 1))>>) :
        a \in {1, 2}}
    \union {Deployment(Request("one", <<<<1, 1>> >>, <<<<3, 3>>, <<2, 2>> >>),
                       <<Artifact("cpu", "one", EntryOf(2, 1, 1))>>),
            Deployment(Request("one", <<<<1, 1>> >>, <<<<2, 2>> >>), <<Artifact("cpu", "one", EntryOf(2, 1, 1))>>),
            Deployment(Request("one", <<<<1, 2>> >>, <<<<2, 2>>, <<3, 3>> >>),
                       <<Artifact("cpu", "one", EntryOf(2, 1, 1))>>),
            Deployment(Direct, <<Artifact("cpu", "two", EntryOf(2, 1, 1))>>),
            Deployment(Direct, <<Artifact("cpu", "one", EntryOf(1, 1, 1))>>),
            Deployment(Direct, <<Artifact("cpu", "one", EntryOf(2, 1, 1)), Artifact("gpu", "one", EntryOf(2, 1, 2))>>)}
MCPublicInputs == {<<Ramp(2, 4)>>, <<Ramp(1, 4)>>, <<>>}

-----------------------------------------------------------------------------
MCPrograms ==
    OwnedPrograms \union ScopedPrograms \union ShapedPrograms \union SmoothPrograms \union MCLosses

\* Numbers that differ from place to place, one of them 0.
Filled(shape) == TensorValue("f32", shape, [c \in Coordinates(shape) |-> 2 * c[1] + 3 * c[Len(c)] - 5])
MCArguments(t) ==
    CASE t = Bool -> {Boolean(TRUE), Boolean(FALSE)}
      [] t = I64 -> {Int64(-1), Int64(0), Int64(1), Int64(MaxI64)}
      [] t = F32 -> {Float(2)}
      [] t = V -> {Filled(<<1>>), Filled(<<3>>)}
      [] t = M -> {Filled(<<1, 3>>), Filled(<<2, 2>>)}
MCSeeds(v) ==
    {IF IsTensorValue(v)
     THEN TensorValue("f32", v.shape, [c \in DOMAIN v.at |-> 1 + c[1] + 2 * c[Len(c)]])
     ELSE Float(3)}
=============================================================================
