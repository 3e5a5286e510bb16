-------------------------- MODULE MCLegacyCompiler ---------------------------
(***************************************************************************)
(* Three families of programs: every way three modules can import and call *)
(* each other; one module with three operations among those the passes     *)
(* rewrite; one module with two operations of any kind.                    *)
(***************************************************************************)
EXTENDS LegacyCompiler

Stmt(name, op, args, shape, attr) ==
    [name |-> name, op |-> op, args |-> args, shape |-> shape, attr |-> attr, exported |-> FALSE,
     callee |-> <<"", "f">>]
CallStmt(name, callee, args) == [Stmt(name, "call", args, <<>>, 0) EXCEPT !.callee = callee]
Ref(name) == <<"", name>>
Square == <<2, 2>>
Rows == <<-1, 2>>

(***************************************************************************)
(* Three modules                                                           *)
(***************************************************************************)
Alias == <<"a1", "a2", "a3">>
ImportLists(S) == {SelectSeq(<<<<"a1", 1>>, <<"a2", 2>>, <<"a3", 3>>>>, LAMBDA i : i[2] \in s) : s \in SUBSET S}

\* A function of module m: of its own, or through module k twice, its locals named alike.
Bodies(m) ==
    {<<Stmt("q", "ReLU", <<Ref("p")>>, <<>>, 0)>>, <<>>}
    \cup {<<CallStmt("q", <<IF k = m THEN "" ELSE Alias[k], "f">>, <<Ref("p")>>),
            CallStmt("r", <<IF k = m THEN "" ELSE Alias[k], "f">>, <<Ref("q")>>)>> : k \in 2..3}

Fn(body, exported) ==
    [name |-> "f", params |-> <<"p">>, locals |-> body, exported |-> exported,
     returned |-> IF body = <<>> THEN "p" ELSE Last(body).name]

EntryBody(k) ==
    <<Stmt("x", "Input", <<>>, Square, 0), CallStmt("y", <<Alias[k], "f">>, <<Ref("x")>>),
      Stmt("z", "Add", <<Ref("y"), <<"a3", "c">>>>, <<>>, 0), Stmt("o", "Output", <<Ref("z")>>, <<>>, 0)>>

Module(imports, functions, statements, parses) ==
    [imports |-> imports, functions |-> functions, statements |-> statements, parses |-> parses]

\* The third module keeps its function or its constant to itself, or does not parse.
Linked ==
    {Module(i, <<>>, EntryBody(k), TRUE) : i \in ImportLists({2, 3}), k \in 2..3}
    \X {Module(i, <<Fn(body, TRUE)>>, <<>>, TRUE) : i \in ImportLists(1..3), body \in Bodies(2)}
    \X {Module(i, <<Fn(body, public[1])>>,
               <<[Stmt("c", "Constant", <<>>, <<>>, 3) EXCEPT !.exported = public[2]]>>, public[3]) :
            i \in ImportLists({1, 2}), body \in Bodies(3),
            public \in {e \in BOOLEAN \X BOOLEAN \X BOOLEAN : Cardinality({k \in 1..3 : ~e[k]}) <= 1}}

(***************************************************************************)
(* One module                                                              *)
(***************************************************************************)
Local == <<"x", "k", "s1", "s2", "s3">>
Of(n, ops, shapes, attrs) ==
    {Stmt(Local[n + 1], op, <<Ref(Local[i])>>, shape, attr) :
        op \in ops, i \in 1..n, shape \in shapes, attr \in attrs}
Pairs(n, ops) ==
    {Stmt(Local[n + 1], op, <<Ref(Local[i]), Ref(Local[j])>>, <<>>, 0) : op \in ops, i \in 1..n, j \in 1..n}
DistinctPairs(n, ops) == {s \in Pairs(n, ops) : s.args[1] # s.args[2]}

One(shape, constant, body, extra) ==
    <<Module(<<>>, <<>>,
             <<Stmt("x", "Input", <<>>, shape, 0), Stmt("k", "Constant", <<>>, <<>>, constant)>> \o body
             \o <<Stmt("o", "Output", <<Ref(Last(body).name)>>, <<>>, 0)>>
             \o IF extra THEN <<Stmt("e", "Output", <<Ref(body[Len(body) - 1].name)>>, <<>>, 0)>> ELSE <<>>,
             TRUE)>>

Op(n) == Of(n, {"ReLU", "Transpose"}, {<<>>}, {0}) \cup DistinctPairs(n, {"MatMul"})
         \cup {s \in DistinctPairs(n, {"Add"}) : s.args[1] = Ref(Local[n])}
Rewritten ==
    {One(Square, 0, <<s1, s2, s3>>, extra) : s1 \in Op(2), s2 \in Op(3), s3 \in Op(4), extra \in BOOLEAN}

AnyOp(n) == Of(n, {"Softmax", "ReLU"}, {<<>>}, {0}) \cup Of(n, {"Reshape"}, {<<4>>, Square}, {0})
            \cup Of(n, {"Transfer"}, {<<>>}, {1, 2}) \cup Pairs(n, {"Divide", "Subtract", "Multiply"})
Varied ==
    {One(shape, constant, <<s1, s2>>, TRUE) :
        shape \in {Square, Rows, <<>>}, constant \in {0, 1}, s1 \in AnyOp(2), s2 \in AnyOp(3)}

MCPrograms == <<Linked, Rewritten, Varied>>
=============================================================================
