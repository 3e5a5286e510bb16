---------------------------- MODULE ModuleLinker -----------------------------
(***************************************************************************)
(* The front end of the legacy compiler after parsing                      *)
(* (frontend/ModuleLinker.cpp): modules are visited depth first along      *)
(* their imports, names are validated, recursion is refused, and every     *)
(* function is expanded in place into one Graph.                           *)
(*                                                                         *)
(* A program maps a module to its imports <<alias, target>>, its functions *)
(* and its statements; a reference is <<alias, name>>, the alias being ""  *)
(* for a name of the same module.  The limits on depth and size are left   *)
(* out, as are the conversions of numeric literals.                        *)
(***************************************************************************)
EXTENDS LegacyGraph

CONSTANT Entry      \* the module the compiler is given

IsCall(s) == s.op = "call"

(***************************************************************************)
(* visit                                                                   *)
(***************************************************************************)
\* A visit under way: the modules being visited, outermost first, each with the import it
\* is at; the modules finished in order, their resolved imports, and whether an error was
\* reported.
StartVisit == [stack |-> <<<<Entry, 1>>>>, order |-> <<>>, imports |-> <<>>, ok |-> TRUE]

Visiting(v) == v.stack # <<>>

\* Whether an import adds a module: not itself, none being visited, a new alias and target.
Resolved(v, so, m, i) ==
    i[2] \notin {v.stack[k][1] : k \in DOMAIN v.stack} /\ ~\E j \in Range(so) : j[1] = i[1] \/ j[2] = i[2]

\* An import that adds nothing is an error, unless it repeats one word for word.
Repeats(so, i) == i \in Range(so)

\* One import of the module on top, or its end.
VisitStep(p, v) ==
    LET m == Last(v.stack)[1] at == Last(v.stack)[2] imports == p[m].imports
        so == IF m \in DOMAIN v.imports THEN v.imports[m] ELSE <<>>
        i == imports[at]
        next == [v EXCEPT !.stack[Len(v.stack)][2] = at + 1]
    IN IF ~p[m].parses THEN [v EXCEPT !.stack = Front(@), !.ok = FALSE]
       ELSE IF at > Len(imports)
       THEN [v EXCEPT !.stack = Front(@), !.order = Append(@, m), !.imports = (m :> so) @@ @]
       ELSE IF Resolved(v, so, m, i)
       THEN [next EXCEPT !.imports = (m :> Append(so, i)) @@ @,
                         !.stack = IF i[2] \in Range(v.order) THEN @ ELSE Append(@, <<i[2], 1>>)]
       ELSE [next EXCEPT !.ok = @ /\ Repeats(so, i)]

(***************************************************************************)
(* resolveFunction, collectAndValidate                                     *)
(***************************************************************************)
Targets(v, m, ref) ==
    IF ref[1] = "" THEN {m} ELSE {i[2] : i \in {j \in Range(v.imports[m]) : j[1] = ref[1]}}

\* The functions a reference can mean, as <<module, position>>; at most one in a valid program.
Callees(p, v, m, ref) ==
    {f \in UNION {{<<t, k>> : k \in DOMAIN p[t].functions} : t \in Targets(v, m, ref)} :
        /\ p[f[1]].functions[f[2]].name = ref[2]
        /\ ref[1] # "" => p[f[1]].functions[f[2]].exported}
Callee(p, v, m, ref) == CHOOSE f \in Callees(p, v, m, ref) : TRUE
Function(p, f) == p[f[1]].functions[f[2]]

CallFits(p, v, m, s) ==
    IsCall(s) => /\ Callees(p, v, m, s.callee) # {}
                 /\ Len(Function(p, Callee(p, v, m, s.callee)).params) = Len(s.args)

\* A function's body: parameters and locals are new names, operands are parameters or
\* earlier locals, no input or output, and what is returned is one of its names.
BodyValid(p, v, m, f) ==
    LET before(k) == Range(f.params) \cup {f.locals[j].name : j \in 1..(k - 1)} IN
    /\ \A i, j \in DOMAIN f.params : f.params[i] = f.params[j] => i = j
    /\ \A k \in DOMAIN f.locals :
        LET s == f.locals[k] IN
        /\ s.name \notin before(k) /\ s.op \notin {"Input", "Output"} /\ CallFits(p, v, m, s)
        /\ \A r \in Range(s.args) : r[1] = "" /\ r[2] \in before(k)
    /\ f.returned \in before(Len(f.locals) + 1)

ModuleValid(p, v, m) ==
    LET aliases == {i[1] : i \in Range(v.imports[m])}
        names == [k \in DOMAIN p[m].functions |-> p[m].functions[k].name]
                 \o [k \in DOMAIN p[m].statements |-> p[m].statements[k].name]
    IN /\ \A i, j \in DOMAIN names : names[i] = names[j] => i = j
       /\ Range(names) \cap aliases = {}
       /\ \A f \in Range(p[m].functions) : BodyValid(p, v, m, f)
       /\ \A s \in Range(p[m].statements) :
            /\ CallFits(p, v, m, s) /\ (IsCall(s) => \A r \in Range(s.args) : r[1] = "")
            /\ m # Entry => s.op \notin {"Input", "Output"}

Validated(p, v) == \A m \in Range(v.order) : ModuleValid(p, v, m)

(***************************************************************************)
(* buildCallGraph: depth first, in the order of the functions              *)
(***************************************************************************)
Functions(p, v) == UNION {{<<m, k>> : k \in DOMAIN p[m].functions} : m \in Range(v.order)}
CalledBy(p, v, f) ==
    LET calls == SelectSeq(Function(p, f).locals, IsCall) IN
    [k \in DOMAIN calls |-> Callee(p, v, f[1], calls[k].callee)]

\* Mutant of Recursive: a function that was left counts as one that is being visited.
RecursiveIfSeen(search, f) == f \in search.grey \cup search.black

Recursive(search, f) == f \in search.grey

RECURSIVE Search(_, _, _, _)
Search(p, v, search, f) ==
    IF search.cycle \/ f \in search.black THEN search
    ELSE IF Recursive(search, f) THEN [search EXCEPT !.cycle = TRUE]
    ELSE LET below == FoldLeft(LAMBDA s, c : IF Recursive(s, c) THEN [s EXCEPT !.cycle = TRUE]
                                             ELSE Search(p, v, s, c),
                               [search EXCEPT !.grey = @ \cup {f}], CalledBy(p, v, f))
         IN [below EXCEPT !.grey = @ \ {f}, !.black = @ \cup {f}]

CallsCycle(p, v) ==
    FoldLeft(LAMBDA s, f : Search(p, v, s, f), [grey |-> {}, black |-> {}, cycle |-> FALSE],
             SetToSeq(Functions(p, v))).cycle

(***************************************************************************)
(* lower                                                                   *)
(***************************************************************************)
\* Lowering under way: the graph, the nodes of module values, the number of calls expanded,
\* and whether every name was resolved.
StartLowering == [graph |-> EmptyGraph, symbols |-> <<>>, calls |-> 0, ok |-> TRUE]

\* createOperation: the node is made and its operands connected in turn; a name that is not
\* in scope is an error.
CreateOperation(state, s, name, scope) ==
    LET id == state.graph.nextId
        made == CreateNode(state.graph, name, s.op, s.shape, s.attr)
        known == SelectSeq(s.args, LAMBDA r : r \in DOMAIN scope)
    IN [state EXCEPT !.graph = FoldLeft(LAMBDA h, r : Connect(h, scope[r], id), made, known),
                     !.ok = @ /\ Len(known) = Len(s.args) /\ (s.op \in Nullary => s.args = <<>>)]

\* FunctionInliner::localName: unique to the call.
LocalName(call, f, k, local) == <<"call", call, f, k, local>>

\* expand: the nodes of a call, the returned local under the name the caller gives.  The
\* result is the state and the node returned.
RECURSIVE Expand(_, _, _, _, _, _)
Expand(p, v, state, f, arguments, name) ==
    LET fn == Function(p, f) call == state.calls
        scope == [r \in {<<"", x>> : x \in Range(fn.params)} |->
                    arguments[CHOOSE i \in DOMAIN fn.params : fn.params[i] = r[2]]]
        Local(acc, k) ==
            LET s == fn.locals[k]
                target == IF s.name = fn.returned THEN name ELSE LocalName(call, f, k, s.name)
                made == CreateOperation(acc.state, s, target, acc.scope)
                called == Expand(p, v, acc.state, Callee(p, v, f[1], s.callee),
                                 [i \in DOMAIN s.args |-> acc.scope[s.args[i]]], target)
            IN IF IsCall(s)
               THEN [state |-> called.state, scope |-> (<<"", s.name>> :> called.node) @@ acc.scope]
               ELSE [state |-> made, scope |-> (<<"", s.name>> :> acc.state.graph.nextId) @@ acc.scope]
        body == FoldLeft(Local, [state |-> [state EXCEPT !.calls = @ + 1], scope |-> scope],
                         [k \in DOMAIN fn.locals |-> k])
    IN [state |-> body.state, node |-> body.scope[<<"", fn.returned>>]]

NodeName(m, k, s) == IF m = Entry THEN <<"value", s.name>> ELSE <<"module", m, k, s.name>>

\* One statement of lower: its scope is the earlier values of its module and what other
\* modules export.
LowerStatement(p, v, state, m, k) ==
    LET s == p[m].statements[k]
        own == [r \in {<<"", x[2]>> : x \in {y \in DOMAIN state.symbols : y[1] = m}} |-> state.symbols[<<m, r[2]>>]]
        foreign == {r \in Range(s.args) : r[1] # ""}
        Source(r) == {t \in Targets(v, m, r) :
                        \E x \in Range(p[t].statements) : x.exported /\ x.name = r[2]}
        scope == [r \in {q \in foreign : Source(q) # {}} |->
                    state.symbols[<<CHOOSE t \in Source(r) : TRUE, r[2]>>]] @@ own
        found == \A r \in Range(s.args) : r \in DOMAIN scope
        made == CreateOperation(state, s, NodeName(m, k, s), scope)
        called == Expand(p, v, state, Callee(p, v, m, s.callee),
                         [i \in DOMAIN s.args |-> scope[s.args[i]]], NodeName(m, k, s))
    IN IF ~found THEN [state EXCEPT !.ok = FALSE]
       ELSE IF IsCall(s) THEN [called.state EXCEPT !.symbols = (<<m, s.name>> :> called.node) @@ @]
       ELSE [made EXCEPT !.symbols = (<<m, s.name>> :> state.graph.nextId) @@ @]

LowerModule(p, v, state, m) ==
    FoldLeft(LAMBDA acc, k : IF acc.ok THEN LowerStatement(p, v, acc, m, k) ELSE acc, state,
             [k \in DOMAIN p[m].statements |-> k])

(***************************************************************************)
(* What a program means, from its source alone                             *)
(***************************************************************************)
SourceTargets(p, m, ref) ==
    IF ref[1] = "" THEN m ELSE (CHOOSE i \in Range(p[m].imports) : i[1] = ref[1])[2]

RECURSIVE CallMeans(_, _, _, _)
CallMeans(p, m, name, args) ==
    LET f == CHOOSE g \in Range(p[m].functions) : g.name = name
        start == [x \in Range(f.params) |-> args[CHOOSE i \in DOMAIN f.params : f.params[i] = x]]
        Bind(env, s) ==
            LET operands == [i \in DOMAIN s.args |-> env[s.args[i][2]]] IN
            (s.name :> IF IsCall(s) THEN CallMeans(p, SourceTargets(p, m, s.callee), s.callee[2], operands)
                       ELSE Apply(s.op, s.shape, s.attr, operands)) @@ env
    IN FoldLeft(Bind, start, f.locals)[f.returned]

RECURSIVE ValueMeans(_, _, _, _)
ValueMeans(p, m, name, in) ==
    LET s == CHOOSE t \in Range(p[m].statements) : t.name = name
        operands == [i \in DOMAIN s.args |-> ValueMeans(p, SourceTargets(p, m, s.args[i]), s.args[i][2], in)]
    IN IF IsCall(s) THEN CallMeans(p, SourceTargets(p, m, s.callee), s.callee[2], operands)
       ELSE IF s.op = "Input" THEN [shape |-> ResultShape("Input", s.shape, <<>>), data |-> in[NodeName(m, 0, s)]]
       ELSE Apply(s.op, s.shape, s.attr, operands)
=============================================================================
