----------------------------- MODULE Ownership -----------------------------
(***************************************************************************)
(* The ownership analysis of a verified module: a backward may-liveness of *)
(* bindings, then a forward walk that follows availability and the logical *)
(* resources and view roots of every value, then effect summaries and an   *)
(* audit of all of them.  Errors are the ids of the diagnostics; spans,    *)
(* view ids and the facts kept only for dumps are left out.                *)
(***************************************************************************)
EXTENDS Verifier

-----------------------------------------------------------------------------
(* What a value may refer to, and how it came to.                          *)

NoResource ==
    [kind |-> "NoResource", resources |-> {}, roots |-> {}, source |-> 0, elements |-> <<>>]

RECURSIVE AllResources(_), AllRoots(_), Combine(_, _), Leaves(_, _, _, _, _), AliasItems(_)
AllResources(v) ==
    v.resources \union UNION {AllResources(v.elements[k]) : k \in DOMAIN v.elements}
AllRoots(v) == v.roots \union UNION {AllRoots(v.elements[k]) : k \in DOMAIN v.elements}
Intersects(a, b) == a \intersect b # {}

Combine(a, b) ==
    IF a = b THEN a
    ELSE [kind |-> IF a.kind = b.kind THEN a.kind ELSE "PossibleAlias",
          resources |-> a.resources \union b.resources,
          roots |-> a.roots \union b.roots,
          source |-> IF a.source = b.source THEN a.source ELSE 0,
          elements |-> IF Len(a.elements) = Len(b.elements)
                       THEN [k \in DOMAIN a.elements |-> Combine(a.elements[k], b.elements[k])]
                       ELSE <<>>]

\* A new resource for every tensor in a type, which may also be any of those in from.
Leaves(site, type, path, from, kind) ==
    IF ~ResourceType(type) THEN NoResource
    ELSE IF IsTuple(type)
    THEN [NoResource EXCEPT !.kind = kind,
                            !.elements = [k \in DOMAIN type.elements |->
                                Leaves(site, type.elements[k], Append(path, k), from, kind)]]
    ELSE [NoResource EXCEPT !.kind = kind,
                            !.resources = {<<site, path>>} \union UNION {AllResources(v) : v \in from},
                            !.roots = UNION {AllRoots(v) : v \in from}]
TypedFresh(site, type) == Leaves(site, type, <<>>, {}, "Fresh")
CopyOf(site, type) == Leaves(site, type, <<>>, {}, "IndependentCopyOf")

\* A loaded value is an alias at its top only: the elements of a tuple keep their kinds.
Alias(v) ==
    [v EXCEPT !.kind = IF v.resources = {} /\ v.elements = <<>> THEN "NoResource" ELSE "AliasOf"]
\* Mutant: the items keep their kinds.
ItemsUnchanged(v) == v
\* The items of a new tuple are aliases all the way down.
AliasItems(v) ==
    [v EXCEPT !.kind = IF v.resources = {} THEN @ ELSE "AliasOf",
              !.elements = [k \in DOMAIN @ |-> AliasItems(@[k])]]

\* A view is rooted in the roots of its base, or in the binding its base was loaded from.
ViewRoots(base) == IF AllRoots(base) # {} THEN AllRoots(base) ELSE {base.source} \ {0}

-----------------------------------------------------------------------------
(* Liveness: after[b, k] is what may be loaded after step k of block b.    *)

Universe(f) ==
    {p.binding : p \in Range(f.parameters)}
    \union UNION {{meta.id : meta \in Range(f.blocks[b].bindings)} : b \in DOMAIN f.blocks}

RECURSIVE LiveBlock(_, _, _, _, _, _), LiveLoop(_, _, _, _, _, _)

LiveBlock(f, b, exit, breakExit, continueExit, after) ==
    LET steps == f.blocks[b].steps
        structured(r, s, k) ==
            IF s.kind = "If"
            THEN LET yes == LiveBlock(f, s.thenBlock, r.exit, breakExit, continueExit, r.after)
                     no == IF s.elseBlock = 0 THEN [exit |-> r.exit, after |-> yes.after]
                           ELSE LiveBlock(f, s.elseBlock, r.exit, breakExit, continueExit, yes.after)
                 IN [exit |-> yes.exit \union no.exit, after |-> no.after]
            ELSE IF s.kind = "Scan" THEN r
            ELSE LiveLoop(f, s, r.exit, r.exit, Cardinality(Universe(f)) + 1, r.after)
        visit(r, k) ==
            LET s == steps[k]
                at == [r EXCEPT !.after = With(@, <<b, k>>, r.exit)]
            IN CASE s.step = "instruction" /\ s.op = "LoadBinding" ->
                        [at EXCEPT !.exit = @ \union {s.binding}]
                 [] s.step = "instruction" /\ s.op = "Move" -> [at EXCEPT !.exit = @ \ {s.binding}]
                 [] s.step = "write" -> [at EXCEPT !.exit = @ \ {s.binding}]
                 [] s.step = "flow" ->
                        [at EXCEPT !.exit = CASE s.kind = "Return" -> {}
                                              [] s.kind = "Break" -> breakExit
                                              [] OTHER -> continueExit]
                 [] s.step = "structured" -> structured(at, s, k)
                 [] OTHER -> at
        done == FoldLeft(visit, [exit |-> exit, after |-> after],
                         Reverse([k \in DOMAIN steps |-> k]))
    IN [done EXCEPT !.exit = @ \ {meta.id : meta \in Range(f.blocks[b].bindings)}]

\* Mutant: the liveness of a loop's body without its back edge.
LiveLoopOnce(f, s, exit, head, rounds, after) ==
    LET body == LiveBlock(f, s.bodyBlock, exit, exit, exit, after)
        open == exit \union body.exit
    IN IF s.kind = "While" THEN LiveBlock(f, s.conditionBlock, open, {}, {}, body.after)
       ELSE [exit |-> open, after |-> body.after]

\* What may be loaded at the head of a loop is a fixed point over its back edge; when the
\* rounds run out every binding is taken to be live.
LiveLoop(f, s, exit, head, rounds, after) ==
    LET body == LiveBlock(f, s.bodyBlock, head, exit, head, after)
        open == exit \union body.exit
        condition(live, r) ==
            IF s.kind = "While" THEN LiveBlock(f, s.conditionBlock, live, {}, {}, r.after)
            ELSE [exit |-> {}, after |-> r.after]
        next == open \union condition(open, body).exit
        every == head \union Universe(f)
        given == condition(every, LiveBlock(f, s.bodyBlock, every, exit, every, after))
    IN CASE rounds < 0 -> [exit |-> every, after |-> given.after]
         [] next = head -> [exit |-> head, after |-> condition(open, body).after]
         [] OTHER -> LiveLoop(f, s, exit, next, rounds - 1, condition(open, body).after)

-----------------------------------------------------------------------------
(* The forward walk.  Its result c keeps, for the function c.f of c.m, the *)
(* provenance of values and the errors so far.  A state maps bindings to   *)
(* what they may hold and whether they are available.                      *)

Error(c, holds, id) == IF holds THEN c ELSE [c EXCEPT !.errors = @ \union {id}]
Get(c, id) == IF id \in DOMAIN c.values THEN c.values[id] ELSE NoResource
Remember(c, id, value) ==
    [c EXCEPT !.values = With(@, id, IF id \in DOMAIN @ THEN Combine(@[id], value) ELSE value)]

Available == "DefinitelyAvailable"
Moved == "DefinitelyMoved"
MaybeUnavailable == "MaybeUnavailable"
BindingFact(value) == [availability |-> Available, value |-> value]

JoinFacts(a, b) ==
    [value |-> Combine(a.value, b.value),
     availability |-> IF a.availability = b.availability THEN a.availability ELSE MaybeUnavailable]
Merge(a, b, scope) ==
    [id \in (DOMAIN a \union DOMAIN b) \intersect scope |->
        CASE id \notin DOMAIN a -> b[id]
          [] id \notin DOMAIN b -> a[id]
          [] OTHER -> JoinFacts(a[id], b[id])]
MergeAll(a, states, scope) == FoldSet(LAMBDA s, acc : Merge(acc, s, scope), a, states)

RequireAvailable(c, state, binding, secondMove) ==
    IF binding \notin DOMAIN state THEN c
    ELSE Error(c, state[binding].availability = Available,
               IF state[binding].availability = MaybeUnavailable THEN "TH006-MAYBE-MOVED"
               ELSE IF secondMove THEN "TH006-DOUBLE-MOVE" ELSE "TH006-USE-AFTER-MOVE")

\* The live bindings other than one that may still hold something.
Holding(c, state, at, binding) ==
    {other \in (c.live[at] \ {binding}) \intersect DOMAIN state : state[other].availability # Moved}

MoveInputs(f) == {i.operands[1] : i \in InstructionsOf(f, "Move")}
\* The binding a mutable borrow was taken of.
BorrowSource(f, id) ==
    LET borrows == {i \in InstructionsOf(f, "MutableBorrow") : i.id = id}
    IN IF borrows = {} THEN 0 ELSE (CHOOSE i \in borrows : TRUE).binding
ReadResources(f) ==
    UNION {AllResources(TypedFresh(p.id, p.type)) :
            p \in {p \in Range(f.parameters) : p.access = "Read"}}

LoadFact(c, state, i) ==
    LET d == IF i.id \in MoveInputs(c.f) THEN c ELSE RequireAvailable(c, state, i.binding, FALSE)
    IN Remember(d, i.id, IF i.binding \in DOMAIN state
                         THEN Alias([state[i.binding].value EXCEPT !.source = i.binding])
                         ELSE NoResource)

MoveFact(c, state, i, at) ==
    LET d == RequireAvailable(c, state, i.binding, TRUE)
        rooted == {o \in Holding(c, state, at, i.binding) : i.binding \in AllRoots(state[o].value)}
    IN Remember(Error(d, i.binding \in DOMAIN state => rooted = {}, "TH006-VIEW-ROOT-MOVED"),
                i.id, Get(c, i.operands[1]))

BorrowFact(c, state, i) ==
    LET value == Get(c, i.operands[1])
    IN Remember(Error(RequireAvailable(c, state, i.binding, FALSE), AllRoots(value) = {},
                      "TH006-LIVE-VIEW-CONFLICT"), i.id, value)

ViewFact(c, i) ==
    LET base == Get(c, i.operands[1])
        roots == ViewRoots(base)
    IN IF ~(i.view /\ ResourceType(i.type)) THEN Remember(c, i.id, NoResource)
       ELSE Remember(Error(c, roots # {}, "TH006-VIEW-ROOT-UNKNOWN"), i.id,
                     [NoResource EXCEPT !.kind = "ReadViewOf",
                                        !.resources = AllResources(base), !.roots = roots])

\* A mutable argument excludes every other argument and every live binding but its source.
BorrowedArgument(c, state, i, at, k) ==
    LET resources(n) == AllResources(Get(c, i.operands[n]))
        source == BorrowSource(c.f, i.operands[k])
        conflicts == {o \in Holding(c, state, at, source) :
                        Intersects(resources(k), AllResources(state[o].value))}
        a == Error(c, ~Intersects(resources(k), ReadResources(c.f)), "TH006-ACCESS-MODE")
        b == Error(a, source # 0, "TH006-RESOURCE-INVARIANT")
        d == Error(b, source # 0 => conflicts = {}, "TH006-MUT-BORROW-CONFLICT")
    IN Error(d, \A n \in DOMAIN i.operands \ {k} : ~Intersects(resources(k), resources(n)),
             "TH006-MUT-BORROW-CONFLICT")

CallFact(c, state, i, at) ==
    LET borrowed == SelectSeq([k \in DOMAIN i.operands |-> k],
                              LAMBDA k : c.m[i.callee].parameters[k].access = "MutableBorrow")
        checked == FoldLeft(LAMBDA d, k : BorrowedArgument(d, state, i, at, k), c, borrowed)
    IN Remember(checked, i.id, Leaves(i.id, i.type, <<>>, {Get(c, id) : id \in Range(i.operands)}, "PossibleAlias"))

InstructionFact(c, state, i, at) ==
    CASE i.op = "LoadBinding" -> LoadFact(c, state, i)
      [] i.op = "Tuple" ->
            Remember(c, i.id, [NoResource EXCEPT
                                !.elements = [k \in DOMAIN i.operands |-> AliasItems(Get(c, i.operands[k]))]])
      [] i.op = "Copy" -> Remember(c, i.id, CopyOf(i.id, i.type))
      [] i.op = "StopGradient" -> Remember(c, i.id, Alias(Get(c, i.operands[1])))
      [] i.op = "Move" -> MoveFact(c, state, i, at)
      [] i.op = "MutableBorrow" -> BorrowFact(c, state, i)
      [] i.op \in {"Slice", "Index", "Transpose"} -> ViewFact(c, i)
      [] i.op = "Call" -> CallFact(c, state, i, at)
      [] OTHER -> Remember(c, i.id, TypedFresh(i.id, i.type))

\* A scan collects a fresh tensor; its last state may be any value of the state's type it was given.
ScanFact(c, s) ==
    LET step == c.m[s.stepFunction]
        state == step.result.elements[2]
        captures == {k \in DOMAIN s.captures : step.parameters[k + 2].type = state}
        possible == {Get(c, s.initialState)} \union {Get(c, s.captures[k]) : k \in captures}
    IN Remember(c, s.result, [NoResource EXCEPT !.elements =
                    <<Leaves(s.result, Collected(s.outputType), <<1>>, {}, "Fresh"),
                      Leaves(s.result, state, <<2>>, possible, "PossibleAlias")>>])

BlockOf(f, binding) ==
    IF binding \in {p.binding : p \in Range(f.parameters)} THEN 1
    ELSE CHOOSE b \in DOMAIN f.blocks : \E meta \in Range(f.blocks[b].bindings) : meta.id = binding
RECURSIVE Ancestor(_, _, _)
Ancestor(f, older, younger) ==
    younger # 0 /\ (older = younger \/ Ancestor(f, older, f.blocks[younger].parent))

\* A view may not be written where it outlives its root, and a rebind may not leave a live view
\* of what the binding held.
CheckViewWrite(c, state, w, value, at) ==
    LET home == BlockOf(c.f, w.binding)
        escapes(root) ==
            \/ root = w.binding
            \/ BlockOf(c.f, root) # home /\ Ancestor(c.f, home, BlockOf(c.f, root))
        rooted == {o \in Holding(c, state, at, w.binding) : w.binding \in AllRoots(state[o].value)}
    IN Error(Error(c, \A root \in AllRoots(value) : ~escapes(root), "TH006-VIEW-ESCAPE"),
             w.declaration \/ rooted = {}, "TH006-VIEW-ROOT-REBOUND")

WriteFact(state, w, value) ==
    IF w.declaration \/ w.binding \in DOMAIN state THEN With(state, w.binding, BindingFact(value))
    ELSE state

ReturnFact(c, state, value) ==
    LET returned == Get(c, value)
        borrowed == {p.binding : p \in {p \in Range(c.f.parameters) : p.access = "MutableBorrow"}}
    IN Error(Error(c, AllRoots(returned) = {}, "TH006-VIEW-RETURN-DEFERRED"),
             ResourceType(c.f.result) =>
                \A b \in borrowed : ~Intersects(AllResources(returned), AllResources(state[b].value)),
             "TH006-ACCESS-MODE")

(***************************************************************************)
(* A block turns the state before it into paths: at most one that goes on, *)
(* and those that leave it by break or continue.                           *)
(***************************************************************************)
RECURSIVE OwnBlock(_, _, _), OwnLoop(_, _, _, _, _, _)

Paths(c, normal, breaks, continues) ==
    [c |-> c, normal |-> normal, breaks |-> breaks, continues |-> continues]

OwnIf(p, s, state) ==
    LET scope == DOMAIN state
        yes == OwnBlock(p.c, s.thenBlock, state)
        no == IF s.elseBlock = 0 THEN Paths(yes.c, <<state>>, {}, {})
              ELSE OwnBlock(yes.c, s.elseBlock, state)
        next == [k \in DOMAIN (yes.normal \o no.normal) |->
                    Merge((yes.normal \o no.normal)[k], (yes.normal \o no.normal)[k], scope)]
    IN Paths(no.c, IF Len(next) = 2 THEN <<Merge(next[1], next[2], scope)>> ELSE next,
             p.breaks \union yes.breaks \union no.breaks,
             p.continues \union yes.continues \union no.continues)

MaxRounds == 512

\* The facts at the head of a loop, and where it is left, up to a fixed point.
OwnLoop(c, s, scope, head, exit, rounds) ==
    LET condition == IF s.kind = "While" THEN OwnBlock(c, s.conditionBlock, head)
                     ELSE Paths(c, <<>>, {}, {})
        start == IF condition.normal = <<>> THEN head ELSE condition.normal[1]
        tested == IF condition.normal = <<>> THEN exit ELSE Merge(exit, start, scope)
        body == OwnBlock(condition.c, s.bodyBlock, start)
        back == MergeAll(head, Range(body.normal) \union body.continues, scope)
        left == MergeAll(tested, body.breaks, scope)
    IN CASE back = head -> Paths(body.c, <<Merge(left, head, scope)>>, {}, {})
         [] rounds = 1 -> Paths(Error(body.c, FALSE, "TH006-ANALYSIS-INCONCLUSIVE"),
                                <<Merge(left, back, scope)>>, {}, {})
         [] OTHER -> OwnLoop(body.c, s, scope, back, left, rounds - 1)

OwnStep(p, b, k) ==
    LET s == p.c.f.blocks[b].steps[k]
        state == p.normal[1]
    IN CASE s.step = "instruction" ->
                [p EXCEPT !.c = InstructionFact(p.c, state, s, <<b, k>>),
                          !.normal = IF s.op = "Move" /\ s.binding \in DOMAIN state
                                     THEN <<[state EXCEPT ![s.binding].availability = Moved]>>
                                     ELSE @]
         [] s.step = "write" ->
                [p EXCEPT !.c = CheckViewWrite(p.c, state, s, Get(p.c, s.value), <<b, k>>),
                          !.normal = <<WriteFact(state, s, Get(p.c, s.value))>>]
         [] s.step = "flow" ->
                [p EXCEPT !.c = IF s.kind = "Return" THEN ReturnFact(p.c, state, s.value) ELSE p.c,
                          !.normal = <<>>,
                          !.breaks = @ \union (IF s.kind = "Break" THEN {state} ELSE {}),
                          !.continues = @ \union (IF s.kind = "Continue" THEN {state} ELSE {})]
         [] s.step = "structured" /\ s.kind = "If" -> OwnIf(p, s, state)
         [] s.step = "structured" /\ s.kind = "Scan" -> [p EXCEPT !.c = ScanFact(p.c, s)]
         [] s.step = "structured" ->
                LET loop == OwnLoop(p.c, s, DOMAIN state, state, state, MaxRounds)
                IN [p EXCEPT !.c = loop.c, !.normal = loop.normal]
         [] OTHER -> p

OwnBlock(c, b, start) ==
    LET unset == {meta.id : meta \in {x \in Range(c.f.blocks[b].bindings) : x.value = 0}}
        entered == [id \in DOMAIN start \union unset |->
                        IF id \in DOMAIN start THEN start[id] ELSE BindingFact(NoResource)]
    IN FoldLeft(LAMBDA p, k : IF p.normal = <<>> THEN p ELSE OwnStep(p, b, k),
                Paths(c, <<entered>>, {}, {}), [k \in DOMAIN c.f.blocks[b].steps |-> k])

OwnFunction(m, f) ==
    LET given(k) ==
            LET p == m[f].parameters[k]
            IN [TypedFresh(p.id, p.type) EXCEPT !.source = IF ResourceType(p.type) THEN p.binding ELSE 0]
        values == [k \in DOMAIN m[f].parameters |-> given(k)]
        start == [m |-> m, f |-> m[f], values |-> values, errors |-> {},
                  live |-> LiveBlock(m[f], 1, {}, {}, {}, <<>>).after]
    IN OwnBlock(start, 1, [k \in DOMAIN values |-> BindingFact(values[k])]).c

-----------------------------------------------------------------------------
(* Effects, and what the whole module must satisfy.                        *)

Callees(f) ==
    {i.callee : i \in InstructionsOf(f, "Call")}
    \union {s.stepFunction : s \in StepsWhere(f, IsScan)}

OwnEffects(f) ==
    (IF \/ \E s \in Steps(f) : s.step = "check"
        \/ \E i \in Instructions(f) : i.op # "Call" /\ i.effect = "CheckedFailure"
     THEN {"MayTrap"} ELSE {})
    \union (IF \/ \E p \in Range(f.parameters) : p.access = "MutableBorrow"
               \/ InstructionsOf(f, "MutableBorrow") # {}
            THEN {"Mutates"} ELSE {})

\* Mutant: effects that do not reach the caller.
EffectsOfBodies(m) == [f \in DOMAIN m |-> OwnEffects(m[f])]

\* A function has its own effects and those of what it calls, in as many rounds as functions.
Effects(m) ==
    FoldLeft(LAMBDA summary, round :
                [f \in DOMAIN m |-> summary[f] \union UNION {summary[g] : g \in Callees(m[f])}],
             [f \in DOMAIN m |-> OwnEffects(m[f])], [k \in 1..(Len(m) + 1) |-> k])

\* An argument was produced the way the parameter's mode demands, and a borrow is used once.
ArgumentModesOk(m, f) ==
    LET produced(id) ==
            LET by == StepsWhere(f, LAMBDA s : IsInstruction(s) /\ s.id = id)
            IN IF by = {} THEN "Integer" ELSE (CHOOSE i \in by : TRUE).op
        modeOk(i, k) ==
            LET mode == m[i.callee].parameters[k].access
                op == produced(i.operands[k])
            IN /\ mode = "MutableBorrow" <=> op = "MutableBorrow"
               /\ mode = "Consume" => op = "Move"
        usesIn(s, id) ==
            CASE s.step \in {"instruction", "check"} ->
                    Cardinality({k \in DOMAIN s.operands : s.operands[k] = id})
              [] s.step \in {"write", "flow"} -> IF s.value = id THEN 1 ELSE 0
              [] OTHER -> 0
        places == UNION {{<<b, k>> : k \in DOMAIN f.blocks[b].steps} : b \in DOMAIN f.blocks}
        uses(id) == MapThenSumSet(LAMBDA at : usesIn(f.blocks[at[1]].steps[at[2]], id), places)
    IN \A i \in Instructions(f) :
          /\ i.op = "Call" => \A k \in DOMAIN i.operands : modeOk(i, k)
          /\ i.op = "MutableBorrow" => uses(i.id) = 1

\* The next state of a step keeps nothing of the sequence element it borrowed.
ScanKeepsInput(m, analyzed, f) ==
    \E s \in {s \in Steps(m[f]) : IsScan(s)} :
        LET step == m[s.stepFunction]
            values == analyzed[s.stepFunction].values
        IN \E id \in Returns(step) \intersect DOMAIN values :
              /\ Len(values[id].elements) = 2
              /\ Intersects(AllResources(values[step.parameters[1].id]),
                            AllResources(values[id].elements[2]))
ScanMutates(m, effects, f) ==
    \E s \in {s \in Steps(m[f]) : IsScan(s)} : "Mutates" \in effects[s.stepFunction]

OwnershipErrors(m, analyzed, effects) ==
    UNION {analyzed[f].errors : f \in DOMAIN m}
    \union (IF \E f \in DOMAIN m : ScanKeepsInput(m, analyzed, f)
            THEN {"TH012-INPUT-BORROW-ESCAPE"} ELSE {})
    \union (IF \E f \in DOMAIN m : ScanMutates(m, effects, f)
            THEN {"TH012-UNSUPPORTED-EFFECT"} ELSE {})

(***************************************************************************)
(* The audit of the collected facts.  Left out are the conditions that     *)
(* hold however the facts were collected (every resource was created, a    *)
(* moved binding is marked moved), and the sources of a copy, which are    *)
(* among its operand's resources.                                          *)
(***************************************************************************)
RECURSIVE CreatedAt(_, _)
\* What is said to be new has no resources but those made where its value is.
CreatedAt(site, v) ==
    /\ v.kind \in {"Fresh", "IndependentCopyOf"} => \A resource \in v.resources : resource[1] = site
    /\ \A k \in DOMAIN v.elements : CreatedAt(site, v.elements[k])

ProvenanceIsConsistent(f, values) ==
    /\ \A id \in DOMAIN values : CreatedAt(id, values[id]) /\ AllRoots(values[id]) \subseteq Universe(f)
    /\ \A i \in {i \in Instructions(f) : i.id \in DOMAIN values} :
          i.op \in {"Slice", "Index", "Transpose"} /\ i.view /\ ResourceType(i.type) => values[i.id].roots # {}

\* A copy shares nothing with what it copied, in whatever round of a loop either was met.
CopiesAreApart(f, values) ==
    \A i \in InstructionsOf(f, "Copy") :
        {i.id, i.operands[1]} \subseteq DOMAIN values =>
            ~Intersects(AllResources(values[i.id]), AllResources(values[i.operands[1]]))

BorrowsReferToResources(m, f, values) ==
    \A i \in {i \in InstructionsOf(f, "Call") : i.id \in DOMAIN values} : \A k \in DOMAIN i.operands :
        m[i.callee].parameters[k].access = "MutableBorrow" /\ BorrowSource(f, i.operands[k]) # 0 =>
            AllResources(values[i.operands[k]]) # {}

SummaryCovers(m, effects, f) ==
    /\ OwnEffects(m[f]) \subseteq effects[f]
    /\ \A i \in InstructionsOf(m[f], "Call") : effects[i.callee] \subseteq effects[f]

AuditFacts(m, analyzed, effects) ==
    \A f \in DOMAIN m :
        /\ ProvenanceIsConsistent(m[f], analyzed[f].values)
        /\ CopiesAreApart(m[f], analyzed[f].values)
        /\ BorrowsReferToResources(m, m[f], analyzed[f].values)
        /\ SummaryCovers(m, effects, f)

AnalyzeOwnership(m) ==
    LET effects == Effects(m)
        analyzed == [f \in DOMAIN m |-> OwnFunction(m, f)]
        audited == IF AuditFacts(m, analyzed, effects) THEN {} ELSE {"TH006-RESOURCE-INVARIANT"}
    IN [effects |-> effects,
        errors |-> IF ~Verify(m) THEN {"TH006-RESOURCE-INVARIANT"}
                   ELSE IF \E f \in DOMAIN m : ~ArgumentModesOk(m, m[f]) THEN {"TH006-ACCESS-MODE"}
                   ELSE OwnershipErrors(m, analyzed, effects) \union audited]
=============================================================================
