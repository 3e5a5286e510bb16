--------------------------- MODULE CheckedProgram ---------------------------
(***************************************************************************)
(* One program through the checked pipeline, an action per entry point:    *)
(* semantic::analyze, analysis::analyze, autodiff::differentiate,          *)
(* evaluateCall and executeVjp.  A program that is accepted may be run and *)
(* differentiated in either order; its entry is its last function.         *)
(***************************************************************************)
EXTENDS Autodiff

CONSTANTS
    Programs,           \* the programs, as sequences of function declarations
    Arguments(_),       \* the runtime values a parameter of a type may be given
    Seeds(_)            \* the cotangents a result may be given

VARIABLES
    program,        \* the surface program
    module,         \* its functions as IR
    status,         \* "source", "analyzed", "accepted" or "rejected"
    ownership,      \* the errors and effects of the ownership analysis
    derivative,     \* the reverse-mode derivative of the entry
    run,            \* the last call
    called          \* its arguments, and the seed of a VJP

vars == <<program, module, status, ownership, derivative, run, called>>

Entry == Len(module)
NoOwnership == [errors |-> {}, effects |-> <<>>]
NoDerivative == [status |-> "none", functions |-> <<>>, saves |-> <<>>, wrt |-> <<>>]
NotCalled == [what |-> "nothing", arguments |-> <<>>, seed |-> <<>>]

Init ==
    /\ program \in Programs
    /\ module = <<>> /\ status = "source"
    /\ ownership = NoOwnership /\ derivative = NoDerivative
    /\ run = NewRun(<<>>) /\ called = NotCalled

AnalyzeProgram ==
    /\ status = "source"
    /\ \E analyzed \in {Analyze(program)} :
          /\ module' = analyzed.functions
          /\ status' = IF analyzed.error = "" THEN "analyzed" ELSE "rejected"
    /\ UNCHANGED <<program, ownership, derivative, run, called>>

CheckOwnership ==
    /\ status = "analyzed"
    /\ ownership' = AnalyzeOwnership(module)
    /\ status' = IF ownership'.errors = {} THEN "accepted" ELSE "rejected"
    /\ UNCHANGED <<program, module, derivative, run, called>>

\* Every nonempty choice of differentiable parameters, in order.
DifferentiateEntry ==
    /\ status = "accepted" /\ derivative = NoDerivative
    /\ \E chosen \in SUBSET {k \in DOMAIN module[Entry].parameters :
                                DifferentiableType(module[Entry].parameters[k].type)} :
          /\ chosen # {}
          /\ \E result \in {Differentiate(module, ownership, Entry, InOrder(chosen))} :
                derivative' = [status |-> result.status, functions |-> result.functions,
                               saves |-> result.saves, wrt |-> InOrder(chosen)]
    /\ UNCHANGED <<program, module, status, ownership, run, called>>

GivenArguments ==
    LET types == [k \in DOMAIN module[Entry].parameters |-> module[Entry].parameters[k].type]
    IN {a \in [DOMAIN types -> UNION {Arguments(types[k]) : k \in DOMAIN types}] :
            \A k \in DOMAIN types : a[k] \in Arguments(types[k])}

\* A program that cannot be differentiated is run; one that can is also given a seed.
EvaluateEntry ==
    /\ status = "accepted" /\ derivative = NoDerivative /\ called = NotCalled
    /\ \E arguments \in GivenArguments :
          /\ called' = [what |-> "call", arguments |-> arguments, seed |-> <<>>]
          /\ run' = EvaluateCall(module, Entry, arguments, <<>>)
    /\ UNCHANGED <<program, module, status, ownership, derivative>>

\* A function of an accepted module on some arguments.
Primal(g, arguments, pinned) == CallVerified(module, g, arguments, pinned)

ExecuteVjpOfEntry ==
    /\ derivative.status = "ok" /\ called = NotCalled
    /\ \E arguments \in GivenArguments :
       \E primal \in {Primal(Entry, arguments, <<>>)} :
       \E seed \in IF primal.failure = "" THEN Seeds(ResultOf(primal)) ELSE {Float(1)} :
          /\ called' = [what |-> "vjp", arguments |-> arguments, seed |-> seed]
          /\ run' = ExecuteVjp(derivative, arguments, seed)
    /\ UNCHANGED <<program, module, status, ownership, derivative>>

Next ==
    \/ AnalyzeProgram \/ CheckOwnership \/ DifferentiateEntry
    \/ EvaluateEntry \/ ExecuteVjpOfEntry
Spec == Init /\ [][Next]_vars

-----------------------------------------------------------------------------
(* Properties.                                                             *)

\* A program the ownership analysis accepts never, in any frame of any run, loads or moves a
\* binding that was moved, loads a view whose root was moved, rebound or is out of scope, loads
\* an alias of what was mutably borrowed since, borrows what it may only read or passes it
\* twice, or returns a view or what its mutable parameters hold (Checker of Ownership.cpp).
AcceptedIsSafe == called.what = "call" => run.misuse = {}

\* A call that fails was announced: its entry's effects have MayTrap and the failure is one the
\* source can cause, unless a limit was reached.  Left out are runs that rebound a tensor to
\* another shape and scans whose state changes its shape: see the README for what those do.
InternalFailures == {"TH005-RUNTIME-TYPE", "TH005-INVALID-IR", "TH010-FORWARD-CONTRACT"}
FailuresAreDeclared ==
    /\ called.what = "call" /\ run.failure \notin LimitFailures \union {"", "TH012-STATE-SHAPE"}
    /\ ~run.reshaped
    => "MayTrap" \in ownership.effects[Entry] /\ run.failure \notin InternalFailures

\* What one pass generates the next one accepts: analyzed IR passes the independent verifier;
\* a derivative passes the verifier and the audit of its contract, and its functions then pass
\* the ownership analysis and the audit of its facts, as a training plan needs (Analyzer.cpp,
\* Verifier.cpp, verify of Autodiff.cpp, auditFacts of Ownership.cpp).  That the analyzed module
\* itself passes that audit is not claimed: see the README for legal programs that do not.
GeneratedIsValid ==
    /\ status = "analyzed" => Verify(module)
    /\ derivative.status \notin {"audit", "ADV11"}
    /\ derivative.status = "ok" /\ InstructionsOf(module[Entry], "Transpose") = {}
          => AnalyzeOwnership(derivative.functions).errors = {}

\* The inner product of a result with the seed.
Weighted(value, seed) ==
    IF IsTensorValue(value)
    THEN MapThenSumSet(LAMBDA c : value.at[c] * seed.at[c], DOMAIN value.at)
    ELSE value.number * seed.number
\* Arguments with one element of one argument moved by an amount.
Nudged(arguments, k, c, by) ==
    IF IsTensorValue(arguments[k]) THEN [arguments EXCEPT ![k].at[c] = @ + by]
    ELSE [arguments EXCEPT ![k].number = @ + by]
Elements(value) == IF IsTensorValue(value) THEN DOMAIN value.at ELSE {<<>>}
ElementOf(value, c) == IF IsTensorValue(value) THEN value.at[c] ELSE value.number

\* The operands of stop_gradient, at the values a call gave them.
Frozen(g, primal) ==
    [id \in {i.id : i \in InstructionsOf(module[g], "StopGradient")} |-> primal.values[id]]
\* Twelve times the slope of the seeded result along one element of one argument, by a
\* five-point difference of the evaluator itself (exact up to degree four).
Slope12(g, arguments, pinned, seed, k, c) ==
    MapThenSumSet(LAMBDA by :
        (CASE by = 1 -> 8 [] by = -1 -> -8 [] by = 2 -> -1 [] OTHER -> 1)
            * Weighted(ResultOf(Primal(g, Nudged(arguments, k, c, by), pinned)), seed),
        {-2, -1, 1, 2})

\* The result of the last call has the slope of every element of every requested parameter.
IsGradient(pinned) ==
    LET gradient(n) == IF Len(derivative.wrt) = 1 THEN ResultOf(run) ELSE ResultOf(run).elements[n]
    IN \A n \in DOMAIN derivative.wrt :
          LET k == derivative.wrt[n]
          IN /\ ShapeOf(gradient(n)) = ShapeOf(called.arguments[k])
             /\ \A c \in Elements(called.arguments[k]) :
                    12 * ElementOf(gradient(n), c)
                        = Slope12(Entry, called.arguments, pinned, called.seed, k, c)

\* A VJP succeeds whenever the call does, on a seed of the result's shape, and is the gradient:
\* for every element of every requested parameter, the slope of the seeded result, in which the
\* operands of stop_gradient stay at their values (differentiate of Autodiff.cpp).
GradientIsDerivative ==
    called.what = "vjp" =>
        \A primal \in {Primal(Entry, called.arguments, <<>>)} :
            primal.failure = "" => run.failure = "" /\ IsGradient(Frozen(Entry, primal))
=============================================================================
