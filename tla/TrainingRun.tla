---------------------------- MODULE TrainingRun ----------------------------
(***************************************************************************)
(* Training a loss of an accepted program, and deploying what was trained: *)
(* a process makes a plan and an initial state, steps, saves and loads     *)
(* checkpoints, may crash, and another process goes on from the file; a    *)
(* checkpoint that was loaded is frozen into a model bundle and served.    *)
(* An action is a call that succeeds: a call that reports an error leaves  *)
(* its caller's values as they were.  The file is what InstallFile         *)
(* promises of it.  Indices count from 1, where the code counts from 0.    *)
(*                                                                         *)
(* f32 numbers are residues of a prime, so that the optimizer's fractions  *)
(* are exact: rounding is left out.  Rates are given in halves.            *)
(***************************************************************************)
EXTENDS CheckedProgram

CONSTANTS
    Losses,         \* the programs that are trained
    PlanRequests,   \* what a plan may be asked for: a function, parameters, an optimizer
    Initials(_),    \* the lists of values that parameters of given types may start from
    Batches(_),     \* the runtime inputs a step may be given, as lists of <<index, value>>
    Identities,     \* model identities
    PublicInputs,   \* the inputs a model is run on
    Deployments,    \* the requests and artifacts a model may be deployed with
    MaxStep,        \* bound: training steps
    MaxProcesses,   \* bound: processes, one after the other
    MaxKept,        \* bound: files a crash may choose from
    Modulus
ASSUME TrainingAssumption ==
    /\ {MaxStep, MaxProcesses, MaxKept} \subseteq Nat
    /\ Modulus \in Nat /\ Modulus % 2 = 1 /\ Modulus % 3 # 0 /\ Modulus > 1

VARIABLES
    plan,       \* the training plan
    schema,     \* what its checkpoints must look like
    state,      \* parameters and optimizer state
    restored,   \* the last checkpoint this process loaded
    disk,       \* the checkpoint file
    kept,       \* the files a crash may leave in its place
    processes,  \* processes started
    bundle,     \* the model bundle
    served,     \* the inputs the bundle gives its artifact
    lineage     \* history: gradient descent from the initial values, done by hand

session == <<plan, schema, state, restored, lineage>>
files == <<disk, kept>>
model == <<bundle, served>>
training == <<session, files, processes, model>>

Nothing == [none |-> TRUE]
Made(r) == r # Nothing

-----------------------------------------------------------------------------
(* Numbers.                                                                *)

NaN == 1000000
Infinity == 1000001
Finite(n) == n \notin {NaN, Infinity}

Inverse12 == CHOOSE n \in 1..Modulus : 12 * n % Modulus = 1
Half == CHOOSE n \in 1..Modulus : 2 * n % Modulus = 1

Elementwise1(f(_), v) ==
    IF IsTensorValue(v) THEN TensorValue("f32", v.shape, [c \in DOMAIN v.at |-> f(v.at[c]) % Modulus])
    ELSE Float(f(v.number) % Modulus)
Elementwise2(f(_, _), a, b) ==
    IF IsTensorValue(a)
    THEN TensorValue("f32", a.shape, [c \in DOMAIN a.at |-> f(a.at[c], b.at[c]) % Modulus])
    ELSE Float(f(a.number, b.number) % Modulus)
Rounded(v) == Elementwise1(LAMBDA x : x, v)
Scale(halves, v) == Elementwise1(LAMBDA x : halves * Half * x, v)
Plus(a, b) == Elementwise2(LAMBDA x, y : x + y, a, b)
Less(a, b) == Elementwise2(LAMBDA x, y : x - y, a, b)
Zero(v) == Elementwise1(LAMBDA x : 0, v)

-----------------------------------------------------------------------------
(* Plans.                                                                  *)

ValidOptimizer(spec) ==
    /\ Finite(spec.rate) /\ spec.rate >= 0
    /\ spec.kind = "SGDMomentum" => Finite(spec.momentum) /\ spec.momentum \in 0..1

ValidRequest(request) ==
    /\ request.function \in DOMAIN module
    /\ LET f == module[request.function]
           wrt == request.trained
       IN /\ f.result = F32
          /\ ValidOptimizer(request.optimizer)
          /\ wrt # <<>> /\ \A j, k \in DOMAIN wrt : wrt[j] = wrt[k] => j = k
          /\ \A k \in DOMAIN wrt :
                /\ wrt[k] \in DOMAIN f.parameters
                /\ DifferentiableType(f.parameters[wrt[k]].type)
                /\ f.parameters[wrt[k]].access = "Read"

\* What a plan's signature is a hash of; the source is the same throughout.
PlanSignature(p) == [function |-> p.function, optimizer |-> p.optimizer, parameters |-> p.parameters]

MomentumOf(p) == p.optimizer.kind = "SGDMomentum"

PlanOf(request, f, differentiated) ==
    [function |-> request.function, optimizer |-> request.optimizer,
     parameters |-> [n \in DOMAIN request.trained |->
        LET k == request.trained[n]
        IN [id |-> <<request.function, k>>, index |-> k, name |-> f.parameters[k].name,
            type |-> f.parameters[k].type, shape |-> f.parameters[k].shape]],
     runtime |-> DOMAIN f.parameters \ Range(request.trained),
     differentiated |-> differentiated]

\* A plan is not changed once made, so verifyTrainingPlan, with which every other call begins,
\* is left out.
CreateTrainingPlan ==
    /\ status = "accepted" /\ program \in Losses /\ called = NotCalled /\ derivative = NoDerivative
    /\ processes < MaxProcesses /\ ~Made(plan)
    /\ \E request \in PlanRequests :
          /\ ValidRequest(request)
          /\ \E differentiated \in
                    {Differentiate(module, ownership, request.function, request.trained)} :
                /\ differentiated.status = "ok"
                /\ AnalyzeOwnership(differentiated.functions).errors = {}
                /\ plan' = PlanOf(request, module[request.function], differentiated)
    /\ processes' = processes + 1
    /\ UNCHANGED <<schema, state, restored, lineage, files, model>>

-----------------------------------------------------------------------------
(* States.                                                                 *)

FitsFact(shape, fact) ==
    Len(shape) = Len(fact) /\ \A d \in DOMAIN fact : fact[d] \in {Unknown, shape[d]}
\* A runtime value has the f32 type it is said to have, and a shape its fact allows.
FitsType(v, type, fact) ==
    DifferentiableType(type) /\ RuntimeType(v, type) /\ FitsFact(ShapeOf(v), fact)

Velocities(p, parameters) ==
    IF MomentumOf(p) THEN [n \in DOMAIN parameters |-> [parameters[n] EXCEPT !.value = Zero(@)]]
    ELSE <<>>

VerifiedOptimizer(p, s) ==
    /\ s.kind = p.optimizer.kind /\ s.optimizerStep = s.step
    /\ Len(s.velocities) = IF MomentumOf(p) THEN Len(p.parameters) ELSE 0
    /\ \A n \in DOMAIN s.velocities :
          /\ s.velocities[n].id = s.parameters[n].id
          /\ ShapeOf(s.velocities[n].value) = ShapeOf(s.parameters[n].value)
VerifiedState(p, s) ==
    /\ s.signature = PlanSignature(p) /\ Len(s.parameters) = Len(p.parameters)
    /\ \A n \in DOMAIN p.parameters :
          /\ s.parameters[n].id = p.parameters[n].id
          /\ FitsType(s.parameters[n].value, p.parameters[n].type, p.parameters[n].shape)
    /\ VerifiedOptimizer(p, s)

InitializeTrainingState ==
    /\ Made(plan) /\ ~Made(state)
    /\ \E values \in Initials([n \in DOMAIN plan.parameters |-> plan.parameters[n].type]) :
          LET parameters == [n \in DOMAIN values |->
                                [id |-> plan.parameters[n].id, value |-> values[n]]]
          IN /\ Len(values) = Len(plan.parameters)
             /\ \A n \in DOMAIN values :
                    FitsType(values[n], plan.parameters[n].type, plan.parameters[n].shape)
             /\ state' = [signature |-> PlanSignature(plan), step |-> 0, kind |-> plan.optimizer.kind,
                          optimizerStep |-> 0, parameters |-> parameters,
                          velocities |-> Velocities(plan, parameters)]
             /\ lineage' =
                    [function |-> plan.function, optimizer |-> plan.optimizer, step |-> 0,
                     identity |-> Nothing,
                     at |-> [k \in {d.index : d \in Range(plan.parameters)} |->
                                LET n == SelectInSeq(plan.parameters, LAMBDA d : d.index = k)
                                IN [value |-> values[n], velocity |-> Zero(values[n])]]]
    /\ UNCHANGED <<plan, schema, restored, files, processes, model>>

Shapes(s) == [n \in DOMAIN s.parameters |->
                [id |-> s.parameters[n].id, shape |-> ShapeOf(s.parameters[n].value)]]

CreateTrainingCheckpointSchema ==
    /\ Made(state) /\ ~Made(schema)
    /\ VerifiedState(plan, state) /\ state.step = 0
    /\ \E identity \in Identities :
          /\ schema' = [identity |-> identity, signature |-> PlanSignature(plan),
                        parameters |-> Shapes(state)]
          /\ lineage' = [lineage EXCEPT !.identity = identity]
    /\ UNCHANGED <<plan, state, restored, files, processes, model>>

-----------------------------------------------------------------------------
(* A step.                                                                 *)

ValidInputs(p, inputs) ==
    LET f == module[p.function]
        given == [i \in DOMAIN inputs |-> inputs[i][1]]
    IN /\ \A i, j \in DOMAIN given : given[i] = given[j] => i = j
       /\ Range(given) = p.runtime
       /\ \A i \in DOMAIN inputs :
             FitsType(inputs[i][2], f.parameters[given[i]].type, f.parameters[given[i]].shape)

Given(inputs) ==
    [k \in {input[1] : input \in Range(inputs)} |-> (CHOOSE input \in Range(inputs) : input[1] = k)[2]]
\* State values in the slots of the trained parameters, and inputs in the others.
FullArguments(p, s, inputs) ==
    [k \in {d.index : d \in Range(p.parameters)} |->
        s.parameters[SelectInSeq(p.parameters, LAMBDA d : d.index = k)].value] @@ Given(inputs)

ApplyOptimizer(p, s, directions) ==
    [s EXCEPT
        !.parameters = [n \in DOMAIN @ |->
                            [@[n] EXCEPT !.value = Less(@, Scale(p.optimizer.rate, directions[n]))]],
        !.velocities = [n \in DOMAIN @ |-> [@[n] EXCEPT !.value = directions[n]]],
        !.step = @ + 1,
        !.optimizerStep = s.step + 1]
Directions(p, s, gradients) ==
    [n \in DOMAIN gradients |->
        IF MomentumOf(p) THEN Plus(Scale(p.optimizer.momentum, s.velocities[n].value), gradients[n])
        ELSE gradients[n]] \o <<>>

\* History: one step of gradient descent by the slopes of the loss.
Slopes(l, start) ==
    [k \in DOMAIN l.at |->
        Shaped("f32", ShapeOf(start[k]),
               [c \in Elements(start[k]) |->
                    Slope12(l.function, start, <<>>, Float(1), k, c) * Inverse12 % Modulus])]
Momentums(l, slopes) ==
    LET momentum == IF l.optimizer.kind = "SGDMomentum" THEN l.optimizer.momentum ELSE 0
    IN [k \in DOMAIN l.at |-> Plus(Scale(momentum, l.at[k].velocity), slopes[k])] @@ <<>>
DescendedBy(l, velocity) ==
    [l EXCEPT !.step = @ + 1,
              !.at = [k \in DOMAIN @ |->
                        [velocity |-> velocity[k],
                         value |-> Less(@[k].value, Scale(l.optimizer.rate, velocity[k]))]]]
Descended(l, inputs) ==
    DescendedBy(l, Momentums(l, Slopes(l, [k \in DOMAIN l.at |-> l.at[k].value] @@ Given(inputs))))

Gradient(p, execution, n) ==
    Rounded(IF Len(p.parameters) = 1 THEN ResultOf(execution) ELSE ResultOf(execution).elements[n])

TrainingStep ==
    /\ Made(state) /\ Made(schema) /\ state.step < MaxStep /\ ~Made(bundle)
    /\ VerifiedState(plan, state)
    /\ \E inputs \in Batches(state.step) :
          /\ ValidInputs(plan, inputs)
          /\ \E execution \in
                {ExecuteVjp(plan.differentiated, FullArguments(plan, state, inputs), Float(1))} :
                /\ execution.failure = ""
                /\ \A n \in DOMAIN plan.parameters :
                      ShapeOf(Gradient(plan, execution, n)) = ShapeOf(state.parameters[n].value)
                /\ state' = ApplyOptimizer(plan, state,
                        Directions(plan, state,
                                   [n \in DOMAIN plan.parameters |-> Gradient(plan, execution, n)]))
          /\ lineage' = Descended(lineage, inputs)
    /\ UNCHANGED <<plan, schema, restored, files, processes, model>>

-----------------------------------------------------------------------------
(* Checkpoints.  A file's `lineage` is history: no call reads it.           *)

StoredParameters(p, s) ==
    [n \in DOMAIN s.parameters |->
        [id |-> s.parameters[n].id, name |-> p.parameters[n].name, value |-> s.parameters[n].value]]

ValidSchema(sch, p) ==
    /\ sch.identity # "" /\ sch.signature = PlanSignature(p)
    /\ Len(sch.parameters) = Len(p.parameters)
    /\ \A n \in DOMAIN sch.parameters :
          /\ sch.parameters[n].id = p.parameters[n].id
          /\ FitsFact(sch.parameters[n].shape, p.parameters[n].shape)

\* The digest is of the whole parameter records, and is taken to be free of collisions.
Checkpoint ==
    [identity |-> schema.identity, signature |-> PlanSignature(plan), step |-> state.step,
     optimizerStep |-> state.optimizerStep, optimizer |-> plan.optimizer,
     digest |-> StoredParameters(plan, state),
     parameters |-> [n \in DOMAIN state.parameters |->
                        [index |-> plan.parameters[n].index, position |-> n,
                         stored |-> StoredParameters(plan, state)[n]]],
     velocities |-> state.velocities, lineage |-> lineage]

Savable ==
    /\ Made(state) /\ Made(schema) /\ ~Made(bundle)
    /\ ValidSchema(schema, plan) /\ VerifiedState(plan, state)
    /\ Shapes(state) = schema.parameters

\* transactionalWrite succeeds, or fails after the rename.
SaveTrainingCheckpoint ==
    /\ Savable
    /\ disk' = Checkpoint
    /\ kept' \in {{disk'}, kept \union {disk'}} /\ Cardinality(kept') <= MaxKept
    /\ UNCHANGED <<session, processes, model>>

RestoredParameters(file, p) ==
    [n \in DOMAIN file.parameters |->
        [id |-> p.parameters[n].id, value |-> file.parameters[n].stored.value]]
\* Mutant: momentum starts again from rest.
VelocitiesAtRest(file, p) == Velocities(p, RestoredParameters(file, p))

RestoredVelocities(file, p) ==
    [n \in DOMAIN file.velocities |->
        [id |-> file.velocities[n].id, value |-> file.velocities[n].value]]
RestoredState(file, p) ==
    [signature |-> file.signature, step |-> file.step, kind |-> file.optimizer.kind,
     optimizerStep |-> file.optimizerStep, parameters |-> RestoredParameters(file, p),
     velocities |-> RestoredVelocities(file, p)]

\* The checks of loadTrainingCheckpoint on a file whose bytes are a checkpoint's, in order.
Loadable(file, sch, p) ==
    LET ids == [n \in DOMAIN file.parameters |-> file.parameters[n].stored.id]
        moving == [n \in DOMAIN file.velocities |-> file.velocities[n].id]
    IN /\ file.identity = sch.identity
       /\ file.optimizerStep = file.step
       /\ file.optimizer = p.optimizer
       /\ Len(ids) = Len(p.parameters) /\ Range(ids) = {d.id : d \in Range(p.parameters)}
       /\ \A n \in DOMAIN ids :
             LET item == file.parameters[n]
                 expected == p.parameters[n]
             IN /\ item.stored.id = expected.id /\ item.position = n
                /\ item.index = expected.index /\ item.stored.name = expected.name
                /\ FitsType(item.stored.value, expected.type, expected.shape)
                /\ ShapeOf(item.stored.value) = sch.parameters[n].shape
       /\ [n \in DOMAIN ids |-> file.parameters[n].stored] = file.digest
       /\ file.signature = PlanSignature(p)
       /\ moving = IF MomentumOf(p) THEN ids ELSE <<>>
       /\ \A n \in DOMAIN moving :
             ShapeOf(file.velocities[n].value) = ShapeOf(file.parameters[n].stored.value)
       /\ VerifiedState(p, RestoredState(file, p))

LoadTrainingCheckpoint ==
    /\ Made(plan) /\ Made(schema) /\ Made(disk) /\ ~Made(bundle)
    /\ ValidSchema(schema, plan) /\ Loadable(disk, schema, plan)
    /\ restored' = [state |-> RestoredState(disk, plan), identity |-> disk.identity,
                    digest |-> disk.digest, lineage |-> disk.lineage]
    /\ state' = restored'.state /\ lineage' = disk.lineage
    /\ UNCHANGED <<plan, schema, files, processes, model>>

\* The process ends, with or without the machine, maybe while it saves.
Crash ==
    /\ Made(plan) /\ ~Made(bundle)
    /\ \/ disk' \in kept
       \/ Savable /\ disk' = Checkpoint
    /\ kept' = {disk'}
    /\ plan' = Nothing /\ schema' = Nothing /\ state' = Nothing /\ restored' = Nothing
    /\ lineage' = Nothing
    /\ UNCHANGED <<processes, model>>

-----------------------------------------------------------------------------
(* Deployment.  A public or artifact type is a type with its extents; an    *)
(* artifact's code is left out.                                             *)

StoredType(value) ==
    [type |-> IF IsTensorValue(value) THEN TensorType(F32, Len(value.shape)) ELSE F32,
     shape |-> ShapeOf(value)]

Distinct(s) == \A i, j \in DOMAIN s : s[i] = s[j] => i = j
Slots(bindings) == [i \in DOMAIN bindings |-> bindings[i][2]]

\* Mutant: the parameter of a binding is the one at the binding's position.
BoundByPosition(p, bindings) ==
    [i \in DOMAIN bindings |-> <<p.parameters[i].id, bindings[i][2]>>]

\* A request names source parameters; a snapshot binds their ids.
BoundParameters(p, bindings) ==
    [i \in DOMAIN bindings |->
        <<p.parameters[SelectInSeq(p.parameters, LAMBDA d : d.index = bindings[i][1])].id,
          bindings[i][2]>>]

\* What createDeploymentSnapshot asks of a request.
ValidSnapshot(request) ==
    /\ Made(restored) /\ restored.identity = request.identity
    /\ VerifiedState(plan, restored.state)
    /\ StoredParameters(plan, restored.state) = restored.digest
    /\ LET sources == [i \in DOMAIN request.parameterBindings |-> request.parameterBindings[i][1]]
           publics == [i \in DOMAIN request.publicBindings |-> request.publicBindings[i][1]]
       IN /\ Distinct(sources) /\ Range(sources) = {d.index : d \in Range(plan.parameters)}
          /\ Distinct(publics) /\ Range(publics) = DOMAIN request.publicInputs
          /\ Distinct(Slots(request.parameterBindings) \o Slots(request.publicBindings))

\* validateModelBundle, of what a snapshot does not guarantee.
ValidBundle(b) ==
    LET entry == b.artifacts[1].entry
    IN /\ b.artifacts # <<>> /\ Distinct([n \in DOMAIN b.artifacts |-> b.artifacts[n].backend])
       /\ \A n \in DOMAIN b.artifacts :
             b.artifacts[n].identity = b.identity /\ b.artifacts[n].entry = entry
       /\ entry.result = b.result
       /\ Range(Slots(b.publicBindings) \o Slots(b.parameterBindings)) = DOMAIN entry.parameters
       /\ \A i \in DOMAIN b.publicBindings :
             b.publicInputs[b.publicBindings[i][1]] = entry.parameters[b.publicBindings[i][2]]
       /\ \A i \in DOMAIN b.parameterBindings : \A q \in Range(b.parameters) :
             q.id = b.parameterBindings[i][1] =>
                StoredType(q.value) = entry.parameters[b.parameterBindings[i][2]]

\* createDeploymentSnapshot and createModelBundle; `request` and `lineage` are history.
CreateModelBundle ==
    /\ Made(plan) /\ ~Made(bundle)
    /\ \E d \in Deployments :
          /\ ValidSnapshot(d.request)
          /\ bundle' = [identity |-> d.request.identity, publicInputs |-> d.request.publicInputs,
                        result |-> d.request.result, publicBindings |-> d.request.publicBindings,
                        parameters |-> StoredParameters(plan, restored.state),
                        parameterBindings |-> BoundParameters(plan, d.request.parameterBindings),
                        artifacts |-> d.artifacts, request |-> d.request,
                        lineage |-> restored.lineage]
          /\ ValidBundle(bundle')
    /\ UNCHANGED <<session, files, processes, served>>

FitsPublic(value, public) ==
    /\ RuntimeType(value, public.type) /\ FitsFact(ShapeOf(value), public.shape)

\* prepare: the artifact's inputs, from those of the model and from the frozen parameters.
ExecuteModel ==
    /\ Made(bundle) /\ ~Made(served)
    /\ \E artifact \in Range(bundle.artifacts), inputs \in PublicInputs :
          /\ Len(inputs) = Len(bundle.publicInputs)
          /\ \A i \in DOMAIN inputs : FitsPublic(inputs[i], bundle.publicInputs[i])
          /\ LET public(slot) == SelectInSeq(bundle.publicBindings, LAMBDA b : b[2] = slot)
                 bound(slot) == SelectInSeq(bundle.parameterBindings, LAMBDA b : b[2] = slot)
                 value(id) == (CHOOSE q \in Range(bundle.parameters) : q.id = id).value
             IN served' =
                [backend |-> artifact.backend, public |-> inputs,
                 inputs |-> [slot \in DOMAIN artifact.entry.parameters |->
                                IF bound(slot) # 0 THEN value(bundle.parameterBindings[bound(slot)][1])
                                ELSE inputs[bundle.publicBindings[public(slot)][1]]]]
    /\ UNCHANGED <<session, files, processes, bundle>>

-----------------------------------------------------------------------------
InitTraining ==
    /\ Init
    /\ plan = Nothing /\ schema = Nothing /\ state = Nothing /\ restored = Nothing
    /\ disk = Nothing /\ kept = {Nothing} /\ processes = 0
    /\ bundle = Nothing /\ served = Nothing /\ lineage = Nothing

TrainingNext ==
    \/ CreateTrainingPlan \/ InitializeTrainingState \/ CreateTrainingCheckpointSchema
    \/ TrainingStep \/ SaveTrainingCheckpoint \/ LoadTrainingCheckpoint \/ Crash
    \/ CreateModelBundle \/ ExecuteModel

\* A program that is trained is not run by itself any more.
NextTraining ==
    \/ processes = 0 /\ Next /\ UNCHANGED training
    \/ TrainingNext /\ UNCHANGED vars
SpecTraining == InitTraining /\ [][NextTraining]_<<vars, training>>

-----------------------------------------------------------------------------
(* Properties.                                                             *)

\* However often training stopped and went on from a checkpoint, the parameters and velocities
\* of a session are those of one uninterrupted gradient descent, by the slopes of the loss, of
\* the plan, the model and the shapes the session was opened with (trainingStep of Training.cpp,
\* loadTrainingCheckpoint of Checkpoint.cpp).
TrainingSurvives ==
    Made(state) =>
        /\ lineage.function = plan.function /\ lineage.optimizer = plan.optimizer
        /\ lineage.step = state.step
        /\ DOMAIN lineage.at = {d.index : d \in Range(plan.parameters)}
        /\ Made(schema) => lineage.identity = schema.identity /\ Shapes(state) = schema.parameters
        /\ \A n \in DOMAIN plan.parameters :
              LET by == lineage.at[plan.parameters[n].index]
              IN /\ state.parameters[n].value = by.value
                 /\ MomentumOf(plan) => state.velocities[n].value = by.velocity

\* An artifact is given, in the slot its deployment bound a source parameter to, the value which
\* training left that parameter with, and the caller's inputs in the others
\* (createDeploymentSnapshot of DeploymentBuild.cpp, prepare of ModelBundle.cpp).
ServedAsTrained ==
    Made(served) =>
        /\ \A b \in Range(bundle.request.parameterBindings) :
              served.inputs[b[2]] = bundle.lineage.at[b[1]].value
        /\ \A b \in Range(bundle.request.publicBindings) : served.inputs[b[2]] = served.public[b[1]]
=============================================================================
