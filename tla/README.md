# A verification model of Thiran

Thiran compiles and runs a small numerical language.  The V0 native path goes
from source through a verified semantic module and ownership facts to a
straight-line tensor region, plans its physical memory and fusion, and executes
it on the host or on a GPU under an asynchronous runtime.  A module can also be
evaluated by a reference evaluator, differentiated and trained.  Models,
checkpoints and native artifacts are persisted by one transactional file
protocol.  A legacy path (modules, graph, regions, Python emission) lives beside
it.

This directory holds TLA+ modules of the parts where order, sharing, failure and
the agreement of one pass with the next decide correctness, TLC configurations that check them on small instances, and
TLAPS proofs for any instance.  Paths in the text are those of the repository.

## Inventory

| Component (source) | State it keeps | Operations | What is hard, and what must hold |
|---|---|---|---|
| Asynchronous runtime (`src/runtime/v0/Async.cpp`) | reservations of each resource, an operation's state, outcome, dependency closure and `observing` latch, the unobserved-error channel | submit, observe, state, drop, guards of host accesses | several threads, callbacks with no lock held, recursion over dependencies, failing submissions; conflicting work never overlaps, one wait per operation, no lost failure, every call returns |
| Tensor region (`src/backend/v0/TensorRegion.cpp`) | nodes of one straight-line dataflow | extract, verify | the planner depends on what verification guarantees |
| Physical plan (`src/backend/v0/PhysicalPlan.cpp`) | fusion groups, lifetimes, slots | build, verify | slots are shared: boundaries of lifetimes, aliases, fused groups, retained values |
| Native CPU and GPU backends (`src/backend/v0/NativeCpu.cpp`, `NativeGpu.cpp`) | scratch vectors; device allocations, stream, event, first failure | emit; submit, poll, wait, abort, finalise | execution order against planned lifetimes; in-flight transfers against release |
| File installation (`src/persistence/v0/Persistence.cpp`, `src/artifact/v0/NativeArtifacts.cpp`) | the destination, temporary files | write, sync, rename, sync the directory; load | crash, I/O errors, contention; whole files, durable success, true results |
| Training and checkpoints (`src/training/v0`) | an immutable training state per step | plan, step, save, load | value semantics make a step atomic; identity and order of parameters on load |
| Storage (`src/storage/v0/Storage.cpp`) | storage objects shared by tensors | materialise, view, copy, move, write, bind | views and moves against asynchronous reservations; arithmetic of offsets at its width |
| Artifacts and model bundles (`src/artifact/v0`, `src/model/v0`) | a sectioned file; a snapshot of parameters and its bindings | write, load, select a backend, prepare an execution | a stale or foreign file must be refused; a parameter must reach its own slot |
| Ownership analysis (`src/analysis/v0/Ownership.cpp`) | availability and provenance of each binding, liveness | transfer functions, joins, loop fixpoints | soundness of joins and of the bounded fixpoint |
| Semantic analyzer, verifier, evaluator, autodiff, extensions (`src/semantic/v0`, `src/autodiff/v0`, `src/extension/v0`) | a typed structured program; saves of a derivative; a registry | analyse, verify, evaluate, differentiate | structured control flow with early exits; a check dropped because a fact was believed known; what one pass generates must be legal for the next |
| Command line and processes (`src/tooling/v0`) | pipes, child processes, temporary directories | compile, run | pipe draining, inherited descriptors, non-atomic output copy |
| Module linker (`src/frontend`) | the import graph, expanded functions | link | import cycles, recursion, names of expanded locals |
| Legacy graph, optimizer, regions (`src/ir`, `src/optimizer`, `src/region`) | a graph with two adjacency lists, its partition | rewrite, form regions, verify, emit | adjacency kept in step, order of regions, meaning kept by each pass |
| Parsers, graphics, interop, doctor, printers, legacy scheduler | little or none | | text, numeric code, thin wrappers and reports: not modelled |

Components meet in few places.  A backend submits to the runtime through four
callbacks (submit, poll, wait, abort); storage asks the runtime's guards before
it touches bytes; a backend reads a plan and never changes it; each semantic pass
takes the module of the one before; training runs the derivative; checkpoints
and bundles call one writer and artifacts its twin.  The modules follow those
seams: those of the checked pipeline, of the legacy compiler, and storage with the
GPU backend are composed by `EXTENDS`, and one run explores the composition.

## Modules

| Module | Models | |
|---|---|---|
| `AsyncRuntime` | `Async.cpp` | one action per critical section or callback |
| `AsyncContract` | what submission promises | refined by `AsyncRuntime` |
| `MCAsyncRuntime` | | instances |
| `AsyncRuntimeProofs`, `AsyncLifecycleProofs`, `AsyncRefinementProofs` | | theorems about `AsyncRuntime` and its contract |
| `PhysicalPlan` | `TensorRegion.cpp`, `PhysicalPlan.cpp`, and the order in which both backends walk a plan | one action per node and pass |
| `MCPhysicalPlan` | | instances |
| `PhysicalPlanProofs` | | theorems about `PhysicalPlan` |
| `InstallFile` | `transactionalWrite`, `writeFileAtomically`, `readFile`, and a file system that crashes | one action per system call |
| `MCInstallFile` | | instances |
| `InstallFileProofs` | | theorems about `InstallFile` |
| `Storage` | `Storage.cpp`: host tensors under reservations | one action per operation |
| `MCStorage` | | instances |
| `StorageProofs` | | theorems about `Storage` |
| `GpuPending` | the execution half of `NativeGpu.cpp`, on `Storage` | one action per driver call |
| `MCGpuPending` | | programs |
| `GpuPendingProofs` | | theorems about `GpuPending`, on those of `Storage` |
| `RunProcess` | `Process.cpp` | one action per system call |
| `Toolchain` | the build stages of `Driver.cpp`, on `RunProcess` | one action per stage, two for a copy |
| `MCToolchain` | | scripts of child processes |
| `ProcessProofs` | | theorems about `RunProcess` and `Toolchain` |
| `LegacyGraph` | `src/ir`, `src/optimizer`, `ShapeInference.cpp` | operators on a graph |
| `ModuleLinker` | `ModuleLinker.cpp` | operators on a program |
| `Regions` | `src/region` | operators on a graph and a plan |
| `LegacyCompiler` | `prepareGraph` and `runPlanning` of `main.cpp` | one action per import, pass or round |
| `MCLegacyCompiler` | | three families of programs |
| `Ir`, `Values` | the V0 semantic IR; runtime values | data and operations on it |
| `Extensions` | recipes, gradients and the registry | operators |
| `Analyzer` | `Analyzer.cpp` | syntax to IR |
| `Verifier` | `Verifier.cpp` | is IR legal |
| `Ownership` | `Ownership.cpp` | IR to diagnostics and effects |
| `Evaluator` | `Evaluator.cpp` | IR and arguments to a value or failure |
| `Autodiff` | `Autodiff.cpp` | IR to a forward and a backward function |
| `CheckedProgram` | the entry points of the five above | one action per entry point |
| `TrainingRun` | `src/training/v0`, bundles of `src/model/v0` | one action per call that succeeds |
| `MCCheckedProgram` | | five families of programs |

### AsyncRuntime

`Submit` draws the id, copies the dependencies and computes their closure;
`SubmitObserveDependency`, `SubmitDependencySucceeded` and
`SubmitDependencyFailed` are the loop that observes them; `Acquire` and its
failing alternatives are `acquireReservations`; `SubmitBackend`,
`AbortBackend`, `SubmitUnwind` and `SubmitPublish` are what follows.
`observeImpl` is recursive.  Since `observing` admits one activation per
operation, the locals of an activation are indexed by the operation (`frame`),
and a caller only remembers whom it called (`callee`); `ObserveEnter` to
`ObservePublish` are the sections of an activation.  `state()` is three steps
because the backend is polled with no lock held.  The destructor and move
assignment share `Drop`/`DropDone`.  `HostRead` and `HostMutate` are a guard
that passed, `HostAccessDone` the end of the access.

`collectDependencyIds` reads dependency vectors with no lock while another
thread may clear them.  `Submit` lets any operation that is at its publication
look empty (`lost`).  The evidence counters are left out.  The backend is
external: work it accepted finishes with success or with a deferred failure,
`wait` returns once it has, and `abort` drains.

A handle is an ordinary object.  Nobody calls a method of it while it is being
destroyed; everything else is allowed to run at once.

### PhysicalPlan

A behaviour builds one region node by node, plans it, verifies the plan and
walks it.  Node ids are positions.  Scalar nodes are left out, except `Index`,
which is a kernel operation of its own; a shape class stands for dtype, rank
and extents, and `zero` for a shape with no bytes.  A slot holds the name of
the node whose value is in it, or `Garbage`.  `Execute` runs a fusion group at
its first node, where the loop of `NativeCpu.cpp` emits it and the walk of
`NativeGpu.cpp` launches it; `ClearsOperand` is the `clear()` of the target
vector in generated host code.  `Unsupported` is host emission giving up on a
result without a slot.

### InstallFile

Two routines, one protocol: they differ in how the temporary is named, hence
`style`.  A crash keeps what was synced and any part of the rest: file data
that was never synced may be short, and a directory entry may have any of the
values it had since the directory was last synced.  A call's id names the file
it makes; `rank` orders the renames.

### Storage and GpuPending

A wrapper is a tensor variable of the caller; a storage object lives while one
names it.  `Materialize`, `Select`, `Transpose`, `ReshapeView`, `DeepCopy`, the
copies, moves and assignments of wrappers, `Store`, `BindFresh` and `BindCopy` do
what the code does to offset, shape and strides, in integers of `MaxWord`.  `logical` is the map from indices to cells that the language gives
a tensor; no guard reads it.  Reservations come and go as the runtime's would.

`GpuPending` extends it with one pending execution.  The host walks the nodes of
a planned program, or the buffers of a raw kernel, and enqueues; `DeviceStep`
executes the oldest entry of the stream; then the host polls, waits, publishes
and releases, or aborts.  The driver is external: an allocation, an enqueue or a
query may fail; a synchronising call fails only once the device is broken, and
then the stream has stopped.  A fused group is one node, and so is a byte buffer
that a raw kernel reads or writes.  What the walk has defined for a node is a
device buffer with a number of elements, or a scalar of the host; a planned slot
keeps the size it was first given, as `plannedAllocation` does, and a node with no
elements has an allocation of its own.  A walk that misses an operand, finds a
host scalar where a device tensor must be, another size than the slot's or an
index out of bounds fails as an exception does; so does an allocation when the
device has no memory left.  A kernel that overflows sets the error word, which
is cleared before the first kernel that may.  Each output and the error word is a
transfer of its own, and the event follows them.  Between any two calls
the caller may move, drop, view or read its tensors.  `expected` is what the
program computes from the inputs as they were submitted; no guard reads it.

### RunProcess and Toolchain

Descriptors are numbers of one table and pipes have a capacity, so which write
ends a child inherits is what `fork` sees.  A child follows a script (write,
close, exit).  `Toolchain` adds the stages of a build and the copy to the
requested output, which another thread may read or overwrite in its middle.

### The legacy compiler

A graph is a value with its storage order, both adjacency lists and its edges.
What it means is its outputs at sample inputs, over a small field in which
matrix product and softmax have no laws.  `LegacyCompiler` takes a program
through linking (one import at a time), the passes of `prepareGraph` (one round
at a time where a pass has rounds) and planning; its variables are the linker's
and the graph.  The meaning of the source is computed from the modules, never
from the graph.

### The checked pipeline

Analysis threads one state through the syntax, as the visitor threads its
members, and gives IR with types, shape facts, constants and the checks that
remain.  The verifier, the ownership analysis, differentiation and evaluation are
separate operators over that IR, as they are separate passes, and share with the
analyzer only what the code shares.  Recursion is bounded by the syntax.

Ownership facts are collected block by block and then audited, as in the code: a
value has a kind (`Fresh`, a copy, an alias, a view, possibly an alias), and
`AuditFacts` compares kinds, resources, roots and effect summaries once the
fixed points are reached.

The evaluator copies values, so a moved or aliased tensor does it no harm.  Each
value therefore also carries a handle: the objects and the view roots a native
execution would hold.  `run.misuse` collects the uses that execution would get
wrong.  These are monitors: no guard reads them.

`CheckedProgram` has an action per entry point, taken in any order the API allows.
`TrainingRun` goes on from an accepted program: plans, states, steps, saving,
loading, snapshots, bundles and executions.  A call that reports an error leaves
its caller's values, so its action is the call that succeeds, with every check as
a conjunct.  A process may crash, after which the file is one that `InstallFile`
allows: the last saved, an older one if a save failed after its rename (`kept`),
or the new one if the process died while saving.
`lineage` is the history of a gradient descent done by hand, with slopes taken
by differences of the loss itself.

## Runs

| Run | Instance | Question |
|---|---|---|
| `async_two_threads` | 2 threads, 3 operations, 1 resource, empty and doubly named requests | do reservations, observation and failure reporting survive every interleaving, and is the contract implemented |
| `async_host_thread` | 1 thread, 3 operations, 2 resources, throwing polls, exhausted memory, host access | do the guards keep the host off pending work; does a failed operation stay failed |
| `async_liveness` | 2 threads, 2 operations, fairness | does every call return |
| `async_out_of_memory` | 1 thread, 2 resources | are reservations taken all or none (they are not) |
| `plan_all` | regions of up to 5 nodes, all options, both devices, obligations | is a plan accepted, executable, and right without combining reuse and fusion; do the output and obliged values survive |
| `plan_fused_reuse` | chains of up to 5 nodes with reuse and fusion | is a plan right with both on (it is not) |
| `install_file` | 2 writers, 1 loader, 3 writes, 1 crash | whole files, durable success, true results, no stray temporaries |
| `storage` | 2 wrappers, 2 objects, 5 operations | do offsets and strides reach what the language denotes; does pending work keep its data; do resources stay apart |
| `gpu_pending` | 6 programs, 2 tensors, full and empty, failures everywhere | does device memory outlive the work that uses it; is a success the program's value; is a failure final; is everything released |
| `tool_driver` | 2 builds at once, one runs its program | is output captured whole, is the output a built artifact, does every build return |
| `legacy_compiler` | three families of programs | does exactly what is well formed link; do all passes and the emitted regions compute the source |
| `checked_program` | five families, training of two losses over two processes | is an accepted program safe; are failures declared; is generated IR legal; is a gradient the derivative; does training survive restarts; does a bundle serve what was trained |

### Bounds

Three operations on a resource are a holder, a conflicting requester and a
third that depends on either; with two threads, one can be inside an activation
while the other submits, drops or polls.  Its properties are also proved with no
bound, but for liveness.  Five nodes admit an input, a value, two fused nodes and a
consumer that could take a freed slot; `Index` and the obligations
(`BarrierNodes`, `Obliged`) are limited to regions of four nodes, but for reuse
with fusion on the GPU, where obligations go to five: the least at which a value
behind an alias could lose its slot.  Literals, extensions and empty shapes stay
with three.  Two writers contend for a name and a third write follows a crash; a
second crash adds nothing, since a crash leaves every entry and file in a state
that an earlier step can have left.

`storage`: a line and a square of four elements, sliced to the end of an axis
with steps 1 and 2, transposed and reshaped; `MaxWord` 7 makes products overflow
beside products that do not; five operations are a tensor, two views, a
reservation and a write.  `gpu_pending`: one submission; four host operations make
a tensor, a view of it, move it and drop it; programs cover
every kind of node, both literals, traps, an index out of bounds, a slot used
twice and a raw kernel; shape `<<0>>` is the path with no transfer.
`tool_driver`: a pipe of one block and children that write two, so a child blocks
if it is not drained.

`legacy_compiler`: every import graph over three modules and every call into them;
every sequence of three of the operations passes rewrite, and of two of any, with
static, dynamic and scalar shapes; values in the field of 7 at two samples, so a
pass that is wrong at both by accident is possible but no mutant survived it.

`checked_program`: families for ownership (every small statement alone, in a
branch, in two, in a loop, in a loop with a break), scopes and scans, shapes and
traps, differentiation and losses.  `MaxI64` 7 lets additions and products
overflow; vectors of one and three elements and matrices of 1x3 and 2x2 meet and
miss every static shape; the evaluator's limits are small but above what a
terminating program here needs, and loops that never end reach them.  Slopes are taken
with five points, exact for the degree of every expression here (at most 4).
Training takes two steps, two processes and two files kept; rates are given in
halves and numbers are residues of 7, so an optimizer's fractions are exact.

`CHECK_DEADLOCK FALSE` is set everywhere.  In the runtime, in storage and in
installation the calls a model makes are bounded and nobody is obliged to make
one, so it may stop; elsewhere a behaviour ends when the work is over, and
`BuildsReturn` and `CallsReturn` say that calls do end.

### Fairness

`FairSpec` is weak fairness of each thread that is inside a call, of each
activation, and of the backend finishing what it accepted.  A thread in a call
is scheduled by the operating system, `wait` and `abort` return when the
backend is through, and `notify_all` follows each publication.  No fairness is
given to making calls.

`SpecTool` is weak fairness of each caller's thread, in `runProcess` and between
its stages, and of each child: the operating system schedules both, and the
scripts of the children end.  A child blocked on a full pipe is not enabled, so
nothing is assumed about draining.

## Findings

* **A fused group's output may take the slot of a value the group reads**
  (`plan_fused_reuse`).  `requiredLifetime` (`PhysicalPlan.cpp:255`) starts the
  output's lifetime at its own node, while the backends execute the group, and
  write the output, at the group's first node.  With reuse and fusion on, for
  `x=Input; t=x+x; g1=t+t; g2=g1+x; out=g2+g2`, `t` and `g2` share a slot and
  the group destroys `t` while it reads it.  The plan verifier recomputes the
  same lifetimes and agrees.  `plan_all` shows that plans which do not combine
  the two options are right.
* **Reservations are not taken atomically when memory runs out**
  (`async_out_of_memory`).  An exception in the middle of the insertions of
  `acquireReservations` (`Async.cpp:181-185`) is turned into an error, and what
  was entered stays.  No handle exists to release it.

## Observations

Met while modelling, and kept out of the properties' way where noted.

* Rebinding a mutable binding resets its constant but not its shape fact
  (`Analyzer.cpp:618-626`).  A stale fact rejects programs that are right, or
  leaves out a check that was needed, and then a function whose effects are pure
  fails at run time; `docs/spec/SEMANTIC_IR_V0.md:25,31` say otherwise.
  `FailuresAreDeclared` leaves runs out that rebound a tensor to another shape
  (`run.reshaped`).
* A scan whose state changes its shape fails with `TH012-STATE-SHAPE` though its
  effects need not have `MayTrap`; that failure is left out too.
* The audit of the ownership facts refuses legal programs with
  `TH006-RESOURCE-INVARIANT`.  A loaded tuple is an alias only at its top
  (`Ownership.cpp:292-296`), so an element that is `Fresh` or a copy is taken for a
  resource made in two places (lines 704-707): `let r=scan(step,xs,s); return r`,
  `return p` for a tuple parameter, `let q=copy(p); return q` for a tuple `p`; the
  same values used without a binding between are accepted.  In
  `while c { A=copy(A) }` the copy of the first round is an operand of the second,
  so the copy is found to share a resource with its source (lines 742-747).
  `docs/spec/OWNERSHIP_V0.md:7,9` says that `copy(A)` "gives an independent logical
  resource", that the copy of a tuple "duplicates each contained resource value" and
  that "tuple facts retain provenance per element".  The programs of
  `checked_program` hold each case beside its accepted neighbour, and
  `GeneratedIsValid` does not say that analyzed programs pass this audit.
* A function with a transposition can be differentiated but not trained.  The
  forward function returns the view it saved and the backward one transposes a
  temporary, so the generated module fails its own ownership analysis
  (`TH006-VIEW-RETURN-DEFERRED`, `TH006-VIEW-ROOT-UNKNOWN`) and a plan stops with
  `TRN15` (`Training.cpp:234-238`), though `docs/spec/AUTODIFF_V0.md:9,40` makes rank-two
  transposition eligible.  `GeneratedIsValid` claims the analysis of generated
  functions for all others.
* Liveness is of bindings, so temporaries are not seen: in
  `A[0:1] .* g(move(A))` the view is used after the move.  `move(A)[0:1]` is
  accepted and rooted in the moved handle.  Rebinding a `MutableBorrow` parameter
  loses its return check.  A resource given to a `Consume` parameter may be
  borrowed mutably while an alias lives in the caller.  `AcceptedIsSafe` is
  therefore about bindings, within a frame.
* `executeVjp` does not check the shape of its seed; `GradientIsDerivative` is
  about seeds of the result's shape.
* A loss with an integer parameter can be planned but never stepped:
  `runtimeMismatch` refuses every batch that has it.
* In the legacy graph `Add(x, x)` cannot be represented and is refused by the
  arity check, with exit code 0.  Folding two transpositions or a reshape hides
  a shape error they had; the properties say that what is compiled
  computes the source, not that every error is reported.
* `runProcess` leaves pipes undrained when `poll` fails for a reason other than
  `EINTR` (`Process.cpp:62`), and polls without blocking when a child closed a
  stream early.  The first is not modelled: `poll` does not fail here.
* In the GPU backend a failed wait overwrites the category of the failure a poll
  had recorded; `ResultIsFinal` is about the outcome.
* `compileCpp` ignores the error of setting permissions.

## Proofs

Every theorem below holds for any value of the constants that satisfies the
assumptions named in the module it is about, and the hypotheses it states.  The
instances of TLC are as small as the table of runs says; no bound of theirs is
used in a proof.  Each inductive invariant was checked by TLC on the instance of
its run before it was proved.

| Module | Theorem | States |
|---|---|---|
| `AsyncRuntimeProofs` | `Typing` | `TypeOK` |
| | `Exclusion` | `ReservationExclusion` |
| `AsyncLifecycleProofs` | `Waiting`, `Coverage`, `Ordering`, `Surfacing` | `WaitOnce`, `BackendCovered`, `PredecessorsSucceeded`, `FailureSurfaces` |
| | `Finality` | `ObservationFinal` |
| | `NoLeak`, `Atomicity` (`~AllocMayFail`) | `FinishedHoldsNothing`, `AcquisitionAtomic` |
| | `PolledFailures`, `HostAccesses` (one thread) | `FailedStateIsFinal`, `HostAccessSafe` |
| `AsyncRefinementProofs` | `Refinement` (`~AllocMayFail`) | `ImplementsContract` |
| `InstallFileProofs` | `WholeFiles`, `Durability`, `TrueResults`, `TemporariesRemoved` | `DestinationWhole`, `SuccessIsDurable`, `ResultIsTrue`, `OnlyCrashLeavesTemporary` |
| `StorageProofs` | `Views` | `ViewsDenote` |
| | `Reservations`, `Separation` | `ReservedIsStable`, `WritesStayApart` |
| `GpuPendingProofs` | `SuccessIsComputed` | `PublishedIsComputed` |
| | `MemoryLives`, `NothingIsLeft`, `FailuresStand`, `InputsStay` | `DeviceMemoryAlive`, `DoneHoldsNothing`, `ResultIsFinal`, `ReservedIsStable` of the composition |
| `ProcessProofs` | `OutputIsComplete`, `OutputBuilt` | `OutputComplete`, `OutputIsBuilt` |
| `PhysicalPlanProofs` | `PlannerAcceptsItself`, `OperandsAreProduced`, `OperandsAreIntact`, `RetainedValuesAreKept` | `BuildAcceptsItself`, `ReadsAreAvailable`, `ReadsSeeTheirValueUnlessBoth`, `RetainedValuesStay` |

**Hypotheses.**  `~AllocMayFail` says that no `push_back` runs out of memory in
the middle of an acquisition; `async_out_of_memory` shows that `Atomicity` fails
without it, and the reservation that is left behind is what `NoLeak` and the
contract exclude.  One thread is what `docs/spec/ASYNC_LIFETIMES_V0.md` asks of
callers that access resources or read states; with two, a submission fits between
a guard and its access.  The assumptions of the modules are about data: the
number of storage objects is a natural number, shapes are sequences of naturals,
the steps of a slice are positive (`makeSliceView` refuses others), a copy is of a
resource there is, no caller is named as the parent
process or a file, a script of a child ends (`IsScript`).
`ProgramsAssumption` says what a planned program is: nodes read earlier nodes and
the inputs come first (`NodeWellFormed`); an alias has the slot of its root, and a
slot goes to another value only when nothing that follows reads the values it held
(`SlotWellPlanned`); only a raw kernel writes its outputs (`RawWellFormed`).  For the
slots this is what `OperandsAreIntact` and `RetainedValuesAreKept` prove of the plans
the planner makes, but for those that both reuse and fuse: there `plan_fused_reuse`
has a plan that is not well planned, and `SuccessIsComputed` says nothing of it.

**Exclusion.**  `ReservationExclusion` is not inductive: `acquireReservations`
lets a request in beside a conflicting holder that is in its dependency closure.
`ExclusionInv` explains why no such holder is ever left.  A submission reaches
acquisition when every dependency was observed (`ClosureIsObserved`); observed
operations have no dependencies left, so the closure holds only observed
operations, even when a vector is read while it is being cleared
(`ReachableObserved`); an observed operation was released before
(`ObservedAreReleased`) and never holds anything again (`ReleasedHoldsNothing`),
because a submission's id belongs to one thread (`SubmissionsApart`) and only
published operations can be named (`NamedArePublished`).

**Lifecycle and refinement.**  `LifecycleInv` adds what `observing` gives: an
operation has one activation, which some thread or another activation is inside
(`OneActivation`), and the stage of the activation says what is already waited
for, released and published.  What keeps the parts together is that an operation
can only be named as a dependency once it is published, and that a consumer is
published only when everything it depends on was observed; so an activation of a
published operation never opens another, and only threads open activations.  The
refinement maps a reservation set, an activation and a state to the contract's
view of an operation; each action of the runtime is one of the contract's or
leaves the view alone.

**Installation.**  Nobody writes to a file that the destination has named:
`rename` is reached only behind a whole file and a successful sync.  `InstallInv`
says so of the destination, of every value it may fall back to in a crash and of
what a loader opened, and keeps the ranks of renames below the number of files
that have one, so every rename takes the greatest; a success is returned behind the sync of the directory, which drops the older
ones.  A temporary belongs to the call that created it, because creation is
exclusive.

**Physical plan.**  `PlanInv` describes each pass by how far it has come.  A node
reads earlier tensors and its root is an earlier node (`RegionOK`).  A value a
group keeps in a register is `Linked`: the group's next node alone reads it, and
reads nothing else made after the group began; so what a group reads precedes its
first node, and no step outside reads what stays in a register (`ReadsFacts`).  A step
produces the one value that starts at it (`ProducesFacts`).  Roots in one slot are
reusable and their lifetimes are apart (`SlotsOK`): the verifier finds nothing,
and a retained root, whose lifetime has no end, is alone in its slot.  Without
fusion a value starts at its own position, which is where its lifetime starts, so
a step that takes over a slot comes after the last reader; without reuse no slot
is taken over.  With both, the group writes before its output's lifetime starts,
and the proof fails where `plan_fused_reuse` does.

**Storage.**  Identifiers are handed out in order, so an object nobody refers to
is told by its number: a new one is neither reserved nor bound.  What a tensor
reads depends on the cells of its own object, whatever its offset and strides.
`Views` says that a view of a view of a tensor denotes what its definition says,
for every shape and slice.  The folds over axes (ranks, strides, element counts)
are recursive functions of the community modules; a fold is described by the list
of its results after each axis (`FoldPrefixes`), which exists by induction on the
numbers up to the last axis (`UpTo`, from the least number at which a function
differs).  From this come the rank of an index (`RankIs`, `RankOnto`) and what
reshaping and selecting do to the elements (`ReshapedDenotes`, `SelectedDenotes`).
`ViewsInv` adds what keeps tensors meaningful: a resource never changes its
length, and a step gives each wrapper another's tensor, none, or one that denotes.

**GPU.**  `GpuInv`: handles refer to live memory (`BuffersHeld`), so do the
commands of the stream (`CommandsHeld`), and memory only grows until a release.
A release finds the stream empty: whatever is in it was counted
(`StreamCounted`), an abort synchronises when something was counted, and a wait
is behind the event, which is the last command enqueued (`EventLast`).
`InputsReserved` says exactly what is reserved and when.  With the invariant of
`Storage` this gives `InputsStay`: the uploads of a walk read what was submitted.

`SuccessIsComputed` speaks of a device that is behind the host: while the walk
goes on, memory holds what older commands left, and no fact about it is of use to
the next.  So `ValueInv` speaks of the state the device will have when it has
executed the stream, `Leads(d)`: a device step leaves it as it is
(`LeadsDown`), and enqueueing a command executes the command on it
(`LeadsOn`).  `Means(d)` says that in that state what the rest of the program
reads or publishes is in its buffer and is what the program computes (`Computed`),
a stack is filled up to the next element (`Partial`), what was uploaded for a
storage is that storage's elements (`Shared`), the error word tells whether a kernel
so far overflowed (`Told`) and each output downloaded is that output (`Fetched`).
What keeps a command from spoiling a value is `Placed`: a slot's buffer holds the
values planned in that slot and no upload, and the error word and each output of a
raw kernel have a buffer of their own; with `SlotWellPlanned`, what a command
overwrites is read by nothing that follows.  There is one lemma for each way the
walk goes on, and the wait, behind the event, finds the stream empty, where
`Leads` is the memory itself.

**Processes.**  What a child wrote is what was captured followed by what is still
in the pipe; a descriptor's number is not given away while its stream is among
those polled; and a stream leaves that set only with the pipe empty and no
writer.  For a build, an artifact is whole when its compiler returned success,
and a copy that nobody overlaps finds the file as it left it.

Only model-checked, and why:

* `CallsReturn` and `BuildsReturn` are liveness under fairness.
* The four properties of `LegacyCompiler`, the four of `CheckedProgram` and the two
  of `TrainingRun` are about what programs compute: an evaluator, an analyzer and
  passes that are `RECURSIVE` over statements and graphs, which no module with a
  theorem can reach.

## Not modelled

* Parsers and printers, the Python text, argument handling, the doctor and the
  legacy scheduler: functions from text to text, or reports nothing acts on.
* The bytes of persisted formats, digests and the rejection of malformed files.
  Schemas, bindings, identities and shapes are compared as the code compares them.
* f32 rounding: numbers are exact integers in the evaluator, residues in training.
* Evidence counters, diagnostics' texts, spans and dumps.
* Result inference and imports in the analyzer, the module initializer.
* View roots declared to the planner, which only tests do, and the verifier's
  comparison of stored lifetimes, classes and fusion groups with recomputed ones
  (MPV12, MPV16 of values, MPV23, FPV): the model's plan stores slots only.
* The second removal of a temporary in the artifact writer's handler, and the
  sizes a raw kernel's request names for its outputs.
* Allocation failures of the host in the walk of a GPU program
  (`NativeGpu.cpp:964` frees device memory of a transfer in flight then).
* PTX, compiled kernels, device probing, graphics and foreign libraries.

## What could follow

Every component of the inventory but those under "Not modelled" has a module and a
run that composes it with its neighbours, and every safety property of the runtime,
the physical plan, installation, storage, processes and GPU execution that is
meant to hold is proved.  Left are, in the order of what they would show:

1. `ArtifactLoad`, the choice between a cached payload and generating one, and host
   allocation failure in the walk of `GpuPending`.
2. Findings of their own for the stale shape of a rebound binding, for the programs
   the ownership audit refuses, and for losses with a transposition.
3. What of the pipelines needs no induction over data, such as the order of passes
   and the state a rejected step leaves behind, in modules free of `RECURSIVE`.
