----------------------------- MODULE GpuPending -----------------------------
(***************************************************************************)
(* One pending execution on the native GPU backend                         *)
(* (backend/v0/NativeGpu.cpp) over the host tensors of Storage: the        *)
(* submission walks a planned program and enqueues transfers and kernels   *)
(* on one stream; the device executes them in order while the host goes    *)
(* on; the host polls, waits, publishes and releases.  An abort drains     *)
(* what a failed submission enqueued.                                      *)
(*                                                                         *)
(* Programs are planned regions, and raw kernels with byte buffers.  A     *)
(* node has an op, the nodes it depends on and its planned slot; a fused   *)
(* group is one node.  A kernel adds its operands.  The bytes of a raw     *)
(* kernel's request and the buffers it writes are nodes before it.         *)
(***************************************************************************)
EXTENDS Storage

CONSTANTS
    Programs,    \* the programs that may be submitted
    MaxElement   \* the largest element; a checked sum beyond it traps

Ops == {"input", "bytes", "literal", "integer", "alias", "group", "copy", "index", "stack",
        "output", "kernel"}

Arity(p) == Cardinality({i \in DOMAIN p.nodes : p.nodes[i].op \in {"input", "bytes"}})

\* What is read by the nodes from m on, or published.
NeededFrom(p, m) ==
    Range(p.outputs) \cup UNION {Range(p.nodes[k].deps) : k \in {k \in DOMAIN p.nodes : k >= m}}

\* A node of a region reads earlier nodes, and the inputs come first.
NodeWellFormed(p, i) ==
    LET n == p.nodes[i] IN
    /\ n.op \in Ops /\ n.deps \in Seq(1..(i - 1))
    /\ n.op \in {"input", "bytes"} <=> i <= Arity(p)
    /\ n.traps => n.op = "group"
    /\ n.op \in {"alias", "copy", "index"} => Len(n.deps) = 1
    /\ n.op = "index" => n.index \in Nat \ {0}
    /\ n.op \in {"literal", "integer"} => n.content \in Seq(Int)
    /\ n.op = "integer" => Len(n.content) = 1

\* The plan gives an alias the slot of its root, and a slot to another value when nothing
\* reads the values it held any more.
SlotWellPlanned(p, i) ==
    LET n == p.nodes[i] IN
    /\ n.op \notin {"alias", "literal", "group", "copy", "stack"} => n.slot = 0
    /\ n.op = "alias" => n.slot = p.nodes[n.deps[1]].slot
    /\ n.op # "alias" /\ n.slot # 0 =>
            \A j \in 1..(i - 1) : p.nodes[j].slot = n.slot => j \notin NeededFrom(p, i)

\* A raw kernel is the last node; it writes the buffers that are published, and nothing
\* else reads them.
RawWellFormed(p, i) ==
    LET n == p.nodes[i] last == Len(p.nodes) IN
    /\ n.op = "kernel" => i = last /\ \A j \in Range(p.outputs) : p.nodes[j].op = "output"
    /\ n.op = "output" => /\ p.nodes[last].op = "kernel" /\ n.deps = p.nodes[last].deps
                          /\ \A k \in DOMAIN p.nodes : i \notin Range(p.nodes[k].deps)

ASSUME ProgramsAssumption ==
    \A p \in Programs :
        /\ p.nodes \in Seq(Range(p.nodes)) /\ p.outputs \in Seq(DOMAIN p.nodes)
        /\ \A i \in DOMAIN p.nodes :
                NodeWellFormed(p, i) /\ SlotWellPlanned(p, i) /\ RawWellFormed(p, i)

Buffer == 1..8   \* bound: device allocations of a submission

NoBuffer == 0
NoContent == <<>>

VARIABLES
    phase,       \* the host's calls and the operation's life
    program, inputs,
    node, part,  \* the walk: the node, and the commands already enqueued for it
    values,      \* of each node: its device buffer and its elements, or its host scalar
    uploaded,    \* of each storage object: the buffer it is uploaded to, and its size
    slots,       \* of each planned slot: its buffer and its size
    errorBuffer,
    staging,     \* host copies that transfers read
    outputBytes, errorHost, \* host memory that transfers write
    counted,     \* something was counted as submitted to the stream
    failure, completed,
    memory,      \* of each live buffer: its content
    stream,      \* commands the device has yet to execute
    eventDone, broken,
    expected     \* history: what the program computes from the inputs submitted

hostState == <<phase, program, inputs, node, part, values, uploaded, slots, errorBuffer,
               staging, counted, failure, completed, expected>>
deviceState == <<memory, stream, eventDone, broken, outputBytes, errorHost>>
gpuVars == <<hostState, deviceState>>
allVars == <<vars, gpuVars>>

Live == DOMAIN memory

(***************************************************************************)
(* What a program computes.                                                *)
(***************************************************************************)
At(content, k) == IF k \in DOMAIN content THEN content[k] ELSE 0

AddAll(contents) ==
    [k \in DOMAIN contents[1] |-> FoldLeft(LAMBDA sum, c : sum + At(c, k), 0, contents)]

Overflows(n, contents) == n.traps /\ \E x \in Range(AddAll(contents)) : x > MaxElement

\* The content of a node, from the contents of the nodes it depends on.
Apply(n, contents) ==
    CASE n.op \in {"group", "output", "kernel"} -> AddAll(contents)
      [] n.op = "index"  -> <<At(contents[1], n.index)>>
      [] n.op = "stack"  -> [k \in DOMAIN contents |-> At(contents[k], 1)]
      [] n.op \in {"literal", "integer"} -> n.content
      [] OTHER           -> contents[1]

Operands(n, contents) == [k \in DOMAIN n.deps |-> contents[n.deps[k]]]

NodeContent(p, given, contents, i) ==
    IF p.nodes[i].op \in {"input", "bytes"} THEN given[i]
    ELSE Apply(p.nodes[i], Operands(p.nodes[i], contents))

NodeContents(p, given) ==
    LET f[i \in DOMAIN p.nodes] == NodeContent(p, given, f, i) IN f

Outcome(p, given) ==
    LET f == NodeContents(p, given) IN
    [overflow |-> \E i \in DOMAIN p.nodes : Overflows(p.nodes[i], Operands(p.nodes[i], f)),
     content  |-> [k \in DOMAIN p.outputs |-> f[p.outputs[k]]]]

(***************************************************************************)
(* Submission.  Preflight takes materialised tensors only.                 *)
(***************************************************************************)
Preflight(d) == ~d.view /\ d.offset = 0 /\ Contiguous(d)

InitGpu ==
    /\ Init
    /\ phase = "idle" /\ program = [nodes |-> <<>>, outputs |-> <<>>] /\ inputs = <<>>
    /\ node = 0 /\ part = 0
    /\ values = <<>> /\ uploaded = <<>> /\ slots = <<>> /\ errorBuffer = NoBuffer
    /\ staging = <<>> /\ outputBytes = <<>> /\ errorHost = FALSE
    /\ counted = FALSE /\ failure = "none" /\ completed = NoContent
    /\ memory = <<>> /\ stream = <<>> /\ eventDone = FALSE /\ broken = FALSE
    /\ expected = [overflow |-> FALSE, content |-> <<>>]

InputObjects == {inputs[i].object : i \in DOMAIN inputs}

\* The reservations of the inputs are taken before the backend is asked to submit.
SubmitGpu(p, chosen) ==
    /\ phase = "idle" /\ Len(chosen) = Arity(p)
    /\ \A i \in DOMAIN chosen : Valid(chosen[i]) /\ Preflight(tensor[chosen[i]])
    /\ phase' = "submitting" /\ program' = p /\ node' = 1
    /\ inputs' = [i \in DOMAIN chosen |-> tensor[chosen[i]]]
    /\ reserved' = [o \in Object |-> IF \E i \in DOMAIN chosen : tensor[chosen[i]].object = o
                                     THEN reserved[o] \cup {"read"} ELSE reserved[o]]
    /\ expected' = Outcome(p, [i \in DOMAIN chosen |-> LogicalValues(tensor[chosen[i]])])
    /\ UNCHANGED <<storageVars, part, values, uploaded, slots, errorBuffer, staging, counted,
                   failure, completed, deviceState>>

\* f[x] = y, of a map.
Assigned(f, x, y) == [z \in DOMAIN f \cup {x} |-> IF z = x THEN y ELSE f[z]]

\* A new allocation, while the device has memory.
Fresh1 == CHOOSE b \in Buffer : b \notin Live
Allocate1 == Buffer \ Live # {} /\ memory' = Assigned(memory, Fresh1, NoContent)

\* A transfer or a kernel; one without elements is skipped, and not counted.
Enqueue(size, command) ==
    IF size = 0 THEN UNCHANGED <<stream, counted>>
    ELSE stream' = Append(stream, command) /\ counted' = TRUE

\* The walk moves on: to the next command of a node, or to the next node.
NextPart == part' = part + 1 /\ node' = node
NextNode == part' = 0 /\ node' = node + 1

Walking == phase = "submitting" /\ ~broken /\ node \in DOMAIN program.nodes

AtNode(ops) == Walking /\ program.nodes[node].op \in ops

Define(b, size) ==
    values' = Assigned(values, node, [buffer |-> b, size |-> size, scalar |-> NoContent])

walkUnchanged == <<storageVars, reserved, phase, program, inputs, failure, completed,
                   eventDone, broken, outputBytes, expected>>

UploadKey(i) == inputs[i].object

InputSize == ElementCount(inputs[node].shape)

\* A tensor is uploaded once for each storage, through a host copy.
UploadInput ==
    /\ AtNode({"input"}) /\ UploadKey(node) \notin DOMAIN uploaded
    /\ Allocate1 /\ Define(Fresh1, InputSize)
    /\ uploaded' = Assigned(uploaded, UploadKey(node), [buffer |-> Fresh1, size |-> InputSize])
    /\ staging' = Append(staging, LogicalValues(inputs[node]))
    /\ Enqueue(InputSize, [kind |-> "upload", to |-> Fresh1, staged |-> Len(staging) + 1])
    /\ NextNode
    /\ UNCHANGED <<walkUnchanged, slots, errorBuffer, errorHost>>

ShareInput ==
    /\ AtNode({"input"}) /\ UploadKey(node) \in DOMAIN uploaded
    /\ uploaded[UploadKey(node)].size = InputSize
    /\ Define(uploaded[UploadKey(node)].buffer, InputSize) /\ NextNode
    /\ UNCHANGED <<walkUnchanged, uploaded, slots, errorBuffer, staging, counted, memory, stream,
                   errorHost>>

\* The bytes of a raw kernel's request are sent as they are, buffer by buffer.
UploadBytes ==
    /\ AtNode({"bytes"})
    /\ Allocate1 /\ Define(Fresh1, InputSize)
    /\ staging' = Append(staging, LogicalValues(inputs[node]))
    /\ Enqueue(InputSize, [kind |-> "upload", to |-> Fresh1, staged |-> Len(staging) + 1])
    /\ NextNode
    /\ UNCHANGED <<walkUnchanged, uploaded, slots, errorBuffer, errorHost>>

\* What the walk has defined for an operand.
Dep(k) == values[program.nodes[node].deps[k]]

\* The operand is there, and it is a tensor on the device; the walk fails otherwise.
Defined(k) == k \in DOMAIN program.nodes[node].deps /\ program.nodes[node].deps[k] \in DOMAIN values
OnDevice(k) == Defined(k) /\ Dep(k).buffer # NoBuffer

OperandsOnDevice == \A k \in DOMAIN program.nodes[node].deps : OnDevice(k)

\* Host scalars, and aliases of a value.
DefineScalar ==
    /\ AtNode({"integer"}) /\ NextNode
    /\ values' = Assigned(values, node, [buffer |-> NoBuffer, size |-> 1,
                                         scalar |-> program.nodes[node].content])
    /\ UNCHANGED <<walkUnchanged, uploaded, slots, errorBuffer, staging, counted, memory, stream,
                   errorHost>>

DefineAlias ==
    /\ AtNode({"alias"}) /\ Defined(1) /\ values' = Assigned(values, node, Dep(1)) /\ NextNode
    /\ UNCHANGED <<walkUnchanged, uploaded, slots, errorBuffer, staging, counted, memory, stream,
                   errorHost>>

\* An output of a raw kernel: allocated, and written by the kernel.  It has the size of an input
\* buffer, where a request names the size of each.
AllocateOutput ==
    /\ AtNode({"output"}) /\ OnDevice(1)
    /\ Allocate1 /\ Define(Fresh1, Dep(1).size) /\ NextNode
    /\ UNCHANGED <<walkUnchanged, uploaded, slots, errorBuffer, staging, counted, stream, errorHost>>

\* The buffer of a node's planned slot, which every value in the slot must fit; what has no
\* bytes has an allocation of its own.
PlannedAllocation(b, size) ==
    LET slot == program.nodes[node].slot IN
    \/ /\ size # 0 /\ slot \in DOMAIN slots
       /\ slots[slot] = [buffer |-> b, size |-> size]
       /\ UNCHANGED <<memory, slots>>
    \/ /\ size # 0 => slot # 0 /\ slot \notin DOMAIN slots
       /\ b = Fresh1 /\ Allocate1
       /\ slots' = IF size = 0 THEN slots
                   ELSE Assigned(slots, slot, [buffer |-> b, size |-> size])

DepBuffers(n) == [k \in DOMAIN n.deps |-> values[n.deps[k]].buffer]

Literal ==
    LET n == program.nodes[node] size == Len(n.content) IN
    /\ AtNode({"literal"})
    /\ \E b \in Buffer :
        /\ PlannedAllocation(b, size) /\ Define(b, size)
        /\ Enqueue(size, [kind |-> "upload", to |-> b, staged |-> Len(staging) + 1])
    /\ staging' = Append(staging, n.content)
    /\ NextNode
    /\ UNCHANGED <<walkUnchanged, uploaded, errorBuffer, errorHost>>

NeedsErrorBuffer == program.nodes[node].traps /\ Dep(1).size # 0 /\ errorBuffer = NoBuffer

\* The error word is cleared on the device before the first kernel that may trap.
ClearError ==
    /\ AtNode({"group"}) /\ OnDevice(1) /\ NeedsErrorBuffer
    /\ Allocate1 /\ errorBuffer' = Fresh1 /\ errorHost' = FALSE
    /\ Enqueue(1, [kind |-> "clear", to |-> Fresh1])
    /\ UNCHANGED <<walkUnchanged, node, part, values, uploaded, slots, staging>>

Kernel(to, n) == [kind |-> "kernel", to |-> to, from |-> DepBuffers(n), n |-> n, error |-> errorBuffer]

SameSize(n) == \A k \in DOMAIN n.deps : Dep(k).size = Dep(1).size

Launch ==
    LET n == program.nodes[node] size == Dep(1).size IN
    /\ AtNode({"group", "copy"}) /\ OnDevice(1) /\ OperandsOnDevice /\ SameSize(n)
    /\ n.op = "group" => ~NeedsErrorBuffer
    /\ \E b \in Buffer :
        PlannedAllocation(b, size) /\ Define(b, size) /\ Enqueue(size, Kernel({b}, n))
    /\ NextNode
    /\ UNCHANGED <<walkUnchanged, uploaded, errorBuffer, errorHost, staging>>

\* The host checks the index; the element has an allocation of its own.
OutOfBounds == AtNode({"index"}) /\ OnDevice(1) /\ program.nodes[node].index > Dep(1).size

Index ==
    /\ AtNode({"index"}) /\ OnDevice(1) /\ ~OutOfBounds
    /\ Allocate1 /\ Define(Fresh1, 1)
    /\ Enqueue(1, Kernel({Fresh1}, program.nodes[node]))
    /\ NextNode
    /\ UNCHANGED <<walkUnchanged, uploaded, slots, errorBuffer, errorHost, staging>>

\* A literal of device scalars is copied together, one element at a time.
Stack ==
    LET n == program.nodes[node] size == Len(n.deps) IN
    /\ AtNode({"stack"}) /\ OnDevice(part + 1) /\ Dep(part + 1).size = 1
    /\ \E b \in Buffer :
        /\ IF part = 0 THEN PlannedAllocation(b, size) /\ Define(b, size)
           ELSE b = values[node].buffer /\ UNCHANGED <<memory, slots, values>>
        /\ Enqueue(1, [kind |-> "element", to |-> b, from |-> Dep(part + 1).buffer,
                       place |-> part + 1, size |-> size])
    /\ IF part + 1 = size THEN NextNode ELSE NextPart
    /\ UNCHANGED <<walkUnchanged, uploaded, errorBuffer, errorHost, staging>>

OutputBuffer(k) == values[program.outputs[k]].buffer

OutputsDefined == \A k \in DOMAIN program.outputs : program.outputs[k] \in DOMAIN values

LaunchKernel ==
    /\ AtNode({"kernel"}) /\ OnDevice(1) /\ OperandsOnDevice
    /\ OutputsDefined /\ \A k \in DOMAIN program.outputs : OutputBuffer(k) # NoBuffer
    /\ Enqueue(Dep(1).size, Kernel({OutputBuffer(k) : k \in DOMAIN program.outputs},
                                   program.nodes[node]))
    /\ NextNode
    /\ UNCHANGED <<walkUnchanged, values, uploaded, slots, errorBuffer, errorHost, staging, memory>>

(***************************************************************************)
(* The end of the walk: the outputs and the error word are downloaded, and *)
(* the completion event is recorded behind them.                           *)
(***************************************************************************)
OutputDownloads ==
    [k \in DOMAIN program.outputs |-> [kind |-> "download", from |-> OutputBuffer(k), place |-> k]]

ErrorDownload == [kind |-> "error", from |-> errorBuffer]

\* Mutant of Downloads: the event is recorded before the error word is downloaded.
DownloadsLate == OutputDownloads \o <<[kind |-> "event"], ErrorDownload>>

Downloads == OutputDownloads \o <<ErrorDownload, [kind |-> "event"]>>

\* A host scalar and an error word that was never needed are not downloaded.
DownloadSize(c) ==
    IF c.kind = "event" THEN 1
    ELSE IF c.from = NoBuffer THEN 0
    ELSE IF c.kind = "download" THEN values[program.outputs[c.place]].size
    ELSE 1

Walked == phase = "submitting" /\ node = Len(program.nodes) + 1

Download ==
    /\ Walked /\ ~broken /\ OutputsDefined /\ part < Len(Downloads)
    /\ Enqueue(DownloadSize(Downloads[part + 1]), Downloads[part + 1]) /\ NextPart
    /\ UNCHANGED <<storageVars, reserved, phase, program, inputs, values, uploaded, slots,
                   errorBuffer, staging, failure, completed, memory, eventDone, broken,
                   outputBytes, errorHost, expected>>

Submitted ==
    /\ Walked /\ part = Len(Downloads)
    /\ phase' = "pending"
    /\ UNCHANGED <<storageVars, reserved, program, inputs, node, part, values, uploaded, slots,
                   errorBuffer, staging, counted, failure, completed, deviceState,
                   expected>>

\* A driver call fails, or an index is out of bounds; the runtime calls abort.
FailSubmit ==
    /\ phase = "submitting" /\ phase' = "aborting"
    /\ ~(Walked /\ part = Len(Downloads))
    /\ failure' = IF OutOfBounds THEN "bounds" ELSE "driver"
    /\ UNCHANGED <<storageVars, reserved, program, inputs, node, part, values, uploaded, slots,
                   errorBuffer, staging, counted, completed, deviceState, expected>>

(***************************************************************************)
(* Polling, waiting and aborting.                                          *)
(***************************************************************************)
\* Mutant of ReleaseDeviceStorage: the error word's allocation is forgotten.
ReleaseButError ==
    /\ memory' = [b \in Live \cap {errorBuffer} |-> memory[b]]
    /\ staging' = <<>> /\ values' = <<>> /\ uploaded' = <<>> /\ slots' = <<>>
    /\ errorBuffer' = NoBuffer

ReleaseDeviceStorage ==
    /\ memory' = <<>>
    /\ staging' = <<>> /\ values' = <<>> /\ uploaded' = <<>> /\ slots' = <<>>
    /\ errorBuffer' = NoBuffer

ReleaseInputs ==
    reserved' = [o \in Object |-> IF o \in InputObjects THEN reserved[o] \ {"read"} ELSE reserved[o]]

\* Mutant of Drained: an abort need not wait for what was enqueued.
DrainedAlways == TRUE

\* cuStreamSynchronize returned, or was not called because nothing was counted.
Drained == broken \/ ~counted \/ stream = <<>>

Abort ==
    /\ phase = "aborting" /\ Drained
    /\ phase' = "done"
    /\ ReleaseDeviceStorage /\ ReleaseInputs
    /\ UNCHANGED <<storageVars, program, inputs, node, part, counted, failure, completed, stream,
                   eventDone, broken, outputBytes, errorHost, expected>>

Trapped == errorBuffer # NoBuffer /\ errorHost

\* cuEventQuery may fail; the error word is read only behind the event.
QueryAnswers ==
    {"driver"} \cup
    IF broken THEN {} ELSE {IF ~eventDone THEN "pending" ELSE IF Trapped THEN "overflow" ELSE "completed"}

Poll ==
    /\ phase = "pending" /\ \E answer \in QueryAnswers :
            /\ phase' = IF answer = "pending" THEN "pending" ELSE "polled"
            /\ failure' = IF answer \in {"driver", "overflow"} THEN answer ELSE failure
    /\ UNCHANGED <<storageVars, reserved, program, inputs, node, part, values, uploaded, slots,
                   errorBuffer, staging, counted, completed, deviceState, expected>>

\* Mutant of Finalized: the failure that a poll found is forgotten.
FinalizedFresh == IF Trapped THEN "overflow" ELSE "none"

\* The failure that stands once the event is done.
Finalized ==
    IF failure # "none" THEN failure
    ELSE IF Trapped THEN "overflow" ELSE "none"

\* What finalizeValue publishes: the scalar of the host, or the bytes downloaded.
Published(k) ==
    LET v == values[program.outputs[k]] IN
    IF v.buffer = NoBuffer THEN v.scalar ELSE IF v.size = 0 THEN NoContent ELSE outputBytes[k]

\* Observation, or the drain of a dropped handle: wait, publish, release.
Wait ==
    /\ phase \in {"pending", "polled"} /\ phase' = "done"
    /\ \/ broken /\ failure' = "driver" /\ completed' = completed
       \/ /\ ~broken /\ eventDone
          /\ failure' = Finalized
          /\ completed' =
                IF failure' # "none" THEN completed
                ELSE [k \in DOMAIN program.outputs |-> Published(k)]
    /\ ReleaseDeviceStorage /\ ReleaseInputs
    /\ UNCHANGED <<storageVars, program, inputs, node, part, counted, stream, eventDone, broken,
                   outputBytes, errorHost, expected>>

(***************************************************************************)
(* The device.  It executes the stream in order, or breaks for good and    *)
(* drops it: every later driver call then fails.                           *)
(***************************************************************************)
Content(m, b) == IF b \in DOMAIN m THEN m[b] ELSE NoContent

\* The memory after a command, from that before it and the host's copies.
Written(c, m, copies) ==
    CASE c.kind = "upload"  -> [m EXCEPT ![c.to] = copies[c.staged]]
      [] c.kind = "clear"   -> [m EXCEPT ![c.to] = <<FALSE>>]
      [] c.kind = "element" ->
            [m EXCEPT ![c.to] = [k \in 1..c.size |-> IF k = c.place THEN At(Content(m, c.from), 1)
                                                     ELSE At(m[c.to], k)]]
      [] c.kind = "kernel"  ->
            LET contents == [k \in DOMAIN c.from |-> Content(m, c.from[k])] IN
            [b \in DOMAIN m |->
                IF b \in c.to THEN Apply(c.n, contents)
                ELSE IF b = c.error /\ Overflows(c.n, contents) THEN <<TRUE>> ELSE m[b]]
      [] OTHER -> m

\* What a command writes to the host.
Downloaded(c, m, bytes) ==
    IF c.kind = "download" THEN Assigned(bytes, c.place, Content(m, c.from)) ELSE bytes

ErrorRead(c, m, word) == IF c.kind = "error" THEN Content(m, c.from) = <<TRUE>> ELSE word

DeviceStep ==
    /\ stream # <<>>
    /\ LET c == Head(stream) IN
        /\ memory' = Written(c, memory, staging)
        /\ outputBytes' = Downloaded(c, memory, outputBytes)
        /\ errorHost' = ErrorRead(c, memory, errorHost)
        /\ eventDone' = (eventDone \/ c.kind = "event")
    /\ stream' = Tail(stream)
    /\ UNCHANGED <<storageVars, reserved, hostState, broken>>

BreakDevice ==
    /\ phase \notin {"idle", "done"} /\ ~broken /\ broken' = TRUE /\ stream' = <<>>
    /\ UNCHANGED <<storageVars, reserved, hostState, memory, eventDone, outputBytes, errorHost>>

\* The host thread is in one call at a time.
HostStep == phase \in {"idle", "pending", "polled", "done"} /\ Next /\ UNCHANGED <<reserved, gpuVars>>

Walk ==
    \/ UploadInput \/ ShareInput \/ UploadBytes \/ DefineScalar \/ DefineAlias \/ AllocateOutput
    \/ Literal \/ ClearError \/ Launch \/ Index \/ Stack \/ LaunchKernel \/ Download \/ Submitted

NextGpu ==
    \/ HostStep
    \/ \E p \in Programs : \E chosen \in [1..Arity(p) -> Wrapper] : SubmitGpu(p, chosen)
    \/ Walk \/ FailSubmit \/ Abort \/ Poll \/ Wait
    \/ DeviceStep \/ BreakDevice

SpecGpu == InitGpu /\ [][NextGpu]_allVars

-----------------------------------------------------------------------------
BuffersOf(c) ==
    CASE c.kind \in {"upload", "clear"}   -> {c.to}
      [] c.kind = "element"              -> {c.to, c.from}
      [] c.kind = "kernel"               -> c.to \cup Range(c.from)
                                              \cup (IF c.n.traps THEN {c.error} ELSE {})
      [] c.kind \in {"download", "error"} -> {c.from}
      [] OTHER                           -> {}

\* Whatever fails and whenever, no command the device may still execute refers to device
\* memory that was freed, or to a host copy that is gone; and the inputs of work that
\* is not drained are still reserved.
DeviceMemoryAlive ==
    \A i \in DOMAIN stream :
        /\ BuffersOf(stream[i]) \subseteq Live
        /\ stream[i].kind = "upload" => stream[i].staged \in DOMAIN staging
        /\ \A o \in InputObjects : "read" \in reserved[o]

\* Success publishes what the program computes from the inputs as they were submitted,
\* whatever the host does meanwhile; an overflow is told when there is one, unless the
\* device fails.
PublishedIsComputed ==
    phase = "done" =>
        CASE failure = "none"     -> ~expected.overflow /\ completed = expected.content
          [] failure = "overflow" -> expected.overflow
          [] OTHER                -> TRUE

\* A failure that any of poll, wait and submit found stands: no later call turns it into
\* a success, and no value is completed behind it.
ResultIsFinal ==
    [][/\ failure # "none" => failure' # "none" /\ completed' = completed
       /\ phase = "done" => phase' = "done" /\ failure' = failure]_allVars

\* However the execution ended, nothing of it is left: no device memory, no staging, no
\* reservation, no work.
DoneHoldsNothing ==
    phase = "done" =>
        /\ stream = <<>> /\ memory = <<>> /\ staging = <<>>
        /\ \A o \in Object : reserved[o] = {}
=============================================================================
