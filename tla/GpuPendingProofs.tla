--------------------------- MODULE GpuPendingProofs ---------------------------
(***************************************************************************)
(* Proofs about GpuPending, for every set of programs and of host tensors. *)
(*                                                                         *)
(* The walk only adds device memory, so what a command refers to when it   *)
(* is enqueued stays until the release.  A release happens when the stream *)
(* is empty: an abort synchronises with it unless nothing was counted as   *)
(* submitted, and whatever is in the stream was counted; a wait is behind  *)
(* the completion event, and the event is the last command of the walk.    *)
(***************************************************************************)
EXTENDS GpuPending, StorageProofs, SequenceTheorems

Sequence(s) == \E S : s \in Seq(S)

Active == {"submitting", "aborting", "pending", "polled"}

\* The host handles that refer to device memory.
BuffersHeld ==
    /\ \A i \in DOMAIN values : values[i].buffer \in Live \cup {NoBuffer}
    /\ \A o \in DOMAIN uploaded : uploaded[o].buffer \in Live
    /\ \A s \in DOMAIN slots : slots[s].buffer \in Live
    /\ errorBuffer \in Live \cup {NoBuffer}
    /\ phase = "submitting" /\ part # 0 /\ node \in DOMAIN program.nodes =>
            node \in DOMAIN values /\ values[node].buffer \in Live

\* What a command refers to.
RefersToHeld(c) == BuffersOf(c) \subseteq Live /\ (c.kind = "upload" => c.staged \in DOMAIN staging)

CommandsHeld == \A i \in DOMAIN stream : RefersToHeld(stream[i])

\* Whatever is in the stream was counted, and the device has not dropped it.
StreamCounted ==
    /\ Sequence(stream) /\ Sequence(staging) /\ part \in Nat
    /\ stream # <<>> => counted /\ ~broken /\ phase \in Active

Recorded == eventDone \/ \E i \in DOMAIN stream : stream[i].kind = "event"

\* The event is the last command: nothing is enqueued behind it.
EventLast ==
    /\ \A i \in DOMAIN stream : stream[i].kind = "event" => i = Len(stream)
    /\ eventDone => stream = <<>>
    /\ phase = "submitting" /\ Recorded => Walked /\ part = Len(program.outputs) + 2

\* The inputs are reserved from the submission to the end, and nothing else is.
InputsReserved ==
    /\ InputObjects \subseteq Object
    /\ reserved = [o \in Object |-> IF phase \in Active /\ o \in InputObjects THEN {"read"} ELSE {}]

Ends ==
    /\ phase \in Active \cup {"idle", "done"}
    /\ phase = "idle" => ~eventDone /\ part = 0
    /\ phase # "idle" => program \in Programs
    /\ phase = "done" => memory = <<>> /\ staging = <<>>

GpuInv ==
    BuffersHeld /\ CommandsHeld /\ StreamCounted /\ EventLast /\ InputsReserved /\ Ends

-----------------------------------------------------------------------------
\* Assigning to a map changes one entry and keeps the others.
LEMMA AssignedFacts ==
    ASSUME NEW f, NEW x, NEW y
    PROVE  /\ DOMAIN Assigned(f, x, y) = DOMAIN f \cup {x}
           /\ Assigned(f, x, y)[x] = y
           /\ \A z \in DOMAIN f : z # x => Assigned(f, x, y)[z] = f[z]
  BY DEF Assigned

\* A sequence with one more entry.
LEMMA AppendFacts ==
    ASSUME NEW s, Sequence(s), NEW x
    PROVE  /\ Sequence(Append(s, x)) /\ Append(s, x) # <<>>
           /\ Len(s) \in Nat /\ DOMAIN s = 1..Len(s)
           /\ Len(Append(s, x)) = Len(s) + 1 /\ DOMAIN Append(s, x) = 1..(Len(s) + 1)
           /\ \A i \in DOMAIN s : Append(s, x)[i] = s[i]
           /\ Append(s, x)[Len(s) + 1] = x
<1>1. PICK S : s \in Seq(S)
  BY DEF Sequence
<1>2. s \in Seq(S \cup {x})
  BY <1>1
<1>3. Len(s) \in Nat /\ DOMAIN s = 1..Len(s)
  BY <1>2, LenProperties
<1>4. /\ Append(s, x) \in Seq(S \cup {x}) /\ Append(s, x) # <<>>
      /\ Len(Append(s, x)) = Len(s) + 1
      /\ \A i \in 1..Len(s) : Append(s, x)[i] = s[i]
      /\ Append(s, x)[Len(s) + 1] = x
  BY <1>2, AppendProperties
<1>5. DOMAIN Append(s, x) = 1..(Len(s) + 1)
  BY <1>4, LenProperties
<1> QED
  BY <1>3, <1>4, <1>5 DEF Sequence

\* A sequence without its first entry.
LEMMA TailFacts ==
    ASSUME NEW s, Sequence(s), s # <<>>
    PROVE  /\ Sequence(Tail(s)) /\ Len(Tail(s)) = Len(s) - 1 /\ Len(s) \in Nat \ {0}
           /\ 1 \in DOMAIN s /\ Head(s) = s[1]
           /\ \A i \in DOMAIN Tail(s) : i + 1 \in DOMAIN s /\ Tail(s)[i] = s[i + 1]
           /\ Len(s) = 1 => Tail(s) = <<>>
<1>1. PICK S : s \in Seq(S)
  BY DEF Sequence
<1>2. Len(s) \in Nat \ {0} /\ DOMAIN s = 1..Len(s)
  BY <1>1, EmptySeq, LenProperties
<1>3. /\ Tail(s) \in Seq(S) /\ Len(Tail(s)) = Len(s) - 1
      /\ \A i \in 1..Len(Tail(s)) : Tail(s)[i] = s[i + 1]
  BY <1>1, HeadTailProperties
<1>4. DOMAIN Tail(s) = 1..Len(Tail(s))
  BY <1>3, LenProperties
<1>5. Len(s) = 1 => Tail(s) = <<>>
  <2>1. Tail(s) # <<>> => Len(Tail(s)) # 0
    BY <1>3, EmptySeq
  <2> QED
    BY <1>3, <2>1
<1>6. 1 \in DOMAIN s /\ Head(s) = s[1] /\ \A i \in 1..(Len(s) - 1) : i + 1 \in 1..Len(s)
  BY <1>1, <1>2
<1> QED
  BY <1>2, <1>3, <1>4, <1>5, <1>6 DEF Sequence

\* The nodes of a program are numbered; past the last there is none.
LEMMA WalkedIsPast ==
    ASSUME Ends, phase = "submitting"
    PROVE  Walked => node \notin DOMAIN program.nodes
<1>1. program.nodes \in Seq(Range(program.nodes))
  BY ProgramsAssumption DEF Ends, Active
<1>2. Len(program.nodes) \in Nat /\ DOMAIN program.nodes = 1..Len(program.nodes)
  BY <1>1, LenProperties
<1> QED
  BY <1>2 DEF Walked

\* Before the first call.
LEMMA GpuInit == InitGpu => GpuInv
<1> SUFFICES ASSUME InitGpu PROVE GpuInv
  OBVIOUS
<1>1. /\ phase = "idle" /\ part = 0 /\ values = <<>> /\ uploaded = <<>> /\ slots = <<>>
      /\ errorBuffer = NoBuffer /\ staging = <<>> /\ stream = <<>> /\ eventDone = FALSE
      /\ reserved = [o \in Object |-> {}]
  BY DEF InitGpu, Init
<1>2. BuffersHeld /\ CommandsHeld
  BY <1>1 DEF BuffersHeld, CommandsHeld
<1>3. StreamCounted
  BY <1>1, EmptySeq DEF StreamCounted, Sequence
<1>4. EventLast /\ Ends
  BY <1>1 DEF EventLast, Ends, Active
<1>5. InputsReserved
  BY <1>1 DEF InitGpu, InputsReserved, InputObjects, Active
<1> QED
  BY <1>2, <1>3, <1>4, <1>5 DEF GpuInv

-----------------------------------------------------------------------------
\* A step of the walk that enqueues a command, or none when there is nothing to transfer:
\* memory and staging only grow, and no event was recorded before.
LEMMA WalkKeeps ==
    ASSUME GpuInv, phase = "submitting", ~broken, ~Recorded,
           NEW size, NEW c, Enqueue(size, c),
           UNCHANGED <<phase, program, inputs, reserved, eventDone, broken>>,
           Live \subseteq Live', Sequence(staging'), DOMAIN staging \subseteq DOMAIN staging',
           part' \in Nat,
           errorBuffer' = errorBuffer \/ errorBuffer' \in Live',
           size # 0 => RefersToHeld(c)',
           size # 0 /\ c.kind = "event" => (Walked /\ part = Len(program.outputs) + 2)'
    PROVE  CommandsHeld' /\ StreamCounted' /\ EventLast' /\ InputsReserved' /\ Ends'
<1>1. CommandsHeld /\ StreamCounted /\ EventLast /\ InputsReserved /\ Ends
  BY DEF GpuInv
<1>2. InputsReserved' /\ Ends'
  BY <1>1 DEF InputsReserved, InputObjects, Ends, Active
<1>3. ASSUME NEW d, RefersToHeld(d) PROVE RefersToHeld(d)'
  BY <1>3 DEF RefersToHeld
<1>4. CASE UNCHANGED <<stream, counted>>
  <2>1. CommandsHeld'
    BY <1>1, <1>3, <1>4 DEF CommandsHeld
  <2>2. StreamCounted'
    BY <1>1, <1>4 DEF StreamCounted
  <2>3. ~Recorded' /\ EventLast'
    BY <1>1, <1>4 DEF Recorded, EventLast
  <2> QED
    BY <1>2, <2>1, <2>2, <2>3
<1>5. CASE size # 0 /\ stream' = Append(stream, c) /\ counted' = TRUE
  <2>1. /\ Sequence(stream') /\ Len(stream) \in Nat /\ DOMAIN stream = 1..Len(stream)
        /\ Len(stream') = Len(stream) + 1 /\ DOMAIN stream' = 1..(Len(stream) + 1)
        /\ \A i \in DOMAIN stream : stream'[i] = stream[i]
        /\ stream'[Len(stream) + 1] = c
    BY <1>1, <1>5, AppendFacts DEF StreamCounted
  <2>2. \A i \in DOMAIN stream' : i \in DOMAIN stream \/ i = Len(stream) + 1
    BY <2>1
  <2>3. CommandsHeld'
    BY <1>1, <1>3, <1>5, <2>1, <2>2 DEF CommandsHeld
  <2>4. StreamCounted'
    BY <1>1, <1>5, <2>1 DEF StreamCounted, Active
  <2>5. \A i \in DOMAIN stream' : stream'[i].kind = "event" => i = Len(stream) + 1 /\ c.kind = "event"
    BY <2>1, <2>2 DEF Recorded
  <2>6. EventLast'
    BY <1>5, <2>1, <2>5 DEF Recorded, EventLast
  <2> QED
    BY <1>2, <2>3, <2>4, <2>6
<1> QED
  BY <1>4, <1>5 DEF Enqueue

\* While a node is walked no event was recorded.
LEMMA AtNodeUnrecorded ==
    ASSUME GpuInv, NEW ops, AtNode(ops)
    PROVE  /\ phase = "submitting" /\ ~broken /\ ~Recorded
           /\ node \in DOMAIN program.nodes
  BY WalkedIsPast DEF GpuInv, EventLast, AtNode, Walking

\* A new allocation adds to the memory that is live.
LEMMA AllocatedFacts ==
    ASSUME Allocate1
    PROVE  /\ Live' = Live \cup {Fresh1} /\ Fresh1 \in Buffer /\ Fresh1 \notin Live
           /\ Fresh1 # NoBuffer
           /\ memory' = Assigned(memory, Fresh1, NoContent)
<1>1. \E b \in Buffer : b \notin Live
  BY DEF Allocate1
<1>2. Fresh1 \in Buffer /\ Fresh1 \notin Live
  BY <1>1 DEF Fresh1
<1>3. Fresh1 # NoBuffer
  BY <1>2 DEF Buffer, NoBuffer
<1> QED
  BY <1>2, <1>3, AssignedFacts DEF Allocate1, Live

\* The handles after an assignment to the walk's values: the new one is live, or none.
LEMMA HandlesKept ==
    ASSUME BuffersHeld, NEW v, values' = Assigned(values, node, v),
           Live \subseteq Live', v.buffer \in Live' \cup {NoBuffer},
           \A o \in DOMAIN uploaded' : uploaded'[o].buffer \in Live',
           \A s \in DOMAIN slots' : slots'[s].buffer \in Live',
           errorBuffer' \in Live' \cup {NoBuffer},
           part' # 0 => node' = node /\ v.buffer \in Live'
    PROVE  BuffersHeld'
<1>1. DOMAIN values' = DOMAIN values \cup {node} /\ values'[node] = v
      /\ \A i \in DOMAIN values : i # node => values'[i] = values[i]
  BY DEF Assigned
<1>2. \A i \in DOMAIN values' : values'[i].buffer \in Live' \cup {NoBuffer}
  BY <1>1 DEF BuffersHeld
<1> QED
  BY <1>1, <1>2 DEF BuffersHeld

-----------------------------------------------------------------------------
\* UploadInput and UploadBytes.
LEMMA UploadKeeps ==
    ASSUME GpuInv, UploadInput \/ UploadBytes
    PROVE  GpuInv'
<1>1. /\ phase = "submitting" /\ ~broken /\ ~Recorded
      /\ UNCHANGED <<phase, program, inputs, reserved, eventDone, broken, slots, errorBuffer>>
      /\ Allocate1 /\ Define(Fresh1, InputSize)
      /\ staging' = Append(staging, LogicalValues(inputs[node]))
      /\ Enqueue(InputSize, [kind |-> "upload", to |-> Fresh1, staged |-> Len(staging) + 1])
      /\ part' = 0
      /\ \/ uploaded' = uploaded
         \/ uploaded' = Assigned(uploaded, UploadKey(node), [buffer |-> Fresh1, size |-> InputSize])
  BY AtNodeUnrecorded DEF UploadInput, UploadBytes, walkUnchanged, NextNode
<1>2. Live' = Live \cup {Fresh1}
  BY <1>1, AllocatedFacts
<1>3. /\ Sequence(staging') /\ DOMAIN staging \subseteq DOMAIN staging'
      /\ Len(staging) + 1 \in DOMAIN staging'
  BY <1>1, AppendFacts DEF GpuInv, StreamCounted
<1>4. PICK c : c = [kind |-> "upload", to |-> Fresh1, staged |-> Len(staging) + 1]
  OBVIOUS
<1>5. RefersToHeld(c)'
  BY <1>2, <1>3, <1>4 DEF RefersToHeld, BuffersOf
<1>6. CommandsHeld' /\ StreamCounted' /\ EventLast' /\ InputsReserved' /\ Ends'
  BY <1>1, <1>2, <1>3, <1>4, <1>5, WalkKeeps
<1>7. BuffersHeld'
  <2>1. \A o \in DOMAIN uploaded' : uploaded'[o].buffer \in Live'
    BY <1>1, <1>2 DEF GpuInv, BuffersHeld, Assigned
  <2> QED
    BY <1>1, <1>2, <2>1, HandlesKept DEF GpuInv, BuffersHeld, Define
<1> QED
  BY <1>6, <1>7 DEF GpuInv

\* Steps that enqueue nothing and give a node a buffer that is held, or none.
LEMMA QuietKeeps ==
    ASSUME GpuInv, NEW ops, AtNode(ops),
           UNCHANGED <<phase, program, inputs, reserved, eventDone, broken, uploaded, slots,
                       errorBuffer, staging, counted, stream>>,
           Live \subseteq Live', part' = 0,
           NEW v, values' = Assigned(values, node, v), v.buffer \in Live' \cup {NoBuffer}
    PROVE  GpuInv'
<1>1. /\ phase = "submitting" /\ ~broken /\ ~Recorded
  BY AtNodeUnrecorded
<1>2. Enqueue(0, [kind |-> "none"])
  BY DEF Enqueue
<1>3. Sequence(staging') /\ DOMAIN staging \subseteq DOMAIN staging' /\ part' \in Nat
  BY DEF GpuInv, StreamCounted
<1>4. CommandsHeld' /\ StreamCounted' /\ EventLast' /\ InputsReserved' /\ Ends'
  BY <1>1, <1>2, <1>3, WalkKeeps
<1>5. BuffersHeld'
  BY HandlesKept DEF GpuInv, BuffersHeld
<1> QED
  BY <1>4, <1>5 DEF GpuInv

\* ShareInput, DefineScalar, DefineAlias, AllocateOutput.
LEMMA DefiningKeeps ==
    ASSUME GpuInv, ShareInput \/ DefineScalar \/ DefineAlias \/ AllocateOutput
    PROVE  GpuInv'
<1>1. CASE ShareInput
  <2>1. uploaded[UploadKey(node)].buffer \in Live
    BY <1>1 DEF ShareInput, GpuInv, BuffersHeld
  <2>2. PICK v : v = [buffer |-> uploaded[UploadKey(node)].buffer, size |-> InputSize,
                      scalar |-> NoContent]
    OBVIOUS
  <2>3. Live' = Live
    BY <1>1 DEF ShareInput, Live
  <2> QED
    BY <1>1, <2>1, <2>2, <2>3, QuietKeeps DEF ShareInput, walkUnchanged, Define, NextNode
<1>2. CASE DefineScalar
  <2>1. PICK v : v = [buffer |-> NoBuffer, size |-> 1, scalar |-> program.nodes[node].content]
    OBVIOUS
  <2>2. Live' = Live
    BY <1>2 DEF DefineScalar, Live
  <2> QED
    BY <1>2, <2>1, <2>2, QuietKeeps DEF DefineScalar, walkUnchanged, NextNode
<1>3. CASE DefineAlias
  <2>1. PICK v : v = Dep(1)
    OBVIOUS
  <2>2. v.buffer \in Live \cup {NoBuffer} /\ Live' = Live
    BY <1>3, <2>1 DEF DefineAlias, Defined, Dep, GpuInv, BuffersHeld, Live
  <2> QED
    BY <1>3, <2>1, <2>2, QuietKeeps DEF DefineAlias, walkUnchanged, NextNode
<1>4. CASE AllocateOutput
  <2>1. PICK v : v = [buffer |-> Fresh1, size |-> Dep(1).size, scalar |-> NoContent]
    OBVIOUS
  <2>2. Live' = Live \cup {Fresh1}
    BY <1>4, AllocatedFacts DEF AllocateOutput
  <2> QED
    BY <1>4, <2>1, <2>2, QuietKeeps DEF AllocateOutput, walkUnchanged, Define, NextNode
<1> QED
  BY <1>1, <1>2, <1>3, <1>4

\* A planned slot is held once it has a buffer.
LEMMA SlotHeld ==
    ASSUME BuffersHeld, NEW b, NEW size, PlannedAllocation(b, size)
    PROVE  Live' = Live \cup {b} /\ \A s \in DOMAIN slots' : slots'[s].buffer \in Live'
<1>1. PICK slot, r : slot = program.nodes[node].slot /\ r = [buffer |-> b, size |-> size]
  OBVIOUS
<1>2. CASE slot \in DOMAIN slots /\ slots[slot] = r /\ UNCHANGED <<memory, slots>>
  <2>1. b \in Live
    BY <1>1, <1>2 DEF BuffersHeld
  <2> QED
    BY <1>2, <2>1 DEF BuffersHeld, Live
<1>3. CASE b = Fresh1 /\ Allocate1 /\ (slots' = slots \/ slots' = Assigned(slots, slot, r))
  <2>1. Live' = Live \cup {b}
    BY <1>3, AllocatedFacts
  <2> QED
    BY <1>1, <1>3, <2>1 DEF BuffersHeld, Assigned
<1> QED
  BY <1>1, <1>2, <1>3 DEF PlannedAllocation

\* A step of a node that writes the buffer planned for it, or the one it has.
LEMMA SlotStepKeeps ==
    ASSUME GpuInv, NEW ops, AtNode(ops), NEW b, NEW size, NEW c, Enqueue(size, c),
           UNCHANGED <<phase, program, inputs, reserved, eventDone, broken, uploaded, errorBuffer>>,
           Sequence(staging'), DOMAIN staging \subseteq DOMAIN staging', part' \in Nat,
           c.kind # "event", b \in Live' /\ size # 0 => RefersToHeld(c)',
           \/ /\ \E n : PlannedAllocation(b, n)
              /\ \E v : values' = Assigned(values, node, v) /\ v.buffer = b
           \/ /\ UNCHANGED <<memory, slots, values>>
              /\ node \in DOMAIN values /\ b = values[node].buffer /\ b \in Live,
           part' # 0 => node' = node
    PROVE  GpuInv'
<1>1. /\ phase = "submitting" /\ ~broken /\ ~Recorded
  BY AtNodeUnrecorded
<1>2. Live' = Live \cup {b} /\ \A s \in DOMAIN slots' : slots'[s].buffer \in Live'
  <2>1. CASE \E n : PlannedAllocation(b, n)
    BY <2>1, SlotHeld DEF GpuInv
  <2>2. CASE UNCHANGED <<memory, slots>> /\ b \in Live
    BY <2>2 DEF GpuInv, BuffersHeld, Live
  <2> QED
    BY <2>1, <2>2
<1>3. CommandsHeld' /\ StreamCounted' /\ EventLast' /\ InputsReserved' /\ Ends'
  BY <1>1, <1>2, WalkKeeps
<1>4. BuffersHeld'
  <2>1. ASSUME NEW v, values' = Assigned(values, node, v), v.buffer = b
        PROVE  BuffersHeld'
    BY <1>2, <2>1, HandlesKept DEF GpuInv, BuffersHeld
  <2>2. ASSUME UNCHANGED values, node \in DOMAIN values, b = values[node].buffer
        PROVE  BuffersHeld'
    BY <1>2, <2>2 DEF GpuInv, BuffersHeld
  <2> QED
    BY <2>1, <2>2
<1> QED
  BY <1>3, <1>4 DEF GpuInv

\* Literal.
LEMMA LiteralKeeps ==
    ASSUME GpuInv, Literal
    PROVE  GpuInv'
<1>1. PICK n, size : n = program.nodes[node] /\ size = Len(n.content)
  OBVIOUS
<1>2. PICK b \in Buffer :
        /\ PlannedAllocation(b, size) /\ Define(b, size)
        /\ Enqueue(size, [kind |-> "upload", to |-> b, staged |-> Len(staging) + 1])
  BY <1>1 DEF Literal
<1>3. /\ AtNode({"literal"}) /\ staging' = Append(staging, n.content) /\ part' = 0
      /\ UNCHANGED <<phase, program, inputs, reserved, eventDone, broken, uploaded, errorBuffer>>
  BY <1>1 DEF Literal, walkUnchanged, NextNode
<1>4. /\ Sequence(staging') /\ DOMAIN staging \subseteq DOMAIN staging'
      /\ Len(staging) + 1 \in DOMAIN staging'
  BY <1>3, AppendFacts DEF GpuInv, StreamCounted
<1>5. PICK c : c = [kind |-> "upload", to |-> b, staged |-> Len(staging) + 1]
  OBVIOUS
<1>6. c.kind # "event" /\ (b \in Live' => RefersToHeld(c)')
  BY <1>4, <1>5 DEF RefersToHeld, BuffersOf
<1>7. \E v : values' = Assigned(values, node, v) /\ v.buffer = b
  BY <1>2 DEF Define
<1>8. Enqueue(size, c) /\ part' \in Nat
  BY <1>2, <1>3, <1>5
<1> QED
  BY <1>2, <1>3, <1>4, <1>6, <1>7, <1>8, SlotStepKeeps

\* ClearError: the error word is live before a kernel may refer to it.
LEMMA ClearErrorKeeps ==
    ASSUME GpuInv, ClearError
    PROVE  GpuInv'
<1>1. /\ AtNode({"group"}) /\ Allocate1 /\ errorBuffer' = Fresh1
      /\ Enqueue(1, [kind |-> "clear", to |-> Fresh1])
      /\ UNCHANGED <<phase, program, inputs, reserved, eventDone, broken, node, part, values,
                     uploaded, slots, staging>>
  BY DEF ClearError, walkUnchanged
<1>2. Live' = Live \cup {Fresh1}
  BY <1>1, AllocatedFacts
<1>3. PICK c : c = [kind |-> "clear", to |-> Fresh1]
  OBVIOUS
<1>4. RefersToHeld(c)'
  BY <1>2, <1>3 DEF RefersToHeld, BuffersOf
<1>5. phase = "submitting" /\ ~broken /\ ~Recorded
  BY <1>1, AtNodeUnrecorded
<1>6. CommandsHeld' /\ StreamCounted' /\ EventLast' /\ InputsReserved' /\ Ends'
  BY <1>1, <1>2, <1>3, <1>4, <1>5, WalkKeeps DEF GpuInv, StreamCounted
<1>7. BuffersHeld'
  BY <1>1, <1>2 DEF GpuInv, BuffersHeld
<1> QED
  BY <1>6, <1>7 DEF GpuInv

\* The operands of a node are buffers that are held.
LEMMA OperandsHeld ==
    ASSUME BuffersHeld, OperandsOnDevice
    PROVE  Range(DepBuffers(program.nodes[node])) \subseteq Live
<1> SUFFICES ASSUME NEW k \in DOMAIN program.nodes[node].deps
             PROVE  values[program.nodes[node].deps[k]].buffer \in Live
  BY DEF Range, DepBuffers
<1> QED
  BY DEF OperandsOnDevice, OnDevice, Defined, Dep, BuffersHeld

\* What the kernel of a node refers to.
LEMMA KernelRefers ==
    ASSUME NEW to, NEW n
    PROVE  /\ Kernel(to, n).kind = "kernel"
           /\ BuffersOf(Kernel(to, n)) = to \cup Range(DepBuffers(n))
                                           \cup (IF n.traps THEN {errorBuffer} ELSE {})
  BY DEF Kernel, BuffersOf

\* A node that does not trap needs no error word; nor does one that has it.
LEMMA TrapsOnlyInGroups ==
    ASSUME GpuInv, phase = "submitting", node \in DOMAIN program.nodes,
           program.nodes[node].traps
    PROVE  program.nodes[node].op = "group"
  BY ProgramsAssumption DEF GpuInv, Ends, NodeWellFormed

\* Launch: a kernel that may trap has an error word.
LEMMA LaunchKeeps ==
    ASSUME GpuInv, Launch
    PROVE  GpuInv'
<1>1. PICK n, size : n = program.nodes[node] /\ size = Dep(1).size
  OBVIOUS
<1>2. PICK b \in Buffer :
        PlannedAllocation(b, size) /\ Define(b, size) /\ Enqueue(size, Kernel({b}, n))
  BY <1>1 DEF Launch
<1>3. /\ AtNode({"group", "copy"}) /\ OperandsOnDevice
      /\ n.op = "group" => ~NeedsErrorBuffer
      /\ part' = 0
      /\ UNCHANGED <<phase, program, inputs, reserved, eventDone, broken, uploaded, errorBuffer,
                     staging>>
  BY <1>1 DEF Launch, walkUnchanged, NextNode
<1>4. PICK c : c = Kernel({b}, n)
  OBVIOUS
<1>5. b \in Live' /\ size # 0 => RefersToHeld(c)'
  <2>1. Range(DepBuffers(n)) \subseteq Live
    BY <1>1, <1>3, OperandsHeld DEF GpuInv
  <2>2. size # 0 /\ n.traps => errorBuffer \in Live
    BY <1>1, <1>3, AtNodeUnrecorded, TrapsOnlyInGroups DEF NeedsErrorBuffer, GpuInv, BuffersHeld
  <2>3. Live' = Live \cup {b}
    BY <1>2, SlotHeld DEF GpuInv
  <2>4. c.kind = "kernel" /\ BuffersOf(c) = {b} \cup Range(DepBuffers(n))
                                 \cup (IF n.traps THEN {errorBuffer} ELSE {})
    BY <1>4, KernelRefers
  <2> QED
    BY <2>1, <2>2, <2>3, <2>4 DEF RefersToHeld
<1>6. c.kind # "event"
  BY <1>4 DEF Kernel
<1>7. Sequence(staging') /\ DOMAIN staging \subseteq DOMAIN staging' /\ part' \in Nat
  BY <1>3 DEF GpuInv, StreamCounted
<1>8. \E v : values' = Assigned(values, node, v) /\ v.buffer = b
  BY <1>2 DEF Define
<1> QED
  BY <1>2, <1>3, <1>4, <1>5, <1>6, <1>7, <1>8, SlotStepKeeps

\* Index: the element has an allocation of its own.
LEMMA IndexKeeps ==
    ASSUME GpuInv, Index
    PROVE  GpuInv'
<1>1. PICK n, c : n = program.nodes[node] /\ c = Kernel({Fresh1}, n)
  OBVIOUS
<1>2. /\ AtNode({"index"}) /\ OnDevice(1) /\ Allocate1 /\ Define(Fresh1, 1) /\ Enqueue(1, c)
      /\ part' = 0
      /\ UNCHANGED <<phase, program, inputs, reserved, eventDone, broken, uploaded, slots,
                     errorBuffer, staging>>
  BY <1>1 DEF Index, walkUnchanged, NextNode
<1>3. /\ phase = "submitting" /\ ~broken /\ ~Recorded /\ node \in DOMAIN program.nodes
  BY <1>2, AtNodeUnrecorded
<1>4. Live' = Live \cup {Fresh1}
  BY <1>2, AllocatedFacts
<1>5. RefersToHeld(c)'
  <2>1. n.op = "index" /\ ~n.traps
    BY <1>1, <1>2, <1>3, TrapsOnlyInGroups DEF AtNode
  <2>2. OperandsOnDevice
    <3>1. Len(n.deps) = 1 /\ n.deps \in Seq(1..(node - 1))
      BY <1>1, <1>3, <2>1, ProgramsAssumption DEF GpuInv, Ends, NodeWellFormed
    <3>2. DOMAIN n.deps = {1}
      BY <3>1
    <3> QED
      BY <1>1, <1>2, <3>2 DEF OperandsOnDevice
  <2>3. Range(DepBuffers(n)) \subseteq Live
    BY <1>1, <2>2, OperandsHeld DEF GpuInv
  <2>4. c.kind = "kernel" /\ BuffersOf(c) = {Fresh1} \cup Range(DepBuffers(n)) \cup {}
    BY <1>1, <2>1, KernelRefers
  <2> QED
    BY <1>4, <2>3, <2>4 DEF RefersToHeld
<1>6. CommandsHeld' /\ StreamCounted' /\ EventLast' /\ InputsReserved' /\ Ends'
  <2>1. c.kind # "event"
    BY <1>1 DEF Kernel
  <2> QED
    BY <1>2, <1>3, <1>4, <1>5, <2>1, WalkKeeps DEF GpuInv, StreamCounted
<1>7. BuffersHeld'
  BY <1>2, <1>4, HandlesKept DEF GpuInv, BuffersHeld, Define
<1> QED
  BY <1>6, <1>7 DEF GpuInv

\* Stack: the elements go into one buffer, taken with the first.
LEMMA StackKeeps ==
    ASSUME GpuInv, Stack
    PROVE  GpuInv'
<1>1. PICK n, size : n = program.nodes[node] /\ size = Len(n.deps)
  OBVIOUS
<1>2. PICK b \in Buffer :
        /\ IF part = 0 THEN PlannedAllocation(b, size) /\ Define(b, size)
           ELSE b = values[node].buffer /\ UNCHANGED <<memory, slots, values>>
        /\ Enqueue(1, [kind |-> "element", to |-> b, from |-> Dep(part + 1).buffer,
                       place |-> part + 1, size |-> size])
  BY <1>1 DEF Stack
<1>3. PICK c : c = [kind |-> "element", to |-> b, from |-> Dep(part + 1).buffer,
                    place |-> part + 1, size |-> size]
  OBVIOUS
<1>4. /\ AtNode({"stack"}) /\ OnDevice(part + 1)
      /\ part' = 0 \/ (part' = part + 1 /\ node' = node)
      /\ UNCHANGED <<phase, program, inputs, reserved, eventDone, broken, uploaded, errorBuffer,
                     staging>>
  BY <1>1 DEF Stack, walkUnchanged, NextNode, NextPart
<1>5. phase = "submitting" /\ node \in DOMAIN program.nodes
  BY <1>4, AtNodeUnrecorded
<1>6. Dep(part + 1).buffer \in Live
  BY <1>4 DEF OnDevice, Defined, Dep, GpuInv, BuffersHeld
<1>7. \/ /\ \E k : PlannedAllocation(b, k)
         /\ \E v : values' = Assigned(values, node, v) /\ v.buffer = b
      \/ /\ UNCHANGED <<memory, slots, values>>
         /\ node \in DOMAIN values /\ b = values[node].buffer /\ b \in Live
  BY <1>2, <1>5 DEF Define, GpuInv, BuffersHeld
<1>8. c.kind # "event" /\ (b \in Live' => RefersToHeld(c)')
  <2>1. c.kind = "element" /\ BuffersOf(c) = {b, Dep(part + 1).buffer}
    BY <1>3 DEF BuffersOf
  <2>2. Live \subseteq Live'
    BY <1>7, SlotHeld DEF GpuInv, Live
  <2> QED
    BY <1>6, <2>1, <2>2 DEF RefersToHeld
<1>9. Sequence(staging') /\ DOMAIN staging \subseteq DOMAIN staging' /\ part' \in Nat
  BY <1>4 DEF GpuInv, StreamCounted
<1>10. part' # 0 => node' = node
  BY <1>4
<1>11. Enqueue(1, c)
  BY <1>2, <1>3
<1> QED
  BY <1>4, <1>7, <1>8, <1>9, <1>10, <1>11, SlotStepKeeps

\* LaunchKernel.
LEMMA LaunchKernelKeeps ==
    ASSUME GpuInv, LaunchKernel
    PROVE  GpuInv'
<1>1. PICK n, to, size, c :
        /\ n = program.nodes[node] /\ size = Dep(1).size
        /\ to = {OutputBuffer(k) : k \in DOMAIN program.outputs}
        /\ c = Kernel(to, n)
  OBVIOUS
<1>3. /\ AtNode({"kernel"}) /\ OperandsOnDevice /\ Enqueue(size, c) /\ part' = 0
      /\ OutputsDefined /\ \A k \in DOMAIN program.outputs : OutputBuffer(k) # NoBuffer
      /\ UNCHANGED <<phase, program, inputs, reserved, eventDone, broken, values, uploaded, slots,
                     errorBuffer, staging, memory>>
  BY <1>1 DEF LaunchKernel, walkUnchanged, NextNode
<1>4. n.op = "kernel" /\ ~n.traps
  BY <1>1, <1>3, AtNodeUnrecorded, TrapsOnlyInGroups DEF AtNode
<1>5. Range(DepBuffers(n)) \subseteq Live
  BY <1>1, <1>3, OperandsHeld DEF GpuInv
<1>6. to \subseteq Live
  BY <1>1, <1>3 DEF OutputsDefined, OutputBuffer, GpuInv, BuffersHeld
<1>7. RefersToHeld(c)' /\ c.kind # "event"
  <2>1. c.kind = "kernel" /\ BuffersOf(c) = to \cup Range(DepBuffers(n)) \cup {}
    BY <1>1, <1>4, KernelRefers
  <2>2. Live' = Live
    BY <1>3 DEF Live
  <2> QED
    BY <1>5, <1>6, <2>1, <2>2 DEF RefersToHeld
<1>8. phase = "submitting" /\ ~broken /\ ~Recorded
  BY <1>3, AtNodeUnrecorded
<1>9. CommandsHeld' /\ StreamCounted' /\ EventLast' /\ InputsReserved' /\ Ends'
  BY <1>3, <1>7, <1>8, WalkKeeps DEF GpuInv, StreamCounted, Live
<1>10. BuffersHeld'
  BY <1>3 DEF GpuInv, BuffersHeld, Live
<1> QED
  BY <1>9, <1>10 DEF GpuInv

\* A sequence with two more entries.
LEMMA TwoMore ==
    ASSUME NEW S, NEW p \in Seq(S), NEW x \in S, NEW y \in S
    PROVE  /\ Len(p) \in Nat
           /\ Len(p \o <<x, y>>) = Len(p) + 2
           /\ \A i \in 1..Len(p) : (p \o <<x, y>>)[i] = p[i]
           /\ (p \o <<x, y>>)[Len(p) + 1] = x
           /\ (p \o <<x, y>>)[Len(p) + 2] = y
<1>1. PICK q : q = <<x, y>>
  OBVIOUS
<1>2. q \in Seq(S) /\ Len(q) = 2 /\ q[1] = x /\ q[2] = y
  BY <1>1
<1>3. /\ Len(p) \in Nat /\ Len(p \o q) = Len(p) + Len(q)
      /\ \A i \in 1..(Len(p) + Len(q)) :
            (p \o q)[i] = IF i <= Len(p) THEN p[i] ELSE q[i - Len(p)]
  BY <1>2, ConcatProperties, LenProperties
<1> QED
  BY <1>1, <1>2, <1>3

\* The downloads: one for each output, the error word, and the event at the end.
LEMMA DownloadFacts ==
    ASSUME Ends, phase = "submitting"
    PROVE  /\ Len(program.outputs) \in Nat /\ DOMAIN program.outputs = 1..Len(program.outputs)
           /\ Len(Downloads) = Len(program.outputs) + 2
           /\ \A k \in 1..Len(program.outputs) : Downloads[k] = OutputDownloads[k]
           /\ Downloads[Len(program.outputs) + 1] = ErrorDownload
           /\ Downloads[Len(program.outputs) + 2] = [kind |-> "event"]
<1>1. program.outputs \in Seq(DOMAIN program.nodes)
  BY ProgramsAssumption DEF Ends, Active
<1>2. Len(program.outputs) \in Nat /\ DOMAIN program.outputs = 1..Len(program.outputs)
  BY <1>1, LenProperties
<1>3. PICK S : S = {OutputDownloads[k] : k \in 1..Len(program.outputs)}
                     \cup {ErrorDownload, [kind |-> "event"]}
  OBVIOUS
<1>4. OutputDownloads \in Seq(S) /\ Len(OutputDownloads) = Len(program.outputs)
  BY <1>2, <1>3 DEF OutputDownloads
<1>5. ErrorDownload \in S /\ [kind |-> "event"] \in S
  BY <1>3
<1> QED
  BY <1>2, <1>4, <1>5, TwoMore DEF Downloads

\* What has no buffer is not downloaded.
LEMMA NothingToDownload ==
    ASSUME NEW c, c.kind \in {"download", "error"}, c.from = NoBuffer
    PROVE  DownloadSize(c) = 0
  BY DEF DownloadSize

\* Download: what is downloaded is held, and the event is the last of it.
LEMMA DownloadKeeps ==
    ASSUME GpuInv, Download
    PROVE  GpuInv'
<1>1. /\ Walked /\ phase = "submitting" /\ ~broken /\ OutputsDefined /\ part < Len(Downloads)
      /\ part' = part + 1 /\ node' = node
      /\ UNCHANGED <<reserved, phase, program, inputs, values, uploaded, slots, errorBuffer,
                     staging, memory, eventDone, broken>>
  BY DEF Download, Walked, NextPart
<1>2. PICK c, size : /\ c = Downloads[part + 1] /\ size = DownloadSize(c)
                     /\ Enqueue(size, c)
  BY DEF Download
<1>3. /\ Len(program.outputs) \in Nat /\ DOMAIN program.outputs = 1..Len(program.outputs)
      /\ part \in Nat /\ part < Len(program.outputs) + 2
  BY <1>1, DownloadFacts DEF GpuInv, StreamCounted
<1>4. ~Recorded
  BY <1>1, <1>3 DEF GpuInv, EventLast
<1>5. part + 1 \in 1..Len(program.outputs) \/ part = Len(program.outputs)
      \/ part = Len(program.outputs) + 1
  BY <1>3
<1>6. Live' = Live
  BY <1>1 DEF Live
<1>7. /\ size # 0 => RefersToHeld(c)
      /\ c.kind = "event" => part = Len(program.outputs) + 1
  <2>1. CASE part + 1 \in 1..Len(program.outputs)
    <3>1. c = [kind |-> "download", from |-> OutputBuffer(part + 1), place |-> part + 1]
      BY <1>1, <1>2, <1>3, <2>1, DownloadFacts DEF OutputDownloads, GpuInv
    <3>2. c.from \in Live \cup {NoBuffer}
      BY <1>1, <1>3, <2>1, <3>1 DEF OutputsDefined, OutputBuffer, GpuInv, BuffersHeld
    <3>3. size # 0 => c.from # NoBuffer
      BY <1>2, <3>1, NothingToDownload
    <3>4. BuffersOf(c) = {c.from}
      BY <3>1 DEF BuffersOf
    <3> QED
      BY <3>1, <3>2, <3>3, <3>4 DEF RefersToHeld
  <2>2. CASE part = Len(program.outputs)
    <3>1. c = [kind |-> "error", from |-> errorBuffer]
      BY <1>1, <1>2, <2>2, DownloadFacts DEF ErrorDownload, GpuInv
    <3>2. c.from \in Live \cup {NoBuffer}
      BY <3>1 DEF GpuInv, BuffersHeld
    <3>3. size # 0 => c.from # NoBuffer
      BY <1>2, <3>1, NothingToDownload
    <3>4. BuffersOf(c) = {c.from}
      BY <3>1 DEF BuffersOf
    <3> QED
      BY <3>1, <3>2, <3>3, <3>4 DEF RefersToHeld
  <2>3. CASE part = Len(program.outputs) + 1
    <3>1. part + 1 = Len(program.outputs) + 2
      BY <1>3, <2>3
    <3>2. c = [kind |-> "event"]
      BY <1>1, <1>2, <3>1, DownloadFacts DEF GpuInv
    <3>3. BuffersOf(c) = {}
      BY <3>2 DEF BuffersOf
    <3> QED
      BY <2>3, <3>2, <3>3 DEF RefersToHeld
  <2> QED
    BY <1>5, <2>1, <2>2, <2>3
<1>8. size # 0 => RefersToHeld(c)'
  BY <1>1, <1>6, <1>7 DEF RefersToHeld
<1>9. c.kind = "event" => (Walked /\ part = Len(program.outputs) + 2)'
  BY <1>1, <1>3, <1>7 DEF Walked
<1>10. Sequence(staging') /\ DOMAIN staging \subseteq DOMAIN staging' /\ part' \in Nat
  BY <1>1, <1>3 DEF GpuInv, StreamCounted
<1>11. CommandsHeld' /\ StreamCounted' /\ EventLast' /\ InputsReserved' /\ Ends'
  BY <1>1, <1>2, <1>4, <1>6, <1>8, <1>9, <1>10, WalkKeeps
<1>12. BuffersHeld'
  BY <1>1, <1>6, WalkedIsPast DEF GpuInv, BuffersHeld
<1> QED
  BY <1>11, <1>12 DEF GpuInv

-----------------------------------------------------------------------------
\* The host's call returns with what it enqueued, or fails.
LEMMA SubmissionEnds ==
    ASSUME GpuInv, Submitted \/ FailSubmit
    PROVE  GpuInv'
<1>1. /\ phase = "submitting" /\ phase' \in {"pending", "aborting"}
      /\ UNCHANGED <<reserved, program, inputs, node, part, values, uploaded, slots, errorBuffer,
                     staging, counted, memory, stream, eventDone, broken>>
  BY DEF Submitted, FailSubmit, Walked, deviceState
<1>2. BuffersHeld' /\ CommandsHeld'
  BY <1>1 DEF GpuInv, BuffersHeld, CommandsHeld, RefersToHeld, Live
<1>3. StreamCounted' /\ EventLast' /\ Ends'
  BY <1>1 DEF GpuInv, StreamCounted, EventLast, Ends, Active
<1>4. InputsReserved'
  BY <1>1 DEF GpuInv, InputsReserved, InputObjects, Active
<1> QED
  BY <1>2, <1>3, <1>4 DEF GpuInv

\* Poll: the phase moves at most.
LEMMA PollKeeps ==
    ASSUME GpuInv, Poll
    PROVE  GpuInv'
<1>1. /\ phase = "pending" /\ phase' \in {"pending", "polled"}
      /\ UNCHANGED <<reserved, program, inputs, node, part, values, uploaded, slots, errorBuffer,
                     staging, counted, memory, stream, eventDone, broken>>
  BY DEF Poll, deviceState
<1>2. BuffersHeld' /\ CommandsHeld'
  BY <1>1 DEF GpuInv, BuffersHeld, CommandsHeld, RefersToHeld, Live
<1>3. StreamCounted' /\ EventLast' /\ Ends'
  BY <1>1 DEF GpuInv, StreamCounted, EventLast, Ends, Active
<1>4. InputsReserved'
  BY <1>1 DEF GpuInv, InputsReserved, InputObjects, Active
<1> QED
  BY <1>2, <1>3, <1>4 DEF GpuInv

\* The release of an abort and of a wait finds nothing in the stream.
LEMMA ReleasedIsIdle ==
    ASSUME GpuInv, Abort \/ Wait
    PROVE  stream = <<>>
<1>1. CASE Abort
  BY <1>1 DEF Abort, Drained, GpuInv, StreamCounted
<1>2. CASE Wait
  BY <1>2 DEF Wait, GpuInv, StreamCounted, EventLast
<1> QED
  BY <1>1, <1>2

\* Abort and Wait: everything is released, and nothing refers to it.
LEMMA ReleaseKeeps ==
    ASSUME GpuInv, Abort \/ Wait
    PROVE  GpuInv'
<1>1. /\ phase \in Active /\ phase' = "done" /\ ReleaseInputs
      /\ memory' = <<>> /\ staging' = <<>> /\ values' = <<>> /\ uploaded' = <<>> /\ slots' = <<>>
      /\ errorBuffer' = NoBuffer
      /\ UNCHANGED <<program, inputs, node, part, counted, stream, eventDone, broken>>
  BY DEF Abort, Wait, Active, ReleaseDeviceStorage
<1>2. stream' = <<>>
  BY <1>1, ReleasedIsIdle
<1>3. BuffersHeld' /\ CommandsHeld'
  BY <1>1, <1>2 DEF BuffersHeld, CommandsHeld
<1>4. StreamCounted'
  BY <1>1, <1>2, EmptySeq DEF GpuInv, StreamCounted, Sequence
<1>5. EventLast' /\ Ends'
  BY <1>1, <1>2 DEF EventLast, GpuInv, Ends, Active
<1>6. InputsReserved'
  <2>1. InputObjects' = InputObjects
    BY <1>1 DEF InputObjects
  <2>2. \A o \in Object : reserved[o] = IF o \in InputObjects THEN {"read"} ELSE {}
    BY <1>1 DEF GpuInv, InputsReserved
  <2>3. reserved' = [o \in Object |-> {}]
    BY <1>1, <2>2 DEF ReleaseInputs
  <2> QED
    BY <1>1, <2>1, <2>3 DEF GpuInv, InputsReserved, Active
<1> QED
  BY <1>3, <1>4, <1>5, <1>6 DEF GpuInv

\* No command changes which memory is live.
LEMMA WrittenIsLive ==
    ASSUME NEW c, NEW m, NEW copies
    PROVE  DOMAIN Written(c, m, copies) = DOMAIN m
  BY DEF Written

\* DeviceStep: the first command leaves the stream, and the event leaves it empty.
LEMMA DeviceStepKeeps ==
    ASSUME GpuInv, DeviceStep
    PROVE  GpuInv'
<1>1. /\ stream # <<>> /\ stream' = Tail(stream) /\ memory' = Written(Head(stream), memory, staging)
      /\ eventDone' = (eventDone \/ Head(stream).kind = "event")
      /\ UNCHANGED <<reserved, phase, program, inputs, node, part, values, uploaded, slots,
                     errorBuffer, staging, counted, broken>>
  BY DEF DeviceStep, hostState
<1>2. Live' = Live
  BY <1>1, WrittenIsLive DEF Live
<1>3. /\ Sequence(Tail(stream)) /\ Len(Tail(stream)) = Len(stream) - 1 /\ Len(stream) \in Nat \ {0}
      /\ 1 \in DOMAIN stream /\ Head(stream) = stream[1]
      /\ \A i \in DOMAIN Tail(stream) : i + 1 \in DOMAIN stream /\ Tail(stream)[i] = stream[i + 1]
      /\ Len(stream) = 1 => Tail(stream) = <<>>
  BY <1>1, TailFacts DEF GpuInv, StreamCounted
<1>4. BuffersHeld'
  BY <1>1, <1>2 DEF GpuInv, BuffersHeld
<1>5. CommandsHeld'
  BY <1>1, <1>2, <1>3 DEF GpuInv, CommandsHeld, RefersToHeld
<1>6. StreamCounted'
  BY <1>1, <1>3 DEF GpuInv, StreamCounted
<1>7. InputsReserved' /\ Ends'
  <2>1. phase # "done" /\ phase # "idle"
    BY <1>1 DEF GpuInv, StreamCounted, Active
  <2> QED
    BY <1>1, <2>1 DEF GpuInv, InputsReserved, InputObjects, Ends
<1>8. EventLast'
  <2>1. \A i \in DOMAIN stream' : stream'[i].kind = "event" => i = Len(stream')
    BY <1>1, <1>3 DEF GpuInv, EventLast
  <2>2. eventDone' => stream' = <<>>
    BY <1>1, <1>3 DEF GpuInv, EventLast
  <2>3. Recorded' => Recorded
    BY <1>1, <1>3 DEF Recorded
  <2>4. Walked' = Walked
    BY <1>1 DEF Walked
  <2> QED
    BY <1>1, <2>1, <2>2, <2>3, <2>4 DEF GpuInv, EventLast
<1> QED
  BY <1>4, <1>5, <1>6, <1>7, <1>8 DEF GpuInv

\* BreakDevice: the device drops the stream.
LEMMA BreakKeeps ==
    ASSUME GpuInv, BreakDevice
    PROVE  GpuInv'
<1>1. /\ phase \notin {"idle", "done"} /\ stream' = <<>>
      /\ UNCHANGED <<reserved, phase, program, inputs, node, part, values, uploaded, slots,
                     errorBuffer, staging, counted, memory, eventDone>>
  BY DEF BreakDevice, hostState
<1>2. BuffersHeld' /\ CommandsHeld'
  BY <1>1 DEF GpuInv, BuffersHeld, CommandsHeld, Live
<1>3. StreamCounted'
  BY <1>1, EmptySeq DEF GpuInv, StreamCounted, Sequence
<1>4. EventLast'
  <2>1. Recorded' => Recorded
    BY <1>1 DEF Recorded
  <2> QED
    BY <1>1, <2>1 DEF GpuInv, EventLast, Walked
<1>5. InputsReserved' /\ Ends'
  BY <1>1 DEF GpuInv, InputsReserved, InputObjects, Ends
<1> QED
  BY <1>2, <1>3, <1>4, <1>5 DEF GpuInv

-----------------------------------------------------------------------------
\* The host steps between calls are steps of Storage that leave the reservations alone,
\* and so do the steps of the execution with the tensors, but for the submission and the
\* release, which reserve objects that exist.
LEMMA HostTensorsStep ==
    ASSUME StorageInv, GpuInv, NextGpu
    PROVE  StorageInv'
<1>1. CASE HostStep
  BY <1>1, StorageStep DEF HostStep, StepIsSafe
<1>2. ASSUME UNCHANGED storageVars, ReservedAllocated' PROVE StorageInv'
  BY <1>2 DEF StorageInv, storageVars, ReferencesAllocated, Refers, ResourcesApart
<1>3. ASSUME UNCHANGED storageVars, UNCHANGED reserved PROVE StorageInv'
  <2>1. ReservedAllocated'
    BY <1>3 DEF StorageInv, ReservedAllocated, storageVars
  <2> QED
    BY <1>2, <1>3, <2>1
<1>4. ASSUME NEW p \in Programs, NEW chosen \in [1..Arity(p) -> Wrapper], SubmitGpu(p, chosen)
      PROVE  StorageInv'
  <2>1. /\ \A i \in DOMAIN chosen : chosen[i] \in Wrapper
        /\ UNCHANGED storageVars
        /\ reserved' = [o \in Object |->
                IF \E i \in DOMAIN chosen : tensor[chosen[i]].object = o
                THEN reserved[o] \cup {"read"} ELSE reserved[o]]
    BY <1>4 DEF SubmitGpu
  <2>2. \A i \in DOMAIN chosen : tensor[chosen[i]].object < nextStorageId
    BY <2>1, StorageAssumption DEF StorageInv, ReferencesAllocated, Refers
  <2>3. ReservedAllocated'
    BY <2>1, <2>2 DEF StorageInv, ReservedAllocated, storageVars
  <2> QED
    BY <1>2, <2>1, <2>3
<1>5. CASE Abort \/ Wait
  <2>1. UNCHANGED storageVars /\ ReleaseInputs
    BY <1>5 DEF Abort, Wait
  <2>2. ReservedAllocated'
    BY <2>1 DEF ReleaseInputs, StorageInv, ReservedAllocated, storageVars
  <2> QED
    BY <1>2, <2>1, <2>2
<1>6. CASE Walk \/ FailSubmit \/ Poll \/ DeviceStep \/ BreakDevice
  <2>1. UNCHANGED storageVars /\ UNCHANGED reserved
    BY <1>6 DEF Walk, UploadInput, ShareInput, UploadBytes, DefineScalar, DefineAlias,
                AllocateOutput, Literal, ClearError, Launch, Index, Stack, LaunchKernel, Download,
                Submitted, FailSubmit, Poll, DeviceStep, BreakDevice, walkUnchanged
  <2> QED
    BY <1>3, <2>1
<1> QED
  BY <1>1, <1>4, <1>5, <1>6 DEF NextGpu

\* SubmitGpu: what is reserved are the objects of the inputs.
LEMMA SubmitKeeps ==
    ASSUME StorageInv, GpuInv,
           NEW p \in Programs, NEW chosen \in [1..Arity(p) -> Wrapper], SubmitGpu(p, chosen)
    PROVE  GpuInv'
<1>1. /\ phase = "idle" /\ phase' = "submitting" /\ program' = p
      /\ inputs' = [i \in DOMAIN chosen |-> tensor[chosen[i]]]
      /\ reserved' = [o \in Object |->
                IF \E i \in DOMAIN chosen : tensor[chosen[i]].object = o
                THEN reserved[o] \cup {"read"} ELSE reserved[o]]
      /\ \A i \in DOMAIN chosen : chosen[i] \in Wrapper /\ Valid(chosen[i])
      /\ UNCHANGED <<part, values, uploaded, slots, errorBuffer, staging, counted, memory,
                     stream, eventDone, broken>>
  BY DEF SubmitGpu, deviceState
<1>2. part = 0 /\ ~eventDone /\ stream = <<>>
  BY <1>1 DEF GpuInv, Ends, StreamCounted, Active
<1>3. BuffersHeld' /\ CommandsHeld'
  BY <1>1, <1>2 DEF GpuInv, BuffersHeld, CommandsHeld, Live
<1>4. StreamCounted'
  BY <1>1, <1>2 DEF GpuInv, StreamCounted
<1>5. EventLast'
  <2>1. ~Recorded'
    BY <1>1, <1>2 DEF Recorded
  <2> QED
    BY <1>1, <1>2, <2>1 DEF EventLast
<1>6. Ends'
  BY <1>1 DEF Ends, Active
<1>7. InputsReserved'
  <2>1. InputObjects' = {tensor[chosen[i]].object : i \in DOMAIN chosen}
    BY <1>1 DEF InputObjects
  <2>2. \A i \in DOMAIN chosen : tensor[chosen[i]].object \in Object
    <3>1. /\ MaxObject \in Nat /\ nextStorageId \in 1..(MaxObject + 1)
          /\ \A w \in Wrapper : tensor[w].object \in 0..(nextStorageId - 1)
      BY StorageAssumption DEF StorageInv, ReferencesAllocated, Refers
    <3>2. \A x \in 0..(nextStorageId - 1) : x # 0 => x \in 1..MaxObject
      BY <3>1
    <3> QED
      BY <1>1, <3>1, <3>2 DEF Valid, NoObject, Object
  <2>3. \A o \in Object : reserved[o] = {}
    BY <1>1 DEF GpuInv, InputsReserved, Active
  <2> QED
    BY <1>1, <2>1, <2>2, <2>3 DEF InputsReserved, Active
<1> QED
  BY <1>3, <1>4, <1>5, <1>6, <1>7 DEF GpuInv

\* Steps that leave the execution as it is: those of the host between its calls.
LEMMA OutsideKeeps ==
    ASSUME GpuInv, UNCHANGED reserved, UNCHANGED gpuVars
    PROVE  GpuInv'
<1>1. UNCHANGED <<phase, program, inputs, node, part, values, uploaded, slots, errorBuffer,
                  staging, counted, memory, stream, eventDone, broken>>
  BY DEF gpuVars, hostState, deviceState
<1>2. BuffersHeld' /\ CommandsHeld'
  BY <1>1 DEF GpuInv, BuffersHeld, CommandsHeld, RefersToHeld, Live
<1>3. StreamCounted' /\ EventLast'
  BY <1>1 DEF GpuInv, StreamCounted, EventLast, Recorded, Walked
<1>4. InputsReserved' /\ Ends'
  BY <1>1 DEF GpuInv, InputsReserved, InputObjects, Ends
<1> QED
  BY <1>2, <1>3, <1>4 DEF GpuInv

\* Every step, and stuttering.
LEMMA GpuStep == StorageInv /\ GpuInv /\ [NextGpu]_allVars => StorageInv' /\ GpuInv'
<1> SUFFICES ASSUME StorageInv, GpuInv, [NextGpu]_allVars PROVE StorageInv' /\ GpuInv'
  OBVIOUS
<1>1. CASE HostStep
  BY <1>1, OutsideKeeps, HostTensorsStep DEF HostStep, NextGpu
<1>2. ASSUME NEW p \in Programs, NEW chosen \in [1..Arity(p) -> Wrapper], SubmitGpu(p, chosen)
      PROVE  StorageInv' /\ GpuInv'
  BY <1>2, SubmitKeeps, HostTensorsStep DEF NextGpu
<1>3. CASE Walk
  <2>1. ASSUME UploadInput \/ UploadBytes PROVE GpuInv'
    BY <2>1, UploadKeeps
  <2>2. ASSUME ShareInput \/ DefineScalar \/ DefineAlias \/ AllocateOutput PROVE GpuInv'
    BY <2>2, DefiningKeeps
  <2>3. ASSUME Literal \/ ClearError \/ Launch \/ Index PROVE GpuInv'
    BY <2>3, LiteralKeeps, ClearErrorKeeps, LaunchKeeps, IndexKeeps
  <2>4. ASSUME Stack \/ LaunchKernel \/ Download PROVE GpuInv'
    BY <2>4, StackKeeps, LaunchKernelKeeps, DownloadKeeps
  <2>5. ASSUME Submitted PROVE GpuInv'
    BY <2>5, SubmissionEnds
  <2>6. GpuInv'
    BY <1>3, <2>1, <2>2, <2>3, <2>4, <2>5 DEF Walk
  <2> QED
    BY <1>3, <2>6, HostTensorsStep DEF NextGpu
<1>4. CASE FailSubmit \/ Poll
  BY <1>4, SubmissionEnds, PollKeeps, HostTensorsStep DEF NextGpu
<1>5. CASE Abort \/ Wait
  BY <1>5, ReleaseKeeps, HostTensorsStep DEF NextGpu
<1>6. CASE DeviceStep \/ BreakDevice
  BY <1>6, DeviceStepKeeps, BreakKeeps, HostTensorsStep DEF NextGpu
<1>7. CASE UNCHANGED allVars
  <2>1. UNCHANGED reserved /\ UNCHANGED gpuVars /\ UNCHANGED vars
    BY <1>7 DEF allVars, vars
  <2> QED
    BY <2>1, OutsideKeeps, StorageStep DEF StepIsSafe
<1> QED
  BY <1>1, <1>2, <1>3, <1>4, <1>5, <1>6, <1>7 DEF NextGpu

\* The invariant of an execution, together with that of the tensors it reads.
LEMMA GpuInvariant == SpecGpu => [](StorageInv /\ GpuInv)
<1>1. InitGpu => StorageInv /\ GpuInv
  BY GpuInit, StorageInit DEF InitGpu
<1>2. StorageInv /\ GpuInv /\ [NextGpu]_allVars => (StorageInv /\ GpuInv)'
  BY GpuStep
<1> QED
  BY <1>1, <1>2, PTL DEF SpecGpu

-----------------------------------------------------------------------------
\* No command of the stream refers to device memory that was freed or to a host copy that
\* is gone, and the inputs of work that is not drained are reserved: abort, wait and
\* releaseDeviceStorage, whichever call of the driver fails.
THEOREM MemoryLives == SpecGpu => []DeviceMemoryAlive
<1>1. GpuInv => DeviceMemoryAlive
  <2> SUFFICES ASSUME GpuInv, NEW i \in DOMAIN stream
               PROVE  /\ BuffersOf(stream[i]) \subseteq Live
                      /\ stream[i].kind = "upload" => stream[i].staged \in DOMAIN staging
                      /\ \A o \in InputObjects : "read" \in reserved[o]
    BY DEF DeviceMemoryAlive
  <2>1. phase \in Active
    BY DEF GpuInv, StreamCounted
  <2> QED
    BY <2>1 DEF GpuInv, CommandsHeld, RefersToHeld, InputsReserved
<1> QED
  BY <1>1, GpuInvariant, PTL

\* However the execution ended, it holds nothing: the release of abort and of wait.
THEOREM NothingIsLeft == SpecGpu => []DoneHoldsNothing
<1>1. GpuInv => DoneHoldsNothing
  BY DEF GpuInv, StreamCounted, Ends, InputsReserved, Active, DoneHoldsNothing
<1> QED
  BY <1>1, GpuInvariant, PTL

\* A failure stands and completes no value, and an execution ends once: poll keeps the
\* failure it finds, and wait neither overwrites it nor publishes behind it.
THEOREM FailuresStand == SpecGpu => ResultIsFinal
<1> DEFINE Final == /\ failure # "none" => failure' # "none" /\ completed' = completed
                    /\ phase = "done" => phase' = "done" /\ failure' = failure
<1>1. ASSUME [NextGpu]_allVars PROVE Final
  <2>1. CASE HostStep \/ UNCHANGED allVars
    BY <2>1 DEF HostStep, allVars, gpuVars, hostState
  <2>2. ASSUME NEW p \in Programs, NEW chosen \in [1..Arity(p) -> Wrapper], SubmitGpu(p, chosen)
        PROVE  Final
    BY <2>2 DEF SubmitGpu
  <2>3. CASE Walk
    BY <2>3 DEF Walk, UploadInput, ShareInput, UploadBytes, DefineScalar, DefineAlias,
                AllocateOutput, Literal, ClearError, Launch, Index, Stack, LaunchKernel, Download,
                Submitted, walkUnchanged, AtNode, Walking, Walked
  <2>4. CASE FailSubmit \/ Abort \/ Poll
    BY <2>4 DEF FailSubmit, Abort, Poll
  <2>5. CASE Wait
    BY <2>5 DEF Wait, Finalized
  <2>6. CASE DeviceStep \/ BreakDevice
    BY <2>6 DEF DeviceStep, BreakDevice, hostState
  <2> QED
    BY <1>1, <2>1, <2>2, <2>3, <2>4, <2>5, <2>6 DEF NextGpu
<1>2. [NextGpu]_allVars => [Final]_allVars
  BY <1>1
<1> QED
  BY <1>2, PTL DEF SpecGpu, ResultIsFinal

\* What the backend has reserved keeps its elements: the uploads of a walk read the inputs
\* as they were when they were submitted, whatever the host did before and does between
\* its calls (the guards of storage/v0/Storage.cpp).
THEOREM InputsStay == SpecGpu => ReservedIsStable
<1> DEFINE Stable == \A o \in Object : reserved[o] # {} => cells'[o] = cells[o]
<1>1. ASSUME StorageInv, [NextGpu]_allVars PROVE Stable
  <2>1. CASE HostStep
    <3>1. StepIsSafe
      BY <1>1, <2>1, StorageStep DEF HostStep
    <3> QED
      BY <1>1, <3>1, ReservedStaysStep DEF StepIsSafe
  <2>2. CASE UNCHANGED cells
    BY <2>2
  <2>3. HostStep \/ UNCHANGED cells
    BY <1>1 DEF NextGpu, Walk, UploadInput, ShareInput, UploadBytes, DefineScalar, DefineAlias,
                AllocateOutput, Literal, ClearError, Launch, Index, Stack, LaunchKernel, Download,
                Submitted, FailSubmit, Abort, Poll, Wait, DeviceStep, BreakDevice, SubmitGpu,
                walkUnchanged, allVars, vars, storageVars
  <2> QED
    BY <2>1, <2>2, <2>3
<1>2. StorageInv /\ [NextGpu]_allVars => [Stable]_vars
  BY <1>1
<1> QED
  BY <1>2, GpuInvariant, PTL DEF SpecGpu, ReservedIsStable

-----------------------------------------------------------------------------
(***************************************************************************)
(* What the device will hold when it has executed the stream.              *)
(***************************************************************************)
Current == [memory |-> memory, bytes |-> outputBytes, error |-> errorHost]

\* The memory of the device, and that of the host it writes to, after a command.
Executed(c, d, copies) ==
    [memory |-> Written(c, d.memory, copies),
     bytes  |-> Downloaded(c, d.memory, d.bytes),
     error  |-> ErrorRead(c, d.memory, d.error)]

\* With one more allocation.
Extended(d, b) ==
    [memory |-> Assigned(d.memory, b, NoContent), bytes |-> d.bytes, error |-> d.error]

\* The states D that the device passes through while it executes the stream.
Passes(D) ==
    /\ D[0] = Current
    /\ \A j \in 1..Len(stream) : D[j] = Executed(stream[j], D[j - 1], staging)
    /\ \A j \in 0..Len(stream) : DOMAIN D[j].memory = Live

\* The device ends in state d, unless it breaks.
Leads(d) == \E D : Passes(D) /\ d = D[Len(stream)]

\* No command changes which memory is live.
LEMMA ExecutedIsLive ==
    ASSUME NEW c, NEW d, NEW copies
    PROVE  DOMAIN Executed(c, d, copies).memory = DOMAIN d.memory
  BY WrittenIsLive DEF Executed

\* A command reads and writes what it refers to: an allocation it does not know of makes no
\* difference.
LEMMA WrittenExtended ==
    ASSUME NEW c, NEW m, NEW copies, NEW b, BuffersOf(c) \subseteq DOMAIN m, b \notin DOMAIN m
    PROVE  Written(c, Assigned(m, b, NoContent), copies) = Assigned(Written(c, m, copies), b, NoContent)
<1> DEFINE w == Assigned(m, b, NoContent)
<1>1. /\ DOMAIN w = DOMAIN m \cup {b} /\ w[b] = NoContent
      /\ \A x \in DOMAIN m : w[x] = m[x] /\ x # b
      /\ w = [x \in DOMAIN m \cup {b} |-> w[x]]
  BY DEF Assigned
<1>2. \A x \in DOMAIN m : Content(w, x) = Content(m, x)
  BY <1>1 DEF Content
<1> HIDE DEF w
<1>3. ASSUME NEW x \in DOMAIN m, NEW y
      PROVE  [w EXCEPT ![x] = y] = Assigned([m EXCEPT ![x] = y], b, NoContent)
  BY <1>1 DEF Assigned
<1>4. CASE c.kind \in {"upload", "clear"}
  <2>1. c.to \in DOMAIN m
    BY <1>4 DEF BuffersOf
  <2> QED
    BY <1>3, <1>4, <2>1 DEF Written, w
<1>5. CASE c.kind = "element"
  <2>1. c.to \in DOMAIN m /\ c.from \in DOMAIN m
    BY <1>5 DEF BuffersOf
  <2>2. w[c.to] = m[c.to] /\ Content(w, c.from) = Content(m, c.from)
    BY <1>1, <1>2, <2>1
  <2> QED
    BY <1>3, <1>5, <2>1, <2>2 DEF Written, w
<1>6. CASE c.kind = "kernel"
  <2> DEFINE contents == [k \in DOMAIN c.from |-> Content(m, c.from[k])]
  <2>1. c.to \subseteq DOMAIN m /\ Range(c.from) \subseteq DOMAIN m /\ (c.n.traps => c.error \in DOMAIN m)
    BY <1>6 DEF BuffersOf
  <2>2. contents = [k \in DOMAIN c.from |-> Content(w, c.from[k])]
    BY <1>2, <2>1 DEF Range
  <2>3. b \notin c.to /\ ~(b = c.error /\ Overflows(c.n, contents))
    BY <2>1 DEF Overflows
  <2> DEFINE old == [x \in DOMAIN m |-> IF x \in c.to THEN Apply(c.n, contents)
                                ELSE IF x = c.error /\ Overflows(c.n, contents) THEN <<TRUE>>
                                ELSE m[x]]
             new == [x \in DOMAIN w |-> IF x \in c.to THEN Apply(c.n, contents)
                                ELSE IF x = c.error /\ Overflows(c.n, contents) THEN <<TRUE>>
                                ELSE w[x]]
  <2>4. Written(c, w, copies) = new
    BY <1>6, <2>2 DEF Written
  <2>5. Written(c, m, copies) = old
    BY <1>6 DEF Written
  <2> HIDE DEF contents
  <2>6. new[b] = NoContent
    BY <1>1, <2>3
  <2>7. ASSUME NEW x \in DOMAIN m PROVE new[x] = old[x]
    BY <1>1
  <2>8. /\ DOMAIN new = DOMAIN m \cup {b} /\ DOMAIN old = DOMAIN m
        /\ new = [x \in DOMAIN new |-> new[x]]
    BY <1>1
  <2> HIDE DEF new, old
  <2>9. new = Assigned(old, b, NoContent)
    BY <2>6, <2>7, <2>8 DEF Assigned
  <2> QED
    BY <2>4, <2>5, <2>9 DEF w
<1>7. CASE c.kind \notin {"upload", "clear", "element", "kernel"}
  BY <1>7 DEF Written, w
<1> QED
  BY <1>4, <1>5, <1>6, <1>7

\* The same of all that a command writes.
LEMMA AfterExtended ==
    ASSUME NEW c, NEW d, NEW copies, NEW b,
           BuffersOf(c) \subseteq DOMAIN d.memory, b \notin DOMAIN d.memory
    PROVE  Executed(c, Extended(d, b), copies) = Extended(Executed(c, d, copies), b)
<1>1. Written(c, Assigned(d.memory, b, NoContent), copies)
        = Assigned(Written(c, d.memory, copies), b, NoContent)
  BY WrittenExtended
<1>2. c.kind \in {"download", "error"} =>
            Content(Assigned(d.memory, b, NoContent), c.from) = Content(d.memory, c.from)
  BY DEF Assigned, Content, BuffersOf
<1> QED
  BY <1>1, <1>2 DEF Executed, Extended, Downloaded, ErrorRead

\* More host copies make no difference to a command that has its own.
LEMMA AfterCopies ==
    ASSUME NEW c, NEW d, NEW copies, NEW more,
           c.kind = "upload" => more[c.staged] = copies[c.staged]
    PROVE  Executed(c, d, more) = Executed(c, d, copies)
  BY DEF Executed, Written

\* A step of the walk: an allocation or none, and a command behind the stream or none.
LEMMA LeadsOn ==
    ASSUME CommandsHeld, StreamCounted, NEW d, Leads(d), NEW w, NEW size, NEW c, Enqueue(size, c),
           \/ UNCHANGED memory /\ w = d
           \/ Allocate1 /\ w = Extended(d, Fresh1),
           \A i \in DOMAIN staging : staging'[i] = staging[i],
           UNCHANGED <<outputBytes, errorHost>>,
           NEW final, final = IF size = 0 THEN w ELSE Executed(c, w, staging')
    PROVE  Leads(final)' /\ DOMAIN w.memory = Live'
<1>1. PICK D : Passes(D) /\ d = D[Len(stream)]
  BY DEF Leads
<1>2. PICK n : n = Len(stream)
  OBVIOUS
<1>3. n \in Nat /\ DOMAIN stream = 1..n
  BY <1>2, AppendFacts DEF StreamCounted
<1>4. \A j \in 1..n : RefersToHeld(stream[j])
  BY <1>3 DEF CommandsHeld
<1>5. \E W : /\ W[0] = Current' /\ W[n] = w
             /\ \A j \in 1..n : W[j] = Executed(stream[j], W[j - 1], staging')
             /\ \A j \in 0..n : DOMAIN W[j].memory = Live'
  <2>1. \A j \in 1..n : \A x : Executed(stream[j], x, staging') = Executed(stream[j], x, staging)
    BY <1>4, AfterCopies DEF RefersToHeld
  <2>2. CASE UNCHANGED memory /\ w = d
    <3>1. Current' = Current /\ Live' = Live
      BY <2>2 DEF Current, Live
    <3>2. /\ D[0] = Current' /\ D[n] = w
          /\ \A j \in 1..n : D[j] = Executed(stream[j], D[j - 1], staging')
          /\ \A j \in 0..n : DOMAIN D[j].memory = Live'
      BY <1>1, <1>2, <2>1, <2>2, <3>1 DEF Passes
    <3> QED
      BY <3>2
  <2>3. CASE Allocate1 /\ w = Extended(d, Fresh1)
    <3>1. PICK b : b = Fresh1
      OBVIOUS
    <3>2. b \notin Live /\ Live' = Live \cup {b} /\ memory' = Assigned(memory, b, NoContent)
      BY <2>3, <3>1, AllocatedFacts
    <3> DEFINE W == [j \in 0..n |-> Extended(D[j], b)]
    <3>3. W[0] = Current' /\ W[n] = w
      BY <1>1, <1>2, <1>3, <2>3, <3>1, <3>2 DEF Passes, Current, Extended
    <3>4. ASSUME NEW j \in 1..n PROVE W[j] = Executed(stream[j], W[j - 1], staging')
      <4>1. j - 1 \in 0..n /\ j \in 0..n
        BY <1>3
      <4>2. DOMAIN D[j - 1].memory = Live /\ D[j] = Executed(stream[j], D[j - 1], staging)
        BY <1>1, <1>2, <4>1 DEF Passes
      <4>3. Executed(stream[j], Extended(D[j - 1], b), staging) = Extended(D[j], b)
        BY <1>4, <3>2, <4>2, AfterExtended DEF RefersToHeld
      <4> QED
        BY <2>1, <4>1, <4>3
    <3>5. ASSUME NEW j \in 0..n PROVE DOMAIN W[j].memory = Live'
      <4>1. DOMAIN D[j].memory = Live
        BY <1>1, <1>2 DEF Passes
      <4>2. W[j].memory = Assigned(D[j].memory, b, NoContent)
        BY DEF Extended
      <4> HIDE DEF W
      <4> QED
        BY <3>2, <4>1, <4>2 DEF Assigned
    <3> QED
      BY <3>3, <3>4, <3>5
  <2> QED
    BY <2>2, <2>3
<1>6. PICK W : /\ W[0] = Current' /\ W[n] = w
               /\ \A j \in 1..n : W[j] = Executed(stream[j], W[j - 1], staging')
               /\ \A j \in 0..n : DOMAIN W[j].memory = Live'
  BY <1>5
<1>7. DOMAIN w.memory = Live'
  BY <1>3, <1>6
<1>8. CASE size = 0
  <2>1. stream' = stream /\ Len(stream') = n /\ final = w
    BY <1>2, <1>8 DEF Enqueue
  <2>2. Passes(W)' /\ final = W[Len(stream')]
    BY <1>6, <2>1 DEF Passes
  <2> QED
    BY <1>7, <2>2 DEF Leads
<1>9. CASE size # 0
  <2>1. /\ Len(stream') = n + 1 /\ \A j \in 1..n : stream'[j] = stream[j]
        /\ stream'[n + 1] = c /\ final = Executed(c, w, staging')
    BY <1>2, <1>3, <1>9, AppendFacts DEF Enqueue, StreamCounted
  <2> DEFINE V == [j \in 0..(n + 1) |-> IF j = n + 1 THEN final ELSE W[j]]
  <2>2. V[0] = Current' /\ V[n + 1] = final
    BY <1>3, <1>6
  <2>3. ASSUME NEW j \in 1..(n + 1) PROVE V[j] = Executed(stream'[j], V[j - 1], staging')
    <3>1. CASE j = n + 1
      <4>1. V[n] = w /\ j - 1 = n
        BY <1>3, <1>6, <3>1
      <4> QED
        BY <2>1, <2>2, <3>1, <4>1
    <3>2. CASE j \in 1..n
      <4>1. V[j] = W[j] /\ V[j - 1] = W[j - 1]
        BY <1>3, <3>2
      <4> QED
        BY <1>6, <2>1, <3>2, <4>1
    <3> QED
      BY <1>3, <3>1, <3>2
  <2>4. ASSUME NEW j \in 0..(n + 1) PROVE DOMAIN V[j].memory = Live'
    <3>1. CASE j = n + 1
      BY <1>7, <2>1, <2>2, <3>1, ExecutedIsLive
    <3>2. CASE j \in 0..n
      BY <1>3, <1>6, <3>2
    <3> QED
      BY <1>3, <3>1, <3>2
  <2> HIDE DEF V
  <2>5. Passes(V)'
    BY <2>1, <2>2, <2>3, <2>4 DEF Passes
  <2> QED
    BY <1>7, <2>1, <2>2, <2>5 DEF Leads
<1> QED
  BY <1>8, <1>9

\* The device executes the first command; where it will end stays.
LEMMA LeadsDown ==
    ASSUME StreamCounted, DeviceStep, NEW d, Leads(d)
    PROVE  Leads(d)'
<1>1. PICK D : Passes(D) /\ d = D[Len(stream)]
  BY DEF Leads
<1>2. PICK n : n = Len(stream)
  OBVIOUS
<1>3. /\ n \in Nat \ {0} /\ Len(stream') = n - 1 /\ Head(stream) = stream[1]
      /\ Sequence(stream') /\ \A j \in DOMAIN stream' : stream'[j] = stream[j + 1]
  BY <1>2, TailFacts DEF StreamCounted, DeviceStep
<1>4. DOMAIN stream' = 1..(n - 1)
  BY <1>3, AppendFacts
<1>5. UNCHANGED staging
  BY DEF DeviceStep, hostState
<1>6. Current' = D[1]
  <2>1. D[1] = Executed(stream[1], D[1 - 1], staging)
    BY <1>1, <1>2, <1>3 DEF Passes
  <2>2. D[1 - 1] = Current
    BY <1>1 DEF Passes
  <2> QED
    BY <1>3, <2>1, <2>2 DEF DeviceStep, Executed, Current
<1> DEFINE W == [j \in 0..(n - 1) |-> D[j + 1]]
<1>7. Live' = Live
  BY WrittenIsLive DEF DeviceStep, Live
<1>8. ASSUME NEW j \in 1..(n - 1) PROVE W[j] = Executed(stream'[j], W[j - 1], staging)
  <2>1. j + 1 \in 1..n /\ (j + 1) - 1 = j /\ j - 1 \in 0..(n - 1) /\ j \in 0..(n - 1) /\ (j - 1) + 1 = j
    BY <1>3
  <2>2. D[j + 1] = Executed(stream[j + 1], D[j], staging)
    BY <1>1, <1>2, <2>1 DEF Passes
  <2>3. W[j] = D[j + 1] /\ W[j - 1] = D[j]
    BY <2>1
  <2> QED
    BY <1>3, <1>4, <2>2, <2>3
<1>9. /\ W[0] = Current' /\ W[n - 1] = d
      /\ \A j \in 0..(n - 1) : DOMAIN W[j].memory = Live'
  <2>1. W[0] = D[1] /\ W[n - 1] = D[n]
    BY <1>3
  <2>2. \A j \in 0..(n - 1) : j + 1 \in 0..n
    BY <1>3
  <2> QED
    BY <1>1, <1>2, <1>6, <1>7, <2>1, <2>2 DEF Passes
<1> HIDE DEF W
<1>10. Passes(W)'
  BY <1>3, <1>5, <1>8, <1>9 DEF Passes
<1> QED
  BY <1>3, <1>9, <1>10 DEF Leads

\* Steps that leave the device and its work alone.
LEMMA LeadsSame ==
    ASSUME NEW d, Leads(d), UNCHANGED <<memory, outputBytes, errorHost, stream, staging>>
    PROVE  Leads(d)'
<1>1. PICK D : Passes(D) /\ d = D[Len(stream)]
  BY DEF Leads
<1>2. Passes(D)'
  BY <1>1 DEF Passes, Current, Live
<1> QED
  BY <1>1, <1>2 DEF Leads

-----------------------------------------------------------------------------
(***************************************************************************)
(* What the nodes of a program mean.                                       *)
(***************************************************************************)
\* What was submitted, and the content of each node.
Given == [i \in DOMAIN inputs |-> LogicalValues(inputs[i])]
Meaning == NodeContents(program, Given)

\* A content is a list of its elements.
Lists(content, size) == size \in Nat /\ content = [k \in 1..size |-> content[k]]

\* Contents as far as node n.
ContentsTo(f, p, given, n) == \A i \in 1..n : f[i] = NodeContent(p, given, f, i)

\* A program's nodes are numbered, and read earlier ones.
LEMMA NodesAre ==
    ASSUME NEW p \in Programs
    PROVE  /\ Len(p.nodes) \in Nat /\ DOMAIN p.nodes = 1..Len(p.nodes)
           /\ Len(p.outputs) \in Nat /\ DOMAIN p.outputs = 1..Len(p.outputs)
           /\ \A k \in DOMAIN p.outputs : p.outputs[k] \in 1..Len(p.nodes)
           /\ \A i \in 1..Len(p.nodes) :
                /\ NodeWellFormed(p, i) /\ SlotWellPlanned(p, i) /\ RawWellFormed(p, i)
                /\ Len(p.nodes[i].deps) \in Nat
                /\ DOMAIN p.nodes[i].deps = 1..Len(p.nodes[i].deps)
                /\ \A k \in DOMAIN p.nodes[i].deps : p.nodes[i].deps[k] \in 1..(i - 1)
<1>1. /\ p.nodes \in Seq(Range(p.nodes)) /\ p.outputs \in Seq(DOMAIN p.nodes)
      /\ \A i \in DOMAIN p.nodes :
                NodeWellFormed(p, i) /\ SlotWellPlanned(p, i) /\ RawWellFormed(p, i)
  BY ProgramsAssumption
<1>2. Len(p.nodes) \in Nat /\ DOMAIN p.nodes = 1..Len(p.nodes)
  BY <1>1, LenProperties
<1>3. /\ Len(p.outputs) \in Nat /\ DOMAIN p.outputs = 1..Len(p.outputs)
      /\ \A k \in DOMAIN p.outputs : p.outputs[k] \in DOMAIN p.nodes
  BY <1>1, LenProperties, ElementOfSeq
<1>4. ASSUME NEW i \in 1..Len(p.nodes)
      PROVE  /\ Len(p.nodes[i].deps) \in Nat
             /\ DOMAIN p.nodes[i].deps = 1..Len(p.nodes[i].deps)
             /\ \A k \in DOMAIN p.nodes[i].deps : p.nodes[i].deps[k] \in 1..(i - 1)
  <2>1. p.nodes[i].deps \in Seq(1..(i - 1))
    BY <1>1, <1>2 DEF NodeWellFormed
  <2> QED
    BY <2>1, LenProperties, ElementOfSeq
<1> QED
  BY <1>1, <1>2, <1>3, <1>4

\* The content of a node depends on those before it.
LEMMA ContentBefore ==
    ASSUME NEW p \in Programs, NEW i \in 1..Len(p.nodes), NEW given, NEW f, NEW g,
           \A j \in 1..(i - 1) : f[j] = g[j]
    PROVE  NodeContent(p, given, f, i) = NodeContent(p, given, g, i)
<1>1. \A k \in DOMAIN p.nodes[i].deps : f[p.nodes[i].deps[k]] = g[p.nodes[i].deps[k]]
  BY NodesAre
<1>2. Operands(p.nodes[i], f) = Operands(p.nodes[i], g)
  BY <1>1 DEF Operands
<1> QED
  BY <1>2 DEF NodeContent

\* One node more.
LEMMA OneMoreContent ==
    ASSUME NEW p \in Programs, NEW n \in Nat, n < Len(p.nodes), NEW given, NEW f,
           ContentsTo(f, p, given, n)
    PROVE  \E g : ContentsTo(g, p, given, n + 1)
<1>0. Len(p.nodes) \in Nat
  BY NodesAre
<1> DEFINE g == [i \in 1..(n + 1) |-> IF i = n + 1 THEN NodeContent(p, given, f, i) ELSE f[i]]
<1>1. ASSUME NEW i \in 1..(n + 1) PROVE g[i] = NodeContent(p, given, g, i)
  <2>1. \A j \in 1..(i - 1) : g[j] = f[j]
    OBVIOUS
  <2> HIDE DEF g
  <2>2. NodeContent(p, given, g, i) = NodeContent(p, given, f, i)
    BY <1>0, <2>1, ContentBefore
  <2>3. CASE i = n + 1
    BY <2>2, <2>3 DEF g
  <2>4. CASE i \in 1..n
    <3>1. g[i] = f[i]
      BY <2>4 DEF g
    <3> QED
      BY <2>2, <2>4, <3>1 DEF ContentsTo
  <2> QED
    BY <2>3, <2>4
<1> HIDE DEF g
<1> QED
  BY <1>1 DEF ContentsTo

\* The contents exist.
LEMMA ContentsExist ==
    ASSUME NEW p \in Programs, NEW given
    PROVE  \E f : f = [i \in DOMAIN p.nodes |-> NodeContent(p, given, f, i)]
<1>1. PICK n : n = Len(p.nodes)
  OBVIOUS
<1>2. n \in Nat /\ DOMAIN p.nodes = 1..n
  BY <1>1, NodesAre
<1> DEFINE T == {m \in 0..n : \E f : ContentsTo(f, p, given, m)}
<1>3. 0 \in T
  BY <1>2 DEF ContentsTo
<1>4. ASSUME NEW m \in 0..(n - 1), m \in T PROVE m + 1 \in T
  <2>1. m \in Nat /\ m < Len(p.nodes) /\ m + 1 \in 0..n
    BY <1>1, <1>2
  <2> QED
    BY <1>4, <2>1, OneMoreContent
<1>5. n \in T
  <2> HIDE DEF T
  <2>1. 0..n \subseteq T
    BY <1>2, <1>3, <1>4, UpTo
  <2> QED
    BY <1>2, <2>1
<1>6. PICK f : ContentsTo(f, p, given, n)
  BY <1>5
<1> DEFINE g == [i \in 1..n |-> f[i]]
<1>7. ASSUME NEW i \in 1..n PROVE g[i] = NodeContent(p, given, g, i)
  <2>1. \A j \in 1..(i - 1) : g[j] = f[j]
    BY <1>2
  <2>2. g[i] = f[i]
    OBVIOUS
  <2> HIDE DEF g
  <2>3. NodeContent(p, given, g, i) = NodeContent(p, given, f, i)
    BY <1>1, <2>1, ContentBefore
  <2> QED
    BY <1>6, <2>2, <2>3 DEF ContentsTo
<1>8. g = [i \in 1..n |-> g[i]]
  OBVIOUS
<1> HIDE DEF g
<1>9. g = [i \in DOMAIN p.nodes |-> NodeContent(p, given, g, i)]
  BY <1>2, <1>7, <1>8
<1> QED
  BY <1>9

\* The contents of the nodes are as the recursion says.
LEMMA ContentsAre ==
    ASSUME NEW p \in Programs, NEW given, NEW i \in DOMAIN p.nodes
    PROVE  NodeContents(p, given)[i] = NodeContent(p, given, NodeContents(p, given), i)
<1>1. NodeContents(p, given) = CHOOSE f : f = [j \in DOMAIN p.nodes |-> NodeContent(p, given, f, j)]
  BY DEF NodeContents
<1>2. NodeContents(p, given) = [j \in DOMAIN p.nodes |-> NodeContent(p, given, NodeContents(p, given), j)]
  BY <1>1, ContentsExist
<1> QED
  BY <1>2

\* What is needed later is needed now, and so are the operands of a node and the outputs.
LEMMA NeededFacts ==
    ASSUME NEW p \in Programs, NEW m \in 1..Len(p.nodes)
    PROVE  /\ NeededFrom(p, m + 1) \subseteq NeededFrom(p, m)
           /\ \A k \in DOMAIN p.nodes[m].deps : p.nodes[m].deps[k] \in NeededFrom(p, m)
           /\ m = Len(p.nodes) => NeededFrom(p, m + 1) = Range(p.outputs)
<1>1. Len(p.nodes) \in Nat /\ DOMAIN p.nodes = 1..Len(p.nodes)
  BY NodesAre
<1>2. {k \in DOMAIN p.nodes : k >= m + 1} \subseteq {k \in DOMAIN p.nodes : k >= m}
  BY <1>1
<1>3. NeededFrom(p, m + 1) \subseteq NeededFrom(p, m)
  BY <1>2 DEF NeededFrom
<1>4. ASSUME NEW k \in DOMAIN p.nodes[m].deps PROVE p.nodes[m].deps[k] \in NeededFrom(p, m)
  <2>1. p.nodes[m].deps[k] \in Range(p.nodes[m].deps)
    BY DEF Range
  <2>2. m \in {j \in DOMAIN p.nodes : j >= m}
    BY <1>1
  <2> QED
    BY <2>1, <2>2 DEF NeededFrom
<1>5. m = Len(p.nodes) => {k \in DOMAIN p.nodes : k >= m + 1} = {}
  BY <1>1
<1> QED
  BY <1>3, <1>4, <1>5 DEF NeededFrom

\* The outputs are needed to the end.
LEMMA OutputsNeeded ==
    ASSUME NEW p, NEW k \in DOMAIN p.outputs, NEW m
    PROVE  p.outputs[k] \in NeededFrom(p, m)
  BY DEF NeededFrom, Range

\* A materialised tensor reads as its storage.
LEMMA PreflightReads ==
    ASSUME NEW d, Described(d), Preflight(d)
    PROVE  /\ ElementCount(d.shape) \in Nat
           /\ LogicalValues(d) = [k \in 1..ElementCount(d.shape) |-> cells[d.object][k]]
<1>1. PICK n : n = Len(d.shape)
  OBVIOUS
<1>2. d.shape \in Seq(Nat)
  BY DEF Described, Descriptor
<1>3. /\ n \in Nat /\ d.shape \in [1..n -> Nat]
      /\ \A x : x \in Indices(d.shape) <=> Inside(x, n, d.shape)
  BY <1>1, <1>2, IndicesAre
<1>4. ElementCount(d.shape) \in Nat
  BY <1>3, ElementCountNat
<1>5. ASSUME NEW k \in 1..ElementCount(d.shape)
      PROVE  Offset(d, AtRank(d.shape, k - 1)) + 1 = k
  <2>1. k - 1 \in 0..(ElementCount(d.shape) - 1)
    BY <1>4
  <2>2. PICK x : Inside(x, n, d.shape) /\ Rank(d.shape, x) = k - 1
    BY <1>3, <2>1, RankOnto
  <2>3. \E y \in Indices(d.shape) : Rank(d.shape, y) = k - 1
    BY <1>3, <2>2
  <2>4. PICK y : y = AtRank(d.shape, k - 1)
    OBVIOUS
  <2>5. y \in Indices(d.shape) /\ Rank(d.shape, y) = k - 1
    BY <2>3, <2>4 DEF AtRank
  <2>6. Offset(d, y) = d.offset + Rank(d.shape, y)
    BY <2>5, ContiguousIsRank DEF Preflight
  <2> QED
    BY <1>4, <2>4, <2>5, <2>6 DEF Preflight
<1> QED
  BY <1>4, <1>5 DEF LogicalValues

-----------------------------------------------------------------------------
(***************************************************************************)
(* What the device will hold, node by node.                                *)
(***************************************************************************)
Past == node = Len(program.nodes) + 1

\* The content of a node was computed; an output of a raw kernel waits for the kernel.
Settled(i) ==
    i < node /\ (program.nodes[i].op = "output" /\ values[i].size # 0 => Past)

Awaited(i) == Settled(i) /\ i \in NeededFrom(program, node)

InMemory(d, i) ==
    IF values[i].buffer = NoBuffer THEN values[i].scalar = Meaning[i]
    ELSE d.memory[values[i].buffer] = Meaning[i]

\* Whatever is still needed is there.
Computed(d) == \A i \in DOMAIN values : Awaited(i) => InMemory(d, i)

\* A literal of device scalars has the elements that were copied.
Partial(d) ==
    part # 0 /\ ~Past =>
        LET n == program.nodes[node] m == d.memory[values[node].buffer] IN
        /\ n.op = "stack" /\ part < Len(n.deps)
        /\ node \in DOMAIN values /\ n.slot \in DOMAIN slots
        /\ slots[n.slot].buffer = values[node].buffer
        /\ Lists(m, Len(n.deps)) /\ \A k \in 1..part : m[k] = Meaning[node][k]

\* An uploaded object has the content of each input that may share it.
Shared(d) ==
    \A o \in DOMAIN uploaded : \A i \in DOMAIN inputs :
        inputs[i].object = o /\ ElementCount(inputs[i].shape) = uploaded[o].size =>
            d.memory[uploaded[o].buffer] = Given[i]

\* A sum of an earlier node is beyond the largest element, and the error word says so.
TrapsAt(i) == Overflows(program.nodes[i], Operands(program.nodes[i], Meaning))

TrapSoFar == \E i \in 1..(node - 1) : TrapsAt(i)

Told(d) ==
    IF errorBuffer = NoBuffer THEN ~TrapSoFar ELSE d.memory[errorBuffer] = <<TrapSoFar>>

OnDeviceOutput(k) == OutputBuffer(k) # NoBuffer /\ values[program.outputs[k]].size # 0

\* The host gets what the device computed.
Fetched(d) ==
    Past /\ part # 0 =>
        /\ OutputsDefined
        /\ \A k \in DOMAIN program.outputs : k <= part /\ OnDeviceOutput(k) =>
                k \in DOMAIN d.bytes /\ d.bytes[k] = Meaning[program.outputs[k]]
        /\ part > Len(program.outputs) /\ errorBuffer # NoBuffer => d.error = TrapSoFar

Means(d) == Computed(d) /\ Partial(d) /\ Shared(d) /\ Told(d) /\ Fetched(d)

\* A value is a list of the elements that its node means.
Sized ==
    \A i \in DOMAIN values :
        /\ i \in 1..Len(program.nodes) /\ (i < node \/ (i = node /\ part # 0))
        /\ Lists(Meaning[i], values[i].size)

\* A value has the buffer of its planned slot, and no other one does.
Planned(i) == program.nodes[i].slot # 0 /\ values[i].size # 0 /\ values[i].buffer # NoBuffer

SlotsApart ==
    /\ 0 \notin DOMAIN slots
    /\ \A s, t \in DOMAIN slots : slots[s].buffer = slots[t].buffer => s = t

ValuesPlaced ==
    \A i \in DOMAIN values :
        /\ Planned(i) => program.nodes[i].slot \in DOMAIN slots
        /\ \A s \in DOMAIN slots :
                slots[s].buffer = values[i].buffer <=> Planned(i) /\ s = program.nodes[i].slot

UploadsApart == \A o \in DOMAIN uploaded : \A s \in DOMAIN slots : slots[s].buffer # uploaded[o].buffer

ErrorApart ==
    errorBuffer # NoBuffer =>
        /\ \A s \in DOMAIN slots : slots[s].buffer # errorBuffer
        /\ \A i \in DOMAIN values : values[i].buffer # errorBuffer
        /\ \A o \in DOMAIN uploaded : uploaded[o].buffer # errorBuffer

OutputsApart ==
    \A i \in DOMAIN values : program.nodes[i].op = "output" =>
        /\ values[i].buffer # NoBuffer
        /\ \A j \in DOMAIN values : values[j].buffer = values[i].buffer => j = i
        /\ \A o \in DOMAIN uploaded : uploaded[o].buffer # values[i].buffer

Placed == SlotsApart /\ ValuesPlaced /\ UploadsApart /\ ErrorApart /\ OutputsApart

\* The error word of the host is read when the walk is over.
ErrorUnread ==
    phase = "submitting" /\ ~Past =>
        errorHost = FALSE /\ \A i \in DOMAIN stream : stream[i].kind # "error"

Running == {"submitting", "pending", "polled"}

Known ==
    /\ expected = Outcome(program, Given)
    /\ node \in 1..(Len(program.nodes) + 1)
    /\ DOMAIN inputs = 1..Arity(program)
    /\ \A i \in DOMAIN inputs : Described(inputs[i]) /\ Preflight(inputs[i])
    /\ phase # "submitting" => Past /\ part = Len(program.outputs) + 2

Untouched ==
    /\ node = 0 /\ values = <<>> /\ uploaded = <<>> /\ slots = <<>> /\ errorBuffer = NoBuffer
    /\ errorHost = FALSE /\ failure = "none" /\ stream = <<>>

FailureKnown ==
    /\ phase \in {"submitting", "pending"} => failure = "none"
    /\ phase = "polled" =>
            failure \in {"none", "driver"} \/ (failure = "overflow" /\ expected.overflow)
    /\ phase = "aborting" => failure \in {"driver", "bounds"}
    /\ PublishedIsComputed

ValueInv ==
    /\ Live \subseteq Buffer
    /\ phase = "idle" => Untouched
    /\ phase \in Running => Known /\ Sized /\ Placed /\ ErrorUnread
    /\ phase \in Running /\ ~broken => \E d : Leads(d) /\ Means(d)
    /\ FailureKnown

-----------------------------------------------------------------------------
(***************************************************************************)
(* What commands write.                                                    *)
(***************************************************************************)
Touched(c) ==
    CASE c.kind \in {"upload", "clear", "element"} -> {c.to}
      [] c.kind = "kernel" -> c.to \cup (IF c.n.traps THEN {c.error} ELSE {})
      [] OTHER -> {}

\* A command writes nothing else.
LEMMA WrittenElsewhere ==
    ASSUME NEW c, NEW m, NEW copies, NEW b \in DOMAIN m, b \notin Touched(c)
    PROVE  Written(c, m, copies)[b] = m[b]
<1>1. CASE c.kind \in {"upload", "clear", "element"}
  BY <1>1 DEF Touched, Written
<1>2. CASE c.kind = "kernel"
  <2> DEFINE contents == [k \in DOMAIN c.from |-> Content(m, c.from[k])]
  <2>1. b \notin c.to /\ ~(b = c.error /\ Overflows(c.n, contents))
    BY <1>2 DEF Touched, Overflows
  <2>2. Written(c, m, copies) =
            [x \in DOMAIN m |-> IF x \in c.to THEN Apply(c.n, contents)
                                ELSE IF x = c.error /\ Overflows(c.n, contents) THEN <<TRUE>>
                                ELSE m[x]]
    BY <1>2 DEF Written
  <2> HIDE DEF contents
  <2> QED
    BY <2>1, <2>2
<1>3. CASE c.kind \notin {"upload", "clear", "element", "kernel"}
  BY <1>3 DEF Written
<1> QED
  BY <1>1, <1>2, <1>3

\* An upload, and a clear.
LEMMA UploadWrites ==
    ASSUME NEW c, NEW d, NEW copies, c.kind \in {"upload", "clear"}, c.to \in DOMAIN d.memory
    PROVE  Executed(c, d, copies).memory[c.to]
             = IF c.kind = "upload" THEN copies[c.staged] ELSE <<FALSE>>
  BY DEF Executed, Written

\* A kernel, from the contents of what it reads.
LEMMA KernelWrites ==
    ASSUME NEW c, NEW d, NEW copies, c.kind = "kernel", NEW contents,
           contents = [k \in DOMAIN c.from |-> Content(d.memory, c.from[k])]
    PROVE  /\ \A b \in c.to : b \in DOMAIN d.memory =>
                    Executed(c, d, copies).memory[b] = Apply(c.n, contents)
           /\ c.error \in DOMAIN d.memory /\ c.error \notin c.to =>
                    Executed(c, d, copies).memory[c.error] =
                        IF Overflows(c.n, contents) THEN <<TRUE>> ELSE d.memory[c.error]
<1>1. Executed(c, d, copies).memory =
        [b \in DOMAIN d.memory |-> IF b \in c.to THEN Apply(c.n, contents)
                                   ELSE IF b = c.error /\ Overflows(c.n, contents) THEN <<TRUE>>
                                   ELSE d.memory[b]]
  BY DEF Executed, Written
<1> QED
  BY <1>1

\* The meaning of a node, from those of its operands.
LEMMA MeaningIs ==
    ASSUME program \in Programs, NEW i \in 1..Len(program.nodes)
    PROVE  IF program.nodes[i].op \in {"input", "bytes"} THEN Meaning[i] = Given[i]
           ELSE Meaning[i] = Apply(program.nodes[i], Operands(program.nodes[i], Meaning))
<1>1. i \in DOMAIN program.nodes
  BY NodesAre
<1>2. Meaning[i] = NodeContent(program, Given, Meaning, i)
  BY <1>1, ContentsAre DEF Meaning
<1> QED
  BY <1>2 DEF NodeContent

\* The meaning stays while the inputs do.
LEMMA MeaningStays ==
    ASSUME UNCHANGED <<cells, program, inputs>>
    PROVE  Given' = Given /\ Meaning' = Meaning
<1>1. Given' = Given
  BY DEF Given, LogicalValues
<1> QED
  BY <1>1 DEF Meaning

-----------------------------------------------------------------------------
(***************************************************************************)
(* A step of the walk.                                                     *)
(***************************************************************************)
\* No value that is still needed, no upload and no error word is in a buffer.
Free(b) ==
    /\ \A i \in DOMAIN values : Awaited(i) => values[i].buffer # b
    /\ \A o \in DOMAIN uploaded : uploaded[o].buffer # b
    /\ b # errorBuffer

\* Everywhere else memory stays.
Elsewhere(d, e, b) == \A x \in Live : x # b /\ x # errorBuffer => e.memory[x] = d.memory[x]

\* While a node is walked.
LEMMA WalkFacts ==
    ASSUME GpuInv, ValueInv, NEW ops, AtNode(ops)
    PROVE  /\ phase = "submitting" /\ ~broken /\ program \in Programs
           /\ Len(program.nodes) \in Nat /\ node \in 1..Len(program.nodes) /\ ~Past
           /\ node \in DOMAIN program.nodes
           /\ program.nodes[node].op \in ops
           /\ BuffersHeld /\ Live \subseteq Buffer /\ NoBuffer \notin Live
           /\ Known /\ Sized /\ Placed /\ errorHost = FALSE
           /\ \E d : Leads(d) /\ Means(d)
           /\ part \in Nat
           /\ program.nodes[node].op # "stack" => part = 0
           /\ part = 0 => node \notin DOMAIN values
<1>1. phase = "submitting" /\ ~broken /\ node \in DOMAIN program.nodes /\ program.nodes[node].op \in ops
  BY AtNodeUnrecorded DEF AtNode
<1>2. program \in Programs /\ BuffersHeld /\ part \in Nat
  BY <1>1 DEF GpuInv, Ends, StreamCounted
<1>3. Len(program.nodes) \in Nat /\ node \in 1..Len(program.nodes)
  BY <1>1, <1>2, NodesAre
<1>4. ~Past
  BY <1>3 DEF Past
<1>5. /\ Live \subseteq Buffer /\ Known /\ Sized /\ Placed /\ ErrorUnread
      /\ \E d : Leads(d) /\ Means(d)
  BY <1>1 DEF ValueInv, Running
<1>6. NoBuffer \notin Live
  BY <1>5 DEF Buffer, NoBuffer
<1>7. errorHost = FALSE
  BY <1>1, <1>4, <1>5 DEF ErrorUnread
<1>8. program.nodes[node].op # "stack" => part = 0
  BY <1>4, <1>5 DEF Means, Partial
<1>9. part = 0 => node \notin DOMAIN values
  BY <1>3, <1>5 DEF Sized
<1> QED
  BY <1>1, <1>2, <1>3, <1>4, <1>5, <1>6, <1>7, <1>8, <1>9

\* The values that are still needed stay where they are while a node gets its own.
LEMMA ComputedOn ==
    ASSUME GpuInv, ValueInv, NEW ops, AtNode(ops), program.nodes[node].op # "kernel",
           UNCHANGED program, Meaning' = Meaning, node' = node + 1,
           NEW d, Computed(d), NEW e, NEW b, Free(b), Elsewhere(d, e, b),
           DOMAIN values' = DOMAIN values \cup {node},
           \A i \in DOMAIN values : i # node => values'[i] = values[i],
           NEW n, n = node, Awaited(n)' => InMemory(e, n)'
    PROVE  Computed(e)'
<1>1. /\ program \in Programs /\ Len(program.nodes) \in Nat /\ node \in 1..Len(program.nodes)
      /\ BuffersHeld /\ NoBuffer \notin Live /\ Sized /\ Placed
  BY WalkFacts
<1>2. SUFFICES ASSUME NEW i \in DOMAIN values', Awaited(i)' PROVE InMemory(e, i)'
  BY DEF Computed
<1>3. CASE i = node
  BY <1>2, <1>3
<1>4. CASE i # node
  <2>1. i \in DOMAIN values /\ values'[i] = values[i] /\ i \in 1..Len(program.nodes)
    BY <1>1, <1>4 DEF Sized
  <2>2. i < node
    BY <1>1, <1>2, <1>4, <2>1 DEF Awaited, Settled
  <2>3. Settled(i)
    <3>1. CASE program.nodes[i].op = "output" /\ values[i].size # 0
      <4>1. Past'
        BY <1>2, <2>1, <3>1 DEF Awaited, Settled
      <4>2. node = Len(program.nodes)
        BY <1>1, <4>1 DEF Past
      <4>3. program.nodes[node].op = "kernel"
        BY <1>1, <2>1, <3>1, <4>2, NodesAre DEF RawWellFormed
      <4> QED
        BY <4>3
    <3> QED
      BY <2>2, <3>1 DEF Settled
  <2>4. i \in NeededFrom(program, node)
    <3>1. i \in NeededFrom(program, node + 1)
      BY <1>2 DEF Awaited
    <3> QED
      BY <1>1, <3>1, NeededFacts
  <2>5. InMemory(d, i) /\ values[i].buffer # b
    BY <2>1, <2>3, <2>4 DEF Computed, Awaited, Free
  <2>6. values[i].buffer # NoBuffer => e.memory[values[i].buffer] = d.memory[values[i].buffer]
    <3>1. ASSUME values[i].buffer # NoBuffer PROVE values[i].buffer \in Live /\ values[i].buffer # errorBuffer
      BY <1>1, <2>1, <3>1 DEF BuffersHeld, Placed, ErrorApart
    <3> QED
      BY <2>5, <3>1 DEF Elsewhere
  <2> QED
    BY <2>1, <2>5, <2>6 DEF InMemory
<1> QED
  BY <1>3, <1>4

\* Uploads stay where they are.
LEMMA SharedOn ==
    ASSUME GpuInv, ValueInv, NEW ops, AtNode(ops), UNCHANGED <<uploaded, inputs>>, Given' = Given,
           NEW d, Shared(d), NEW e, NEW b, Free(b), Elsewhere(d, e, b)
    PROVE  Shared(e)'
<1>1. BuffersHeld /\ NoBuffer \notin Live /\ Placed
  BY WalkFacts
<1>2. ASSUME NEW o \in DOMAIN uploaded
      PROVE  e.memory[uploaded[o].buffer] = d.memory[uploaded[o].buffer]
  <2>1. uploaded[o].buffer \in Live /\ uploaded[o].buffer # b
    BY <1>1 DEF BuffersHeld, Free
  <2>2. uploaded[o].buffer # errorBuffer
    BY <1>1, <2>1 DEF Placed, ErrorApart
  <2> QED
    BY <2>1, <2>2 DEF Elsewhere
<1> QED
  BY <1>2 DEF Shared

\* One node more may trap.
LEMMA TrapsOn ==
    ASSUME GpuInv, ValueInv, NEW ops, AtNode(ops), UNCHANGED program, Meaning' = Meaning,
           node' = node + 1
    PROVE  /\ TrapSoFar' = (TrapSoFar \/ TrapsAt(node)) /\ TrapSoFar \in BOOLEAN
           /\ program.nodes[node].op # "group" => ~TrapsAt(node)
<1>1. /\ program \in Programs /\ Len(program.nodes) \in Nat /\ node \in 1..Len(program.nodes)
      /\ phase = "submitting" /\ node \in DOMAIN program.nodes
  BY WalkFacts
<1>2. \A i : TrapsAt(i)' <=> TrapsAt(i)
  BY DEF TrapsAt
<1>3. 1..(node' - 1) = (1..(node - 1)) \cup {node}
  BY <1>1
<1>4. TrapSoFar' <=> (\E i \in 1..(node' - 1) : TrapsAt(i))
  BY <1>2 DEF TrapSoFar
<1>5. TrapSoFar' <=> (TrapSoFar \/ TrapsAt(node))
  BY <1>3, <1>4 DEF TrapSoFar
<1>6. program.nodes[node].op # "group" => ~TrapsAt(node)
  BY <1>1, TrapsOnlyInGroups DEF TrapsAt, Overflows
<1> QED
  BY <1>5, <1>6 DEF TrapSoFar

\* A node that cannot trap leaves the error word as it is.
LEMMA ToldOn ==
    ASSUME GpuInv, ValueInv, NEW ops, AtNode(ops), UNCHANGED <<program, errorBuffer>>,
           Meaning' = Meaning, node' = node + 1, program.nodes[node].op # "group",
           NEW d, Told(d), NEW e, NEW b, Free(b),
           \A x \in Live : x # b => e.memory[x] = d.memory[x]
    PROVE  Told(e)'
<1>1. TrapSoFar' = TrapSoFar
  BY TrapsOn
<1>2. errorBuffer # NoBuffer => e.memory[errorBuffer] = d.memory[errorBuffer]
  <2>1. errorBuffer \in Live \cup {NoBuffer}
    BY DEF GpuInv, BuffersHeld
  <2> QED
    BY <2>1 DEF Free
<1> QED
  BY <1>1, <1>2 DEF Told

\* When a node is done there is no part of it, and nothing was fetched.
LEMMA NodeDone ==
    ASSUME part' = 0, NEW e, Computed(e)', Shared(e)', Told(e)'
    PROVE  Means(e)'
  BY DEF Means, Partial, Fetched

\* The sizes go on.
LEMMA SizedOn ==
    ASSUME GpuInv, ValueInv, NEW ops, AtNode(ops), UNCHANGED program, Meaning' = Meaning,
           DOMAIN values' = DOMAIN values \cup {node},
           \A i \in DOMAIN values : i # node => values'[i] = values[i],
           Lists(Meaning[node], values'[node].size),
           node' = node + 1 \/ (node' = node /\ part' # 0)
    PROVE  Sized'
<1>1. Sized /\ node \in 1..Len(program.nodes) /\ Len(program.nodes) \in Nat
  BY WalkFacts
<1>2. SUFFICES ASSUME NEW i \in DOMAIN values'
               PROVE  /\ i \in 1..Len(program.nodes) /\ (i < node' \/ (i = node' /\ part' # 0))
                      /\ Lists(Meaning[i], values'[i].size)
  BY DEF Sized
<1>3. CASE i = node
  BY <1>1, <1>3
<1>4. CASE i # node
  <2>1. i \in DOMAIN values /\ values'[i] = values[i]
    BY <1>4
  <2>2. i \in 1..Len(program.nodes) /\ i < node /\ Lists(Meaning[i], values[i].size)
    BY <1>1, <1>4, <2>1 DEF Sized
  <2> QED
    BY <1>1, <2>1, <2>2
<1> QED
  BY <1>3, <1>4

\* A node gets a buffer that is there, or one that no slot has.
LEMMA PlacedOn ==
    ASSUME GpuInv, ValueInv, NEW ops, AtNode(ops), node \notin DOMAIN values,
           UNCHANGED <<program, slots, errorBuffer>>,
           NEW v, values' = Assigned(values, node, v), NEW n, n = node,
           Planned(n)' => program.nodes[n].slot \in DOMAIN slots,
           \A s \in DOMAIN slots :
                slots[s].buffer = v.buffer <=> Planned(n)' /\ s = program.nodes[n].slot,
           errorBuffer # NoBuffer => v.buffer # errorBuffer,
           \A i \in DOMAIN values : program.nodes[i].op = "output" => values[i].buffer # v.buffer,
           program.nodes[n].op = "output" =>
                /\ v.buffer # NoBuffer /\ UNCHANGED uploaded
                /\ \A i \in DOMAIN values : values[i].buffer # v.buffer
                /\ \A o \in DOMAIN uploaded : uploaded[o].buffer # v.buffer,
           \A o \in DOMAIN uploaded' :
                \/ o \in DOMAIN uploaded /\ uploaded'[o] = uploaded[o]
                \/ uploaded'[o].buffer = v.buffer /\ ~Planned(n)' /\ program.nodes[n].op # "output"
    PROVE  Placed'
<1>1. Placed
  BY WalkFacts
<1>2. /\ DOMAIN values' = DOMAIN values \cup {n} /\ values'[n] = v
      /\ \A i \in DOMAIN values : values'[i] = values[i] /\ i # n
  BY DEF Assigned
<1>3. \A i \in DOMAIN values : Planned(i)' = Planned(i)
  BY <1>2 DEF Planned
<1>4. SlotsApart'
  BY <1>1 DEF Placed, SlotsApart
<1>5. ValuesPlaced'
  <2> SUFFICES ASSUME NEW i \in DOMAIN values'
               PROVE  /\ Planned(i)' => program.nodes[i].slot \in DOMAIN slots
                      /\ \A s \in DOMAIN slots :
                            slots[s].buffer = values'[i].buffer
                                <=> Planned(i)' /\ s = program.nodes[i].slot
    BY DEF ValuesPlaced
  <2>1. CASE i = n
    BY <1>2, <2>1
  <2>2. CASE i \in DOMAIN values
    BY <1>1, <1>2, <1>3, <2>2 DEF Placed, ValuesPlaced
  <2> QED
    BY <1>2, <2>1, <2>2
<1>6. UploadsApart'
  BY <1>1 DEF Placed, UploadsApart
<1>7. ErrorApart'
  BY <1>1, <1>2 DEF Placed, ErrorApart
<1>8. OutputsApart'
  <2> SUFFICES ASSUME NEW i \in DOMAIN values', program.nodes[i].op = "output"
               PROVE  /\ values'[i].buffer # NoBuffer
                      /\ \A j \in DOMAIN values' : values'[j].buffer = values'[i].buffer => j = i
                      /\ \A o \in DOMAIN uploaded' : uploaded'[o].buffer # values'[i].buffer
    BY DEF OutputsApart
  <2>1. CASE i = n
    BY <1>2, <2>1
  <2>2. CASE i \in DOMAIN values
    <3>1. /\ values[i].buffer # NoBuffer /\ values'[i] = values[i]
          /\ \A j \in DOMAIN values : values[j].buffer = values[i].buffer => j = i
          /\ \A o \in DOMAIN uploaded : uploaded[o].buffer # values[i].buffer
          /\ values[i].buffer # v.buffer
      BY <1>1, <1>2, <2>2 DEF Placed, OutputsApart
    <3> QED
      BY <1>2, <3>1
  <2> QED
    BY <1>2, <2>1, <2>2
<1> QED
  BY <1>4, <1>5, <1>6, <1>7, <1>8 DEF Placed

\* A new allocation that is not planned is nobody else's.
LEMMA PlacedFresh ==
    ASSUME GpuInv, ValueInv, NEW ops, AtNode(ops), node \notin DOMAIN values,
           UNCHANGED <<program, slots, errorBuffer>>, Allocate1,
           NEW v, values' = Assigned(values, node, v), v.buffer = Fresh1, NEW n, n = node,
           ~Planned(n)',
           \/ UNCHANGED uploaded
           \/ /\ \E o, r : uploaded' = Assigned(uploaded, o, r) /\ r.buffer = Fresh1
              /\ program.nodes[n].op # "output"
    PROVE  Placed'
<1>1. PICK b : b = Fresh1
  OBVIOUS
<1>2. b \notin Live /\ b # NoBuffer
  BY <1>1, AllocatedFacts
<1>3. BuffersHeld
  BY DEF GpuInv
<1>4. \A s \in DOMAIN slots : slots[s].buffer # b
  BY <1>2, <1>3 DEF BuffersHeld
<1>5. /\ errorBuffer # b /\ \A i \in DOMAIN values : values[i].buffer # b
      /\ \A o \in DOMAIN uploaded : uploaded[o].buffer # b
  BY <1>2, <1>3 DEF BuffersHeld
<1>6. \A o \in DOMAIN uploaded' :
                \/ o \in DOMAIN uploaded /\ uploaded'[o] = uploaded[o]
                \/ uploaded'[o].buffer = b /\ ~Planned(n)' /\ program.nodes[n].op # "output"
  <2>1. CASE UNCHANGED uploaded
    BY <2>1
  <2>2. ASSUME NEW o, NEW r, uploaded' = Assigned(uploaded, o, r), r.buffer = b,
               program.nodes[n].op # "output"
        PROVE  \A q \in DOMAIN uploaded' :
                \/ q \in DOMAIN uploaded /\ uploaded'[q] = uploaded[q]
                \/ uploaded'[q].buffer = b /\ ~Planned(n)' /\ program.nodes[n].op # "output"
    BY <2>2 DEF Assigned
  <2> QED
    BY <1>1, <2>1, <2>2
<1>7. v.buffer = b
  BY <1>1
<1>8. program.nodes[n].op = "output" => UNCHANGED uploaded
  OBVIOUS
<1> QED
  BY <1>2, <1>4, <1>5, <1>6, <1>7, <1>8, PlacedOn

\* A new allocation for a slot.
LEMMA PlacedNewSlot ==
    ASSUME GpuInv, ValueInv, NEW ops, AtNode(ops), node \notin DOMAIN values,
           UNCHANGED <<program, uploaded, errorBuffer>>, program.nodes[node].op # "output",
           NEW b, b \notin Live, b # NoBuffer,
           NEW v, values' = Assigned(values, node, v), v.buffer = b, v.size # 0,
           NEW slot, slot = program.nodes[node].slot, slot # 0, slot \notin DOMAIN slots,
           NEW r, r.buffer = b, slots' = Assigned(slots, slot, r)
    PROVE  Placed'
<1>1. Placed /\ BuffersHeld
  BY WalkFacts DEF GpuInv
<1>2. PICK n : n = node
  OBVIOUS
<1>3. /\ DOMAIN values' = DOMAIN values \cup {n} /\ values'[n] = v
      /\ \A i \in DOMAIN values : values'[i] = values[i] /\ i # n
  BY <1>2 DEF Assigned
<1>4. /\ DOMAIN slots' = DOMAIN slots \cup {slot} /\ slots'[slot] = r
      /\ \A s \in DOMAIN slots : slots'[s] = slots[s] /\ s # slot
  BY DEF Assigned
<1>5. /\ \A s \in DOMAIN slots : slots[s].buffer # b
      /\ errorBuffer # b /\ \A i \in DOMAIN values : values[i].buffer # b
      /\ \A o \in DOMAIN uploaded : uploaded[o].buffer # b
  BY <1>1 DEF BuffersHeld
<1>6. \A i \in DOMAIN values : Planned(i)' = Planned(i)
  BY <1>3 DEF Planned
<1>7. Planned(n)'
  BY <1>2, <1>3 DEF Planned
<1>8. SlotsApart'
  BY <1>1, <1>4, <1>5 DEF Placed, SlotsApart
<1>9. ValuesPlaced'
  <2> SUFFICES ASSUME NEW i \in DOMAIN values'
               PROVE  /\ Planned(i)' => program.nodes[i].slot \in DOMAIN slots'
                      /\ \A s \in DOMAIN slots' :
                            slots'[s].buffer = values'[i].buffer
                                <=> Planned(i)' /\ s = program.nodes[i].slot
    BY DEF ValuesPlaced
  <2>1. CASE i = n
    BY <1>2, <1>3, <1>4, <1>5, <1>7, <2>1
  <2>2. CASE i \in DOMAIN values
    <3>1. /\ Planned(i) => program.nodes[i].slot \in DOMAIN slots
          /\ \A s \in DOMAIN slots :
                slots[s].buffer = values[i].buffer <=> Planned(i) /\ s = program.nodes[i].slot
      BY <1>1, <2>2 DEF Placed, ValuesPlaced
    <3>2. slots'[slot].buffer # values'[i].buffer /\ (Planned(i) => program.nodes[i].slot # slot)
      BY <1>3, <1>4, <1>5, <2>2, <3>1
    <3> QED
      BY <1>3, <1>4, <1>6, <2>2, <3>1, <3>2
  <2> QED
    BY <1>3, <2>1, <2>2
<1>10. UploadsApart'
  BY <1>1, <1>4, <1>5 DEF Placed, UploadsApart
<1>11. ErrorApart'
  BY <1>1, <1>3, <1>4, <1>5 DEF Placed, ErrorApart
<1>12. OutputsApart'
  <2> SUFFICES ASSUME NEW i \in DOMAIN values', program.nodes[i].op = "output"
               PROVE  /\ values'[i].buffer # NoBuffer
                      /\ \A j \in DOMAIN values' : values'[j].buffer = values'[i].buffer => j = i
                      /\ \A o \in DOMAIN uploaded' : uploaded'[o].buffer # values'[i].buffer
    BY DEF OutputsApart
  <2>1. i \in DOMAIN values
    BY <1>2, <1>3
  <2>2. /\ values[i].buffer # NoBuffer /\ values'[i] = values[i]
        /\ \A j \in DOMAIN values : values[j].buffer = values[i].buffer => j = i
        /\ \A o \in DOMAIN uploaded : uploaded[o].buffer # values[i].buffer
        /\ values[i].buffer # v.buffer
    BY <1>1, <1>3, <1>5, <2>1 DEF Placed, OutputsApart
  <2> QED
    BY <1>3, <2>2
<1> QED
  BY <1>8, <1>9, <1>10, <1>11, <1>12 DEF Placed

-----------------------------------------------------------------------------
\* A new allocation is free.
LEMMA FreshIsFree ==
    ASSUME GpuInv, NEW b, b \notin Live, b # NoBuffer
    PROVE  Free(b)
  BY DEF GpuInv, BuffersHeld, Free

\* The buffer of the slot of a node: nothing reads the values it held any more.
LEMMA SlotIsFree ==
    ASSUME GpuInv, ValueInv, NEW ops, AtNode(ops),
           NEW slot, slot = program.nodes[node].slot, slot \in DOMAIN slots,
           program.nodes[node].op # "alias"
    PROVE  Free(slots[slot].buffer)
<1>1. /\ program \in Programs /\ Len(program.nodes) \in Nat /\ node \in 1..Len(program.nodes)
      /\ BuffersHeld /\ NoBuffer \notin Live /\ Placed /\ Sized
  BY WalkFacts
<1>2. slot # 0 /\ slots[slot].buffer \in Live
  BY <1>1 DEF Placed, SlotsApart, BuffersHeld
<1>3. ASSUME NEW i \in DOMAIN values, Awaited(i), values[i].buffer = slots[slot].buffer PROVE FALSE
  <2>1. slot = program.nodes[i].slot
    BY <1>1, <1>3 DEF Placed, ValuesPlaced
  <2>2. i < node /\ i \in 1..Len(program.nodes) /\ i \in NeededFrom(program, node)
    BY <1>1, <1>3 DEF Sized, Awaited, Settled
  <2>3. i \in 1..(node - 1)
    BY <1>1, <2>2
  <2>4. SlotWellPlanned(program, node)
    BY <1>1, NodesAre
  <2> QED
    BY <1>2, <2>1, <2>2, <2>3, <2>4 DEF SlotWellPlanned
<1>4. \A o \in DOMAIN uploaded : uploaded[o].buffer # slots[slot].buffer
  BY <1>1 DEF Placed, UploadsApart
<1>5. slots[slot].buffer # errorBuffer
  BY <1>1, <1>2 DEF Placed, ErrorApart
<1> QED
  BY <1>3, <1>4, <1>5 DEF Free

\* The memory the device will hold is the memory that is live.
LEMMA LeadsLive ==
    ASSUME GpuInv, NEW d, Leads(d)
    PROVE  DOMAIN d.memory = Live
<1>1. PICK D : Passes(D) /\ d = D[Len(stream)]
  BY DEF Leads
<1>2. Len(stream) \in Nat
  BY AppendFacts DEF GpuInv, StreamCounted
<1> QED
  BY <1>1, <1>2 DEF Passes

\* With a new allocation, or without.
Grows(d, w) ==
    \/ UNCHANGED memory /\ w = d
    \/ Allocate1 /\ w = Extended(d, Fresh1)

\* After a command, or none when there is nothing to transfer.
Onward(size, c, w, copies) == IF size = 0 THEN w ELSE Executed(c, w, copies)

\* What an allocation and a command leave of the memory.
LEMMA EffectOn ==
    ASSUME GpuInv, NEW d, Leads(d), NEW w, Grows(d, w),
           NEW size, NEW c, NEW copies, NEW e, e = Onward(size, c, w, copies)
    PROVE  /\ DOMAIN w.memory = Live' /\ Live \subseteq Live'
           /\ \A x \in Live : w.memory[x] = d.memory[x]
           /\ Allocate1 => w.memory[Fresh1] = NoContent /\ Fresh1 \in Live'
           /\ \A x \in Live : size = 0 \/ x \notin Touched(c) => e.memory[x] = d.memory[x]
<1>1. DOMAIN d.memory = Live
  BY LeadsLive
<1>2. /\ DOMAIN w.memory = Live' /\ Live \subseteq Live'
      /\ \A x \in Live : w.memory[x] = d.memory[x]
      /\ Allocate1 => w.memory[Fresh1] = NoContent /\ Fresh1 \in Live'
  <2>1. CASE Allocate1 /\ w = Extended(d, Fresh1)
    <3>1. PICK b : b = Fresh1
      OBVIOUS
    <3>2. b \notin Live /\ Live' = Live \cup {b}
      BY <2>1, <3>1, AllocatedFacts
    <3>3. w.memory = Assigned(d.memory, b, NoContent)
      BY <2>1, <3>1 DEF Extended
    <3>4. /\ DOMAIN w.memory = Live \cup {b} /\ w.memory[b] = NoContent
          /\ \A x \in Live : w.memory[x] = d.memory[x]
      BY <1>1, <3>2, <3>3 DEF Assigned
    <3> QED
      BY <3>1, <3>2, <3>4
  <2>2. CASE UNCHANGED memory /\ w = d
    <3>1. Live' = Live
      BY <2>2 DEF Live
    <3>2. ~Allocate1
      BY <3>1, AllocatedFacts
    <3> QED
      BY <1>1, <2>2, <3>1, <3>2
  <2> QED
    BY <2>1, <2>2 DEF Grows
<1>3. ASSUME NEW x \in Live, size # 0, x \notin Touched(c) PROVE e.memory[x] = d.memory[x]
  <2>1. e.memory = Written(c, w.memory, copies)
    BY <1>3 DEF Executed, Onward
  <2> QED
    BY <1>2, <1>3, <2>1, WrittenElsewhere
<1> QED
  BY <1>2, <1>3 DEF Onward

\* Where a step of the walk leads the device, and what else it has to show.
LEMMA WalkOn ==
    ASSUME GpuInv, ValueInv, NEW ops, AtNode(ops),
           UNCHANGED <<cells, phase, program, inputs, failure, broken, outputBytes, expected>>,
           errorHost' = FALSE, node' \in {node, node + 1},
           NEW d, Leads(d), NEW size, NEW c, Enqueue(size, c), c.kind # "error",
           NEW w, Grows(d, w),
           \A i \in DOMAIN staging : staging'[i] = staging[i],
           NEW e, e = Onward(size, c, w, staging'),
           Sized', Placed', Means(e)'
    PROVE  ValueInv'
<1>1. /\ phase = "submitting" /\ ~broken /\ Len(program.nodes) \in Nat
      /\ node \in 1..Len(program.nodes) /\ ~Past /\ Live \subseteq Buffer /\ Known
      /\ errorHost = FALSE
  BY WalkFacts
<1>2. CommandsHeld /\ StreamCounted
  BY DEF GpuInv
<1>3. Leads(e)'
  <2>1. UNCHANGED <<outputBytes, errorHost>>
    BY <1>1
  <2> QED
    BY <1>2, <2>1, LeadsOn DEF Grows, Onward
<1>4. Live' \subseteq Buffer
  BY <1>1, AllocatedFacts DEF Live, Grows
<1>5. Known'
  <2>1. Given' = Given
    BY MeaningStays
  <2>2. \A i \in DOMAIN inputs : (Described(inputs[i]) /\ Preflight(inputs[i]))'
    BY <1>1 DEF Known, Described, Preflight, Contiguous
  <2>3. node' \in 1..(Len(program.nodes) + 1)
    BY <1>1
  <2> QED
    BY <1>1, <2>1, <2>2, <2>3 DEF Known
<1>6. ErrorUnread'
  <2>1. \A i \in DOMAIN stream : stream[i].kind # "error"
    BY <1>1 DEF ValueInv, Running, ErrorUnread
  <2>2. \A i \in DOMAIN stream' : stream'[i].kind # "error"
    <3>1. CASE stream' = stream
      BY <2>1, <3>1
    <3>2. CASE stream' = Append(stream, c)
      BY <1>2, <2>1, <3>2, AppendFacts DEF StreamCounted
    <3> QED
      BY <3>1, <3>2 DEF Enqueue
  <2> QED
    BY <2>2 DEF ErrorUnread
<1>7. FailureKnown'
  BY <1>1 DEF ValueInv, FailureKnown, PublishedIsComputed
<1> QED
  BY <1>1, <1>3, <1>4, <1>5, <1>6, <1>7 DEF ValueInv, Running

\* Inputs of one object and one size read the same.
LEMMA SharedReads ==
    ASSUME Known, NEW i \in DOMAIN inputs, NEW j \in DOMAIN inputs,
           inputs[i].object = inputs[j].object,
           ElementCount(inputs[i].shape) = ElementCount(inputs[j].shape)
    PROVE  Given[i] = Given[j]
<1>1. /\ Described(inputs[i]) /\ Preflight(inputs[i]) /\ Described(inputs[j]) /\ Preflight(inputs[j])
  BY DEF Known
<1>2. LogicalValues(inputs[i]) = LogicalValues(inputs[j])
  BY <1>1, PreflightReads
<1> QED
  BY <1>2 DEF Given

\* An input is a list of its elements, and a node of its own.
LEMMA InputFacts ==
    ASSUME GpuInv, ValueInv, AtNode({"input", "bytes"})
    PROVE  /\ node \in DOMAIN inputs /\ Meaning[node] = Given[node]
           /\ Given[node] = LogicalValues(inputs[node]) /\ Lists(Given[node], InputSize)
           /\ program.nodes[node].slot = 0
<1>1. /\ program \in Programs /\ node \in 1..Len(program.nodes) /\ Known
      /\ program.nodes[node].op \in {"input", "bytes"}
  BY WalkFacts
<1>2. NodeWellFormed(program, node) /\ SlotWellPlanned(program, node)
  BY <1>1, NodesAre
<1>3. Len(program.nodes) \in Nat /\ node <= Arity(program)
  BY <1>1, <1>2, NodesAre DEF NodeWellFormed
<1>4. node \in DOMAIN inputs
  BY <1>1, <1>3 DEF Known
<1>5. Given[node] = LogicalValues(inputs[node])
  BY <1>4 DEF Given
<1>6. Lists(Given[node], InputSize)
  <2>1. Described(inputs[node]) /\ Preflight(inputs[node])
    BY <1>1, <1>4 DEF Known
  <2> QED
    BY <1>5, <2>1, PreflightReads DEF Lists, InputSize
<1> QED
  BY <1>1, <1>2, <1>4, <1>5, <1>6, MeaningIs DEF SlotWellPlanned

\* A list of no elements.
LEMMA NoElements ==
    ASSUME NEW content, Lists(content, 0)
    PROVE  content = NoContent
<1>1. content = [k \in 1..0 |-> content[k]] /\ 1..0 = {}
  BY DEF Lists
<1> QED
  BY <1>1 DEF NoContent

-----------------------------------------------------------------------------
\* UploadInput and UploadBytes: the host copy has the content of the input.
LEMMA UploadMeans ==
    ASSUME GpuInv, ValueInv, UploadInput \/ UploadBytes
    PROVE  ValueInv'
<1>1. /\ AtNode({"input", "bytes"}) /\ Allocate1 /\ Define(Fresh1, InputSize)
      /\ staging' = Append(staging, LogicalValues(inputs[node]))
      /\ Enqueue(InputSize, [kind |-> "upload", to |-> Fresh1, staged |-> Len(staging) + 1])
      /\ part' = 0 /\ node' = node + 1
      /\ UNCHANGED <<cells, phase, program, inputs, failure, broken, outputBytes, expected, slots,
                     errorBuffer, errorHost>>
      /\ \/ uploaded' = uploaded
         \/ uploaded' = Assigned(uploaded, UploadKey(node), [buffer |-> Fresh1, size |-> InputSize])
  BY DEF UploadInput, UploadBytes, AtNode, walkUnchanged, storageVars, NextNode
<1>2. /\ phase = "submitting" /\ ~broken /\ program \in Programs
      /\ node \in 1..Len(program.nodes) /\ Len(program.nodes) \in Nat
      /\ program.nodes[node].op \in {"input", "bytes"} /\ errorHost = FALSE /\ Known
      /\ \E d : Leads(d) /\ Means(d)
      /\ node \notin DOMAIN values
  <2>1. PICK ops : ops = {"input", "bytes"}
    OBVIOUS
  <2>2. AtNode(ops)
    BY <1>1, <2>1
  <2>3. program.nodes[node].op \in ops
    BY <2>2, WalkFacts
  <2> QED
    BY <2>1, <2>2, <2>3, WalkFacts
<1>3. /\ node \in DOMAIN inputs /\ Meaning[node] = Given[node]
      /\ Given[node] = LogicalValues(inputs[node]) /\ Lists(Given[node], InputSize)
      /\ program.nodes[node].slot = 0
  BY <1>1, InputFacts
<1>4. PICK n, b, size : n = node /\ b = Fresh1 /\ size = InputSize
  OBVIOUS
<1>5. PICK c : c = [kind |-> "upload", to |-> b, staged |-> Len(staging) + 1]
  OBVIOUS
<1>6. PICK d : Leads(d) /\ Means(d)
  BY <1>2
<1>7. PICK w : w = Extended(d, Fresh1)
  OBVIOUS
<1>8. PICK e : e = Onward(size, c, w, staging')
  OBVIOUS
<1>9. PICK v : v = [buffer |-> b, size |-> size, scalar |-> NoContent]
  OBVIOUS
<1>10. values' = Assigned(values, node, v)
  BY <1>1, <1>4, <1>9 DEF Define
<1>11. /\ DOMAIN values' = DOMAIN values \cup {n} /\ values'[n] = v
       /\ \A i \in DOMAIN values : i # n => values'[i] = values[i]
  BY <1>4, <1>10 DEF Assigned
<1>12. b \notin Live /\ b # NoBuffer /\ Free(b)
  BY <1>1, <1>4, AllocatedFacts, FreshIsFree
<1>13. /\ DOMAIN w.memory = Live' /\ b \in Live' /\ w.memory[b] = NoContent
       /\ \A x \in Live : size = 0 \/ x \notin Touched(c) => e.memory[x] = d.memory[x]
  <2>1. Grows(d, w) /\ Allocate1
    BY <1>1, <1>7 DEF Grows
  <2>2. /\ DOMAIN w.memory = Live' /\ w.memory[Fresh1] = NoContent /\ Fresh1 \in Live'
        /\ \A x \in Live : size = 0 \/ x \notin Touched(c) => e.memory[x] = d.memory[x]
    BY <1>6, <1>8, <2>1, EffectOn
  <2> QED
    BY <1>4, <2>2
<1>14. \A x \in Live : e.memory[x] = d.memory[x]
  <2>1. Touched(c) = {b}
    BY <1>5 DEF Touched
  <2> QED
    BY <1>12, <1>13, <2>1
<1>15. staging'[Len(staging) + 1] = Given[n] /\ \A i \in DOMAIN staging : staging'[i] = staging[i]
  BY <1>1, <1>3, <1>4, AppendFacts DEF GpuInv, StreamCounted
<1>16. e.memory[b] = Given[n]
  <2>1. CASE size = 0
    BY <1>3, <1>4, <1>8, <1>13, <2>1, NoElements DEF Onward
  <2>2. CASE size # 0
    BY <1>5, <1>8, <1>13, <1>15, <2>2, UploadWrites DEF Onward
  <2> QED
    BY <2>1, <2>2
<1>17. Given' = Given /\ Meaning' = Meaning
  BY <1>1, MeaningStays
<1>18. Computed(e)'
  <2>1. InMemory(e, n)'
    BY <1>3, <1>4, <1>9, <1>11, <1>12, <1>16, <1>17 DEF InMemory
  <2>2. Elsewhere(d, e, b)
    BY <1>14 DEF Elsewhere
  <2>3. program.nodes[node].op # "kernel" /\ Computed(d)
    BY <1>2, <1>6 DEF Means
  <2> QED
    BY <1>1, <1>4, <1>11, <1>12, <1>17, <2>1, <2>2, <2>3, ComputedOn
<1>19. Shared(e)'
  <2>1. Shared(d)
    BY <1>6 DEF Means
  <2>2. CASE uploaded' = uploaded
    <3>1. Elsewhere(d, e, b)
      BY <1>14 DEF Elsewhere
    <3> QED
      BY <1>1, <1>12, <1>17, <2>1, <2>2, <3>1, SharedOn
  <2>3. CASE uploaded' = Assigned(uploaded, UploadKey(node), [buffer |-> Fresh1, size |-> InputSize])
    <3>1. PICK key : key = inputs[n].object
      OBVIOUS
    <3>2. PICK r : r = [buffer |-> b, size |-> size]
      OBVIOUS
    <3>3. /\ DOMAIN uploaded' = DOMAIN uploaded \cup {key} /\ uploaded'[key] = r
          /\ \A o \in DOMAIN uploaded : o # key => uploaded'[o] = uploaded[o]
      BY <1>4, <2>3, <3>1, <3>2 DEF Assigned, UploadKey
    <3>4. SUFFICES ASSUME NEW o \in DOMAIN uploaded', NEW i \in DOMAIN inputs,
                          inputs[i].object = o, ElementCount(inputs[i].shape) = uploaded'[o].size
                   PROVE  e.memory[uploaded'[o].buffer] = Given[i]
      BY <1>1, <1>17 DEF Shared
    <3>5. CASE o = key
      <4>1. ElementCount(inputs[i].shape) = ElementCount(inputs[n].shape)
        BY <1>4, <3>2, <3>3, <3>4, <3>5 DEF InputSize
      <4>2. Given[i] = Given[n]
        BY <1>2, <1>3, <1>4, <3>1, <3>4, <3>5, <4>1, SharedReads
      <4> QED
        BY <1>16, <3>2, <3>3, <3>5, <4>2
    <3>6. CASE o # key
      <4>1. o \in DOMAIN uploaded /\ uploaded'[o] = uploaded[o]
        BY <3>3, <3>6
      <4>2. uploaded[o].buffer \in Live
        BY <4>1 DEF GpuInv, BuffersHeld
      <4> QED
        BY <1>14, <2>1, <3>4, <4>1, <4>2 DEF Shared
    <3> QED
      BY <3>5, <3>6
  <2> QED
    BY <1>1, <2>2, <2>3
<1>20. Told(e)'
  <2>1. Told(d) /\ program.nodes[node].op # "group"
    BY <1>2, <1>6 DEF Means
  <2> QED
    BY <1>1, <1>12, <1>14, <1>17, <2>1, ToldOn
<1>21. Means(e)'
  BY <1>1, <1>18, <1>19, <1>20, NodeDone
<1>22. Sized'
  BY <1>1, <1>3, <1>4, <1>9, <1>11, <1>17, SizedOn
<1>23. Placed'
  <2>1. ~Planned(n)'
    BY <1>1, <1>3, <1>4 DEF Planned
  <2>2. v.buffer = Fresh1
    BY <1>4, <1>9
  <2>3. \/ UNCHANGED uploaded
        \/ /\ \E o, r : uploaded' = Assigned(uploaded, o, r) /\ r.buffer = Fresh1
           /\ program.nodes[n].op # "output"
    <3>1. CASE uploaded' = uploaded
      BY <3>1
    <3>2. CASE uploaded' = Assigned(uploaded, UploadKey(node), [buffer |-> Fresh1, size |-> InputSize])
      <4>1. PICK r : r = [buffer |-> Fresh1, size |-> InputSize]
        OBVIOUS
      <4> QED
        BY <1>2, <1>4, <3>2, <4>1
    <3> QED
      BY <1>1, <3>1, <3>2
  <2> QED
    BY <1>1, <1>2, <1>4, <1>10, <2>1, <2>2, <2>3, PlacedFresh
<1>24. c.kind # "error" /\ Enqueue(size, c)
  BY <1>1, <1>4, <1>5
<1>25. Grows(d, w)
  BY <1>1, <1>7 DEF Grows
<1>26. errorHost' = FALSE /\ node' \in {node, node + 1}
  BY <1>1, <1>2
<1> QED
  BY <1>1, <1>6, <1>8, <1>15, <1>21, <1>22, <1>23, <1>24, <1>25, <1>26, WalkOn

\* A step that gives a node its value and writes it to a free buffer.
LEMMA DefinesOn ==
    ASSUME GpuInv, ValueInv, NEW ops, AtNode(ops), program.nodes[node].op # "kernel",
           UNCHANGED <<cells, phase, program, inputs, failure, broken, outputBytes, expected,
                       uploaded, errorHost>>,
           part' = 0, node' = node + 1,
           NEW d, Leads(d), Means(d), NEW w, Grows(d, w),
           NEW size, NEW c, Enqueue(size, c), c.kind # "error",
           \A i \in DOMAIN staging : staging'[i] = staging[i],
           NEW e, e = Onward(size, c, w, staging'),
           NEW b, Free(b), \A x \in Touched(c) : x \in {b, errorBuffer},
           DOMAIN values' = DOMAIN values \cup {node},
           \A i \in DOMAIN values : i # node => values'[i] = values[i],
           NEW n, n = node, Awaited(n)' => InMemory(e, n)', Lists(Meaning[n], values'[n].size),
           Told(e)', Placed'
    PROVE  ValueInv'
<1>1. errorHost' = FALSE /\ node' \in {node, node + 1}
  BY WalkFacts
<1>2. Given' = Given /\ Meaning' = Meaning
  BY MeaningStays
<1>3. \A x \in Live : size = 0 \/ x \notin Touched(c) => e.memory[x] = d.memory[x]
  BY EffectOn
<1>4. Elsewhere(d, e, b)
  BY <1>3 DEF Elsewhere
<1>5. Computed(e)'
  <2>1. Computed(d)
    BY DEF Means
  <2> QED
    BY <1>2, <1>4, <2>1, ComputedOn
<1>6. Shared(e)'
  <2>1. Shared(d)
    BY DEF Means
  <2> QED
    BY <1>2, <1>4, <2>1, SharedOn
<1>7. Means(e)'
  BY <1>5, <1>6, NodeDone
<1>8. Sized'
  BY <1>2, SizedOn
<1> QED
  BY <1>1, <1>7, <1>8, WalkOn

\* The same of a node that cannot trap.
LEMMA PlainOn ==
    ASSUME GpuInv, ValueInv, NEW ops, AtNode(ops),
           program.nodes[node].op \notin {"kernel", "group"},
           UNCHANGED <<cells, phase, program, inputs, failure, broken, outputBytes, expected,
                       uploaded, errorHost, errorBuffer>>,
           part' = 0, node' = node + 1,
           NEW d, Leads(d), Means(d), NEW w, Grows(d, w),
           NEW size, NEW c, Enqueue(size, c), c.kind # "error",
           \A i \in DOMAIN staging : staging'[i] = staging[i],
           NEW e, e = Onward(size, c, w, staging'),
           NEW b, Free(b), \A x \in Touched(c) : x = b,
           DOMAIN values' = DOMAIN values \cup {node},
           \A i \in DOMAIN values : i # node => values'[i] = values[i],
           NEW n, n = node, Awaited(n)' => InMemory(e, n)', Lists(Meaning[n], values'[n].size),
           Placed'
    PROVE  ValueInv'
<1>1. Meaning' = Meaning
  BY MeaningStays
<1>2. \A x \in Live : size = 0 \/ x \notin Touched(c) => e.memory[x] = d.memory[x]
  BY EffectOn
<1>3. Told(d)
  BY DEF Means
<1>4. \A x \in Live : x # b => e.memory[x] = d.memory[x]
  BY <1>2
<1>5. Told(e)'
  BY <1>1, <1>3, <1>4, ToldOn
<1> QED
  BY <1>5, DefinesOn

\* A step that gives a node its value and transfers nothing.
LEMMA QuietOn ==
    ASSUME GpuInv, ValueInv, NEW ops, AtNode(ops),
           program.nodes[node].op \notin {"kernel", "group"},
           UNCHANGED <<cells, phase, program, inputs, failure, broken, outputBytes, expected,
                       uploaded, errorHost, errorBuffer, stream, counted, staging>>,
           part' = 0, node' = node + 1,
           NEW d, Leads(d), Means(d), NEW e, Grows(d, e),
           DOMAIN values' = DOMAIN values \cup {node},
           \A i \in DOMAIN values : i # node => values'[i] = values[i],
           NEW n, n = node, Awaited(n)' => InMemory(e, n)', Lists(Meaning[n], values'[n].size),
           Placed'
    PROVE  ValueInv'
<1>1. PICK size, c, b : size = 0 /\ c = [kind |-> "none"] /\ b = 9
  OBVIOUS
<1>2. Enqueue(size, c) /\ c.kind # "error" /\ e = Onward(size, c, e, staging')
  BY <1>1 DEF Enqueue, Onward
<1>3. Touched(c) = {}
  BY <1>1 DEF Touched
<1>4. Free(b)
  <2>1. Live \subseteq Buffer
    BY WalkFacts
  <2>2. b \notin Live /\ b # NoBuffer
    BY <1>1, <2>1 DEF Buffer, NoBuffer
  <2> QED
    BY <2>2, FreshIsFree
<1>5. \A x \in Touched(c) : x = b
  BY <1>3
<1> QED
  BY <1>2, <1>4, <1>5, PlainOn

-----------------------------------------------------------------------------
\* An operand of a node is there.
LEMMA OperandIs ==
    ASSUME GpuInv, ValueInv, NEW ops, AtNode(ops), NEW d, Leads(d), Means(d), NEW k, Defined(k)
    PROVE  LET j == program.nodes[node].deps[k] IN
           /\ j \in DOMAIN values /\ j \in 1..(node - 1) /\ Dep(k) = values[j]
           /\ program.nodes[j].op # "output" /\ InMemory(d, j) /\ Lists(Meaning[j], Dep(k).size)
           /\ OnDevice(k) => Dep(k).buffer \in Live /\ d.memory[Dep(k).buffer] = Meaning[j]
<1>1. /\ program \in Programs /\ Len(program.nodes) \in Nat /\ node \in 1..Len(program.nodes)
      /\ node \in DOMAIN program.nodes /\ Sized /\ BuffersHeld
  BY WalkFacts
<1>2. PICK j : j = program.nodes[node].deps[k]
  OBVIOUS
<1>3. k \in DOMAIN program.nodes[node].deps /\ j \in DOMAIN values /\ Dep(k) = values[j]
  BY <1>2 DEF Defined, Dep
<1>4. j \in 1..(node - 1)
  BY <1>1, <1>2, <1>3, NodesAre
<1>5. program.nodes[j].op # "output"
  <2>1. j \in 1..Len(program.nodes)
    BY <1>1, <1>4
  <2>2. RawWellFormed(program, j)
    BY <1>1, <2>1, NodesAre
  <2>3. j \in Range(program.nodes[node].deps)
    BY <1>2, <1>3 DEF Range
  <2> QED
    BY <1>1, <2>2, <2>3 DEF RawWellFormed
<1>6. Awaited(j)
  <2>1. j \in NeededFrom(program, node)
    BY <1>1, <1>2, <1>3, NeededFacts
  <2> QED
    BY <1>1, <1>4, <1>5, <2>1 DEF Awaited, Settled
<1>7. InMemory(d, j)
  BY <1>3, <1>6 DEF Means, Computed
<1>8. Lists(Meaning[j], Dep(k).size)
  BY <1>1, <1>3 DEF Sized
<1>9. OnDevice(k) => Dep(k).buffer \in Live /\ d.memory[Dep(k).buffer] = Meaning[j]
  BY <1>1, <1>3, <1>7 DEF OnDevice, BuffersHeld, InMemory
<1> QED
  BY <1>2, <1>3, <1>4, <1>5, <1>7, <1>8, <1>9

\* An entry of a map.
LEMMA DefinesAt ==
    ASSUME NEW v, NEW n, n = node, values' = Assigned(values, n, v)
    PROVE  /\ DOMAIN values' = DOMAIN values \cup {node} /\ values'[n] = v
           /\ \A i \in DOMAIN values : i # node => values'[i] = values[i]
  BY DEF Assigned

\* ShareInput: the buffer has the content of the object, whatever the tensor.
LEMMA ShareMeans ==
    ASSUME GpuInv, ValueInv, ShareInput
    PROVE  ValueInv'
<1>1. PICK n, key, b : n = node /\ key = UploadKey(n) /\ b = uploaded[key].buffer
  OBVIOUS
<1>2. PICK v : v = [buffer |-> b, size |-> InputSize, scalar |-> NoContent]
  OBVIOUS
<1>3. PICK ops : ops = {"input", "bytes"}
  OBVIOUS
<1>4. /\ AtNode(ops) /\ key \in DOMAIN uploaded /\ uploaded[key].size = InputSize
      /\ values' = Assigned(values, n, v) /\ part' = 0 /\ node' = node + 1
      /\ UNCHANGED <<cells, phase, program, inputs, failure, broken, outputBytes, expected,
                     uploaded, errorHost, errorBuffer, stream, counted, staging, slots, memory>>
  BY <1>1, <1>2, <1>3 DEF ShareInput, AtNode, walkUnchanged, storageVars, NextNode, Define
<1>5. /\ node \in 1..Len(program.nodes) /\ program.nodes[node].op \in ops
      /\ BuffersHeld /\ NoBuffer \notin Live /\ Placed /\ \E d : Leads(d) /\ Means(d)
      /\ program.nodes[node].op # "stack" => part = 0
      /\ part = 0 => node \notin DOMAIN values
  BY <1>4, WalkFacts
<1>6. program.nodes[n].op \in {"input", "bytes"} /\ node \notin DOMAIN values
  BY <1>1, <1>3, <1>5
<1>7. /\ n \in DOMAIN inputs /\ Meaning[n] = Given[n] /\ Lists(Given[n], InputSize)
      /\ program.nodes[n].slot = 0
  BY <1>1, <1>3, <1>4, InputFacts
<1>8. PICK d : Leads(d) /\ Means(d)
  BY <1>5
<1>9. d.memory[b] = Meaning[n]
  <2>1. inputs[n].object = key /\ ElementCount(inputs[n].shape) = uploaded[key].size
    BY <1>1, <1>4 DEF UploadKey, InputSize
  <2> QED
    BY <1>1, <1>4, <1>7, <1>8, <2>1 DEF Means, Shared
<1>10. b \in Live /\ b # NoBuffer
  BY <1>1, <1>4, <1>5 DEF BuffersHeld
<1>11. /\ DOMAIN values' = DOMAIN values \cup {node} /\ values'[n] = v
       /\ \A i \in DOMAIN values : i # node => values'[i] = values[i]
  BY <1>1, <1>4, DefinesAt
<1>12. InMemory(d, n)'
  <2>1. Meaning' = Meaning
    BY <1>4, MeaningStays
  <2> QED
    BY <1>2, <1>9, <1>10, <1>11, <2>1 DEF InMemory
<1>13. Lists(Meaning[n], values'[n].size)
  BY <1>2, <1>7, <1>11
<1>14. Placed'
  <2>1. ~Planned(n)'
    BY <1>4, <1>7 DEF Planned
  <2>2. \A s \in DOMAIN slots : slots[s].buffer # v.buffer
    BY <1>1, <1>2, <1>4, <1>5 DEF Placed, UploadsApart
  <2>3. errorBuffer # NoBuffer => v.buffer # errorBuffer
    BY <1>1, <1>2, <1>4, <1>5 DEF Placed, ErrorApart
  <2>4. \A i \in DOMAIN values : program.nodes[i].op = "output" => values[i].buffer # v.buffer
    BY <1>1, <1>2, <1>4, <1>5 DEF Placed, OutputsApart
  <2>5. program.nodes[n].op # "output"
    BY <1>6
  <2> QED
    BY <1>1, <1>4, <1>6, <2>1, <2>2, <2>3, <2>4, <2>5, PlacedOn
<1>15. Grows(d, d)
  BY <1>4 DEF Grows
<1>16. program.nodes[node].op \notin {"kernel", "group"}
  BY <1>1, <1>6
<1> QED
  BY <1>1, <1>4, <1>8, <1>11, <1>12, <1>13, <1>14, <1>15, <1>16, QuietOn

\* DefineScalar: the value is the host's.
LEMMA ScalarMeans ==
    ASSUME GpuInv, ValueInv, DefineScalar
    PROVE  ValueInv'
<1>1. PICK n, v, ops : /\ n = node /\ ops = {"integer"}
                       /\ v = [buffer |-> NoBuffer, size |-> 1, scalar |-> program.nodes[n].content]
  OBVIOUS
<1>2. /\ AtNode(ops) /\ values' = Assigned(values, n, v) /\ part' = 0 /\ node' = node + 1
      /\ UNCHANGED <<cells, phase, program, inputs, failure, broken, outputBytes, expected,
                     uploaded, errorHost, errorBuffer, stream, counted, staging, slots, memory>>
  BY <1>1 DEF DefineScalar, AtNode, walkUnchanged, storageVars, NextNode
<1>3. /\ program \in Programs /\ node \in 1..Len(program.nodes) /\ program.nodes[node].op \in ops
      /\ BuffersHeld /\ NoBuffer \notin Live /\ Placed /\ \E d : Leads(d) /\ Means(d)
      /\ program.nodes[node].op # "stack" => part = 0
      /\ part = 0 => node \notin DOMAIN values
  BY <1>2, WalkFacts
<1>4. program.nodes[n].op = "integer" /\ node \notin DOMAIN values
  BY <1>1, <1>3
<1>5. NodeWellFormed(program, n) /\ SlotWellPlanned(program, n)
  BY <1>1, <1>3, NodesAre
<1>6. Meaning[n] = program.nodes[n].content
  BY <1>1, <1>3, <1>4, MeaningIs DEF Apply
<1>7. Lists(Meaning[n], 1)
  <2>1. program.nodes[n].content \in Seq(Int) /\ Len(program.nodes[n].content) = 1
    BY <1>4, <1>5 DEF NodeWellFormed
  <2> QED
    BY <1>6, <2>1 DEF Lists
<1>8. PICK d : Leads(d) /\ Means(d)
  BY <1>3
<1>9. /\ DOMAIN values' = DOMAIN values \cup {node} /\ values'[n] = v
      /\ \A i \in DOMAIN values : i # node => values'[i] = values[i]
  BY <1>1, <1>2, DefinesAt
<1>10. InMemory(d, n)'
  <2>1. Meaning' = Meaning
    BY <1>2, MeaningStays
  <2> QED
    BY <1>1, <1>6, <1>9, <2>1 DEF InMemory
<1>11. Lists(Meaning[n], values'[n].size)
  BY <1>1, <1>7, <1>9
<1>12. Placed'
  <2>1. ~Planned(n)'
    BY <1>1, <1>9 DEF Planned
  <2>2. \A s \in DOMAIN slots : slots[s].buffer # v.buffer
    BY <1>1, <1>3 DEF BuffersHeld
  <2>3. errorBuffer # NoBuffer => v.buffer # errorBuffer
    BY <1>1
  <2>4. \A i \in DOMAIN values : program.nodes[i].op = "output" => values[i].buffer # v.buffer
    BY <1>1, <1>3 DEF Placed, OutputsApart
  <2>5. program.nodes[n].op # "output"
    BY <1>4
  <2> QED
    BY <1>1, <1>2, <1>4, <2>1, <2>2, <2>3, <2>4, <2>5, PlacedOn
<1>13. Grows(d, d)
  BY <1>2 DEF Grows
<1>14. program.nodes[node].op \notin {"kernel", "group"}
  BY <1>1, <1>4
<1> QED
  BY <1>1, <1>2, <1>8, <1>9, <1>10, <1>11, <1>12, <1>13, <1>14, QuietOn

\* DefineAlias: the value of its root, in the slot of its root.
LEMMA AliasMeans ==
    ASSUME GpuInv, ValueInv, DefineAlias
    PROVE  ValueInv'
<1>1. PICK n, v, j, ops : n = node /\ ops = {"alias"} /\ v = Dep(1) /\ j = program.nodes[n].deps[1]
  OBVIOUS
<1>2. /\ AtNode(ops) /\ Defined(1) /\ values' = Assigned(values, n, v)
      /\ part' = 0 /\ node' = node + 1
      /\ UNCHANGED <<cells, phase, program, inputs, failure, broken, outputBytes, expected,
                     uploaded, errorHost, errorBuffer, stream, counted, staging, slots, memory>>
  BY <1>1 DEF DefineAlias, AtNode, walkUnchanged, storageVars, NextNode
<1>3. /\ program \in Programs /\ node \in 1..Len(program.nodes) /\ program.nodes[node].op \in ops
      /\ BuffersHeld /\ NoBuffer \notin Live /\ Placed /\ \E d : Leads(d) /\ Means(d)
      /\ program.nodes[node].op # "stack" => part = 0
      /\ part = 0 => node \notin DOMAIN values
  BY <1>2, WalkFacts
<1>4. program.nodes[n].op = "alias" /\ node \notin DOMAIN values
  BY <1>1, <1>3
<1>5. SlotWellPlanned(program, n)
  BY <1>1, <1>3, NodesAre
<1>6. program.nodes[n].slot = program.nodes[j].slot
  BY <1>1, <1>4, <1>5 DEF SlotWellPlanned
<1>7. PICK d : Leads(d) /\ Means(d)
  BY <1>3
<1>8. /\ j \in DOMAIN values /\ v = values[j] /\ program.nodes[j].op # "output"
      /\ InMemory(d, j) /\ Lists(Meaning[j], v.size)
  BY <1>1, <1>2, <1>7, OperandIs
<1>9. Meaning[n] = Meaning[j]
  <2>1. Meaning[n] = Operands(program.nodes[n], Meaning)[1]
    BY <1>1, <1>3, <1>4, MeaningIs DEF Apply
  <2>2. 1 \in DOMAIN program.nodes[n].deps
    BY <1>1, <1>2 DEF Defined
  <2> QED
    BY <1>1, <2>1, <2>2 DEF Operands
<1>10. /\ DOMAIN values' = DOMAIN values \cup {node} /\ values'[n] = v
       /\ \A i \in DOMAIN values : i # node => values'[i] = values[i]
  BY <1>1, <1>2, DefinesAt
<1>11. InMemory(d, n)'
  <2>1. Meaning' = Meaning
    BY <1>2, MeaningStays
  <2> QED
    BY <1>8, <1>9, <1>10, <2>1 DEF InMemory
<1>12. Lists(Meaning[n], values'[n].size)
  BY <1>8, <1>9, <1>10
<1>13. Placed'
  <2>1. Planned(n)' = Planned(j)
    BY <1>2, <1>6, <1>8, <1>10 DEF Planned
  <2>2. /\ Planned(n)' => program.nodes[n].slot \in DOMAIN slots
        /\ \A s \in DOMAIN slots :
                slots[s].buffer = v.buffer <=> Planned(n)' /\ s = program.nodes[n].slot
    BY <1>3, <1>6, <1>8, <2>1 DEF Placed, ValuesPlaced
  <2>3. errorBuffer # NoBuffer => v.buffer # errorBuffer
    BY <1>3, <1>8 DEF Placed, ErrorApart
  <2>4. \A i \in DOMAIN values : program.nodes[i].op = "output" => values[i].buffer # v.buffer
    BY <1>3, <1>8 DEF Placed, OutputsApart
  <2>5. program.nodes[n].op # "output"
    BY <1>4
  <2> QED
    BY <1>1, <1>2, <1>4, <2>2, <2>3, <2>4, <2>5, PlacedOn
<1>14. Grows(d, d)
  BY <1>2 DEF Grows
<1>15. program.nodes[node].op \notin {"kernel", "group"}
  BY <1>1, <1>4
<1> QED
  BY <1>1, <1>2, <1>7, <1>10, <1>11, <1>12, <1>13, <1>14, <1>15, QuietOn

\* A sum is as long as its first operand.
LEMMA SumLists ==
    ASSUME NEW contents, NEW size, Lists(contents[1], size)
    PROVE  Lists(AddAll(contents), size)
<1>1. DOMAIN contents[1] = 1..size
  BY DEF Lists
<1> QED
  BY <1>1 DEF Lists, AddAll

\* AllocateOutput: what has elements waits for the kernel.
LEMMA OutputMeans ==
    ASSUME GpuInv, ValueInv, AllocateOutput
    PROVE  ValueInv'
<1>1. PICK n, v, j, ops : /\ n = node /\ ops = {"output"} /\ j = program.nodes[n].deps[1]
                          /\ v = [buffer |-> Fresh1, size |-> Dep(1).size, scalar |-> NoContent]
  OBVIOUS
<1>2. /\ AtNode(ops) /\ OnDevice(1) /\ Allocate1 /\ values' = Assigned(values, n, v)
      /\ part' = 0 /\ node' = node + 1
      /\ UNCHANGED <<cells, phase, program, inputs, failure, broken, outputBytes, expected,
                     uploaded, errorHost, errorBuffer, stream, counted, staging, slots>>
  BY <1>1 DEF AllocateOutput, AtNode, walkUnchanged, storageVars, NextNode, Define
<1>3. /\ program \in Programs /\ node \in 1..Len(program.nodes) /\ program.nodes[node].op \in ops
      /\ Len(program.nodes) \in Nat /\ \E d : Leads(d) /\ Means(d)
      /\ program.nodes[node].op # "stack" => part = 0
      /\ part = 0 => node \notin DOMAIN values
  BY <1>2, WalkFacts
<1>4. program.nodes[n].op = "output" /\ node \notin DOMAIN values
  BY <1>1, <1>3
<1>5. SlotWellPlanned(program, n) /\ RawWellFormed(program, n)
  BY <1>1, <1>3, NodesAre
<1>6. PICK d : Leads(d) /\ Means(d)
  BY <1>3
<1>7. Lists(Meaning[n], v.size)
  <2>1. Defined(1)
    BY <1>2 DEF OnDevice
  <2>2. Lists(Meaning[j], v.size)
    BY <1>1, <1>2, <1>6, <2>1, OperandIs
  <2>3. Meaning[n] = AddAll(Operands(program.nodes[n], Meaning))
    BY <1>1, <1>3, <1>4, MeaningIs DEF Apply
  <2>4. Operands(program.nodes[n], Meaning)[1] = Meaning[j]
    BY <1>1, <2>1 DEF Operands, Defined
  <2> QED
    BY <2>2, <2>3, <2>4, SumLists
<1>8. /\ DOMAIN values' = DOMAIN values \cup {node} /\ values'[n] = v
      /\ \A i \in DOMAIN values : i # node => values'[i] = values[i]
  BY <1>1, <1>2, DefinesAt
<1>9. PICK e : e = Extended(d, Fresh1)
  OBVIOUS
<1>10. Grows(d, e)
  BY <1>2, <1>9 DEF Grows
<1>11. Meaning' = Meaning
  BY <1>2, MeaningStays
<1>12. Awaited(n)' => InMemory(e, n)'
  <2>1. CASE v.size = 0
    <3>1. Meaning[n] = NoContent
      BY <1>7, <2>1, NoElements
    <3>2. e.memory[Fresh1] = NoContent
      BY <1>9 DEF Extended, Assigned
    <3>3. v.buffer = Fresh1
      BY <1>1
    <3>4. InMemory(e, n)'
      BY <1>2, <1>8, <1>11, <3>1, <3>2, <3>3, AllocatedFacts DEF InMemory
    <3> QED
      BY <3>4
  <2>2. CASE v.size # 0
    <3>1. program.nodes[Len(program.nodes)].op = "kernel"
      BY <1>4, <1>5 DEF RawWellFormed
    <3>2. n # Len(program.nodes)
      BY <1>4, <3>1
    <3>3. ~Past'
      BY <1>1, <1>2, <1>3, <3>2 DEF Past
    <3> QED
      BY <1>2, <1>4, <1>8, <2>2, <3>3 DEF Awaited, Settled
  <2> QED
    BY <2>1, <2>2
<1>13. Placed'
  <2>1. ~Planned(n)'
    BY <1>2, <1>4, <1>5 DEF Planned, SlotWellPlanned
  <2>2. v.buffer = Fresh1
    BY <1>1
  <2> QED
    BY <1>1, <1>2, <1>4, <2>1, <2>2, PlacedFresh
<1>14. program.nodes[node].op \notin {"kernel", "group"}
  BY <1>1, <1>4
<1>15. Lists(Meaning[n], values'[n].size)
  BY <1>7, <1>8
<1> QED
  BY <1>1, <1>2, <1>6, <1>8, <1>10, <1>12, <1>13, <1>14, <1>15, QuietOn

\* Where a node's value goes: the slot planned for it, or an allocation of its own.
LEMMA PlannedOn ==
    ASSUME GpuInv, ValueInv, NEW ops, AtNode(ops), node \notin DOMAIN values,
           program.nodes[node].op \notin {"alias", "output"},
           UNCHANGED <<program, uploaded, errorBuffer>>,
           NEW b, NEW size, PlannedAllocation(b, size),
           NEW v, v.buffer = b, v.size = size, values' = Assigned(values, node, v),
           NEW d, Leads(d)
    PROVE  /\ Placed' /\ Free(b) /\ b \in Live' /\ b # NoBuffer
           /\ \E w : Grows(d, w) /\ (size = 0 => w.memory[b] = NoContent)
<1>1. PICK n, slot : n = node /\ slot = program.nodes[n].slot
  OBVIOUS
<1>2. /\ BuffersHeld /\ NoBuffer \notin Live /\ Placed
  BY WalkFacts
<1>3. /\ DOMAIN values' = DOMAIN values \cup {n} /\ values'[n] = v
  BY <1>1 DEF Assigned
<1>4. CASE /\ size # 0 /\ slot \in DOMAIN slots
           /\ slots[slot] = [buffer |-> b, size |-> size]
           /\ UNCHANGED <<memory, slots>>
  <2>1. slots[slot].buffer = b
    BY <1>4
  <2>2. Free(b) /\ b \in Live /\ slot # 0
    BY <1>1, <1>2, <1>4, <2>1, SlotIsFree DEF BuffersHeld, Placed, SlotsApart
  <2>3. b # NoBuffer /\ Live' = Live
    BY <1>2, <1>4, <2>2 DEF Live
  <2>4. Planned(n)'
    BY <1>1, <1>3, <1>4, <2>2, <2>3 DEF Planned
  <2>5. Placed'
    <3>1. \A s \in DOMAIN slots :
                slots[s].buffer = v.buffer <=> Planned(n)' /\ s = program.nodes[n].slot
      BY <1>1, <1>2, <1>4, <2>1, <2>4 DEF Placed, SlotsApart
    <3>2. errorBuffer # NoBuffer => v.buffer # errorBuffer
      BY <2>2 DEF Free
    <3>3. \A i \in DOMAIN values : program.nodes[i].op = "output" => values[i].buffer # v.buffer
      <4> SUFFICES ASSUME NEW i \in DOMAIN values, program.nodes[i].op = "output",
                          values[i].buffer = slots[slot].buffer
                   PROVE  FALSE
        BY <2>1
      <4>1. Planned(i)
        BY <1>2, <1>4 DEF Placed, ValuesPlaced
      <4>2. /\ program \in Programs /\ i \in 1..Len(program.nodes)
        BY WalkFacts DEF Sized
      <4>3. SlotWellPlanned(program, i)
        BY <4>2, NodesAre
      <4> QED
        BY <4>1, <4>3 DEF Planned, SlotWellPlanned
    <3>4. program.nodes[n].op # "output"
      BY <1>1
    <3> QED
      BY <1>1, <1>4, <3>1, <3>2, <3>3, <3>4, PlacedOn
  <2>6. Grows(d, d)
    BY <1>4 DEF Grows
  <2> QED
    BY <1>4, <2>2, <2>3, <2>5, <2>6
<1>5. ASSUME b = Fresh1, Allocate1,
             \/ size = 0 /\ slots' = slots
             \/ /\ size # 0 /\ slot # 0 /\ slot \notin DOMAIN slots
                /\ slots' = Assigned(slots, slot, [buffer |-> b, size |-> size])
      PROVE  Placed' /\ Free(b) /\ b \in Live' /\ b # NoBuffer
  <2>1. b \notin Live /\ b # NoBuffer /\ b \in Live'
    BY <1>5, AllocatedFacts
  <2>2. Free(b)
    BY <2>1, FreshIsFree
  <2>3. Placed'
    <3>1. CASE size = 0 /\ slots' = slots
      <4>1. ~Planned(n)'
        BY <1>3, <3>1 DEF Planned
      <4>2. v.buffer = Fresh1
        BY <1>5
      <4> QED
        BY <1>1, <1>5, <3>1, <4>1, <4>2, PlacedFresh
    <3>2. CASE /\ size # 0 /\ slot # 0 /\ slot \notin DOMAIN slots
               /\ slots' = Assigned(slots, slot, [buffer |-> b, size |-> size])
      <4>1. PICK r : r = [buffer |-> b, size |-> size]
        OBVIOUS
      <4>2. r.buffer = b /\ slots' = Assigned(slots, slot, r) /\ v.size # 0
        BY <3>2, <4>1
      <4>3. program.nodes[node].op # "output"
        OBVIOUS
      <4> QED
        BY <1>1, <2>1, <3>2, <4>2, <4>3, PlacedNewSlot
    <3> QED
      BY <1>5, <3>1, <3>2
  <2> QED
    BY <2>1, <2>2, <2>3
<1>6. CASE /\ size # 0 => slot # 0 /\ slot \notin DOMAIN slots
           /\ b = Fresh1 /\ Allocate1
           /\ slots' = IF size = 0 THEN slots
                       ELSE Assigned(slots, slot, [buffer |-> b, size |-> size])
  <2>1. Placed' /\ Free(b) /\ b \in Live' /\ b # NoBuffer
    BY <1>5, <1>6
  <2>2. PICK w : w = Extended(d, b)
    OBVIOUS
  <2>3. w.memory[b] = NoContent
    BY <2>2 DEF Extended, Assigned
  <2>4. Grows(d, w)
    BY <1>6, <2>2 DEF Grows
  <2> QED
    BY <2>1, <2>3, <2>4
<1> QED
  BY <1>1, <1>4, <1>6 DEF PlannedAllocation

\* Literal: its host copy is the content.
LEMMA LiteralMeans ==
    ASSUME GpuInv, ValueInv, Literal
    PROVE  ValueInv'
<1>1. PICK n, content, size, ops : /\ n = node /\ content = program.nodes[n].content
                                   /\ size = Len(content) /\ ops = {"literal"}
  OBVIOUS
<1>2. PICK b : PlannedAllocation(b, size) /\ Define(b, size)
               /\ Enqueue(size, [kind |-> "upload", to |-> b, staged |-> Len(staging) + 1])
  BY <1>1 DEF Literal
<1>3. PICK v : v = [buffer |-> b, size |-> size, scalar |-> NoContent]
  OBVIOUS
<1>4. /\ AtNode(ops) /\ staging' = Append(staging, content) /\ values' = Assigned(values, n, v)
      /\ part' = 0 /\ node' = node + 1
      /\ UNCHANGED <<cells, phase, program, inputs, failure, broken, outputBytes, expected,
                     uploaded, errorHost, errorBuffer>>
  BY <1>1, <1>2, <1>3 DEF Literal, AtNode, walkUnchanged, storageVars, NextNode, Define
<1>5. /\ program \in Programs /\ node \in 1..Len(program.nodes) /\ program.nodes[node].op \in ops
      /\ \E d : Leads(d) /\ Means(d)
      /\ program.nodes[node].op # "stack" => part = 0
      /\ part = 0 => node \notin DOMAIN values
  BY <1>4, WalkFacts
<1>6. program.nodes[n].op = "literal" /\ node \notin DOMAIN values
  BY <1>1, <1>5
<1>7. Meaning[n] = content
  BY <1>1, <1>5, <1>6, MeaningIs DEF Apply
<1>8. Lists(content, size)
  <2>1. NodeWellFormed(program, n)
    BY <1>1, <1>5, NodesAre
  <2>2. content \in Seq(Int)
    BY <1>1, <1>6, <2>1 DEF NodeWellFormed
  <2> QED
    BY <1>1, <2>2 DEF Lists
<1>9. PICK d : Leads(d) /\ Means(d)
  BY <1>5
<1>10. /\ Placed' /\ Free(b) /\ b \in Live' /\ b # NoBuffer
       /\ \E w : Grows(d, w) /\ (size = 0 => w.memory[b] = NoContent)
  <2>1. v.buffer = b /\ v.size = size
    BY <1>3
  <2>2. program.nodes[node].op \notin {"alias", "output"}
    BY <1>1, <1>6
  <2> QED
    BY <1>1, <1>2, <1>4, <1>6, <1>9, <2>1, <2>2, PlannedOn
<1>11. PICK w : Grows(d, w) /\ (size = 0 => w.memory[b] = NoContent)
  BY <1>10
<1>12. PICK c : c = [kind |-> "upload", to |-> b, staged |-> Len(staging) + 1]
  OBVIOUS
<1>13. PICK e : e = Onward(size, c, w, staging')
  OBVIOUS
<1>14. staging'[Len(staging) + 1] = content /\ \A i \in DOMAIN staging : staging'[i] = staging[i]
  BY <1>4, AppendFacts DEF GpuInv, StreamCounted
<1>15. e.memory[b] = content
  <2>1. CASE size = 0
    BY <1>8, <1>11, <1>13, <2>1, NoElements DEF Onward
  <2>2. CASE size # 0
    <3>1. DOMAIN w.memory = Live'
      BY <1>9, <1>11, <1>13, EffectOn
    <3>2. c.kind = "upload" /\ c.to = b /\ c.staged = Len(staging) + 1
      BY <1>12
    <3>3. c.to \in DOMAIN w.memory
      BY <1>10, <3>1, <3>2
    <3>4. Executed(c, w, staging').memory[b] = staging'[c.staged]
      BY <3>2, <3>3, UploadWrites
    <3> QED
      BY <1>13, <1>14, <2>2, <3>2, <3>4 DEF Onward
  <2> QED
    BY <2>1, <2>2
<1>16. /\ DOMAIN values' = DOMAIN values \cup {node} /\ values'[n] = v
       /\ \A i \in DOMAIN values : i # node => values'[i] = values[i]
  BY <1>1, <1>4, DefinesAt
<1>17. InMemory(e, n)'
  <2>1. Meaning' = Meaning
    BY <1>4, MeaningStays
  <2> QED
    BY <1>3, <1>7, <1>10, <1>15, <1>16, <2>1 DEF InMemory
<1>18. Lists(Meaning[n], values'[n].size)
  BY <1>3, <1>7, <1>8, <1>16
<1>19. Enqueue(size, c) /\ c.kind # "error" /\ \A x \in Touched(c) : x = b
  BY <1>2, <1>12 DEF Touched
<1>20. program.nodes[node].op \notin {"kernel", "group"}
  BY <1>1, <1>6
<1> QED
  BY <1>1, <1>4, <1>9, <1>10, <1>11, <1>13, <1>14, <1>16, <1>17, <1>18, <1>19, <1>20, PlainOn

\* The kernel of a node reads what its operands mean.
LEMMA KernelReads ==
    ASSUME GpuInv, ValueInv, NEW ops, AtNode(ops), OperandsOnDevice,
           NEW d, Leads(d), Means(d), NEW w, Grows(d, w), NEW n, n = program.nodes[node],
           NEW to, NEW c, c = Kernel(to, n)
    PROVE  /\ c.kind = "kernel" /\ c.to = to /\ c.n = n /\ c.error = errorBuffer
           /\ Operands(n, Meaning) = [k \in DOMAIN c.from |-> Content(w.memory, c.from[k])]
           /\ Touched(c) = to \cup (IF n.traps THEN {errorBuffer} ELSE {})
<1>1. /\ c.kind = "kernel" /\ c.to = to /\ c.n = n /\ c.error = errorBuffer
      /\ c.from = DepBuffers(n)
  BY DEF Kernel
<1>2. ASSUME NEW k \in DOMAIN n.deps
      PROVE  Content(w.memory, DepBuffers(n)[k]) = Meaning[n.deps[k]]
  <2>1. OnDevice(k) /\ Defined(k)
    BY <1>2 DEF OperandsOnDevice, OnDevice
  <2>2. Dep(k).buffer \in Live /\ d.memory[Dep(k).buffer] = Meaning[n.deps[k]]
    BY <2>1, OperandIs
  <2>3. DepBuffers(n)[k] = Dep(k).buffer
    BY <1>2 DEF DepBuffers, Dep
  <2>4. PICK size, e : size = 0 /\ e = Onward(size, c, w, staging)
    OBVIOUS
  <2>5. /\ DOMAIN w.memory = Live' /\ Live \subseteq Live'
        /\ \A x \in Live : w.memory[x] = d.memory[x]
    BY <2>4, EffectOn
  <2> QED
    BY <2>2, <2>3, <2>5 DEF Content
<1>3. DOMAIN DepBuffers(n) = DOMAIN n.deps
  BY DEF DepBuffers
<1>4. Operands(n, Meaning) = [k \in DOMAIN c.from |-> Content(w.memory, c.from[k])]
  BY <1>1, <1>2, <1>3 DEF Operands
<1>5. Touched(c) = to \cup (IF n.traps THEN {errorBuffer} ELSE {})
  BY <1>1 DEF Touched
<1> QED
  BY <1>1, <1>4, <1>5

\* The error word after the kernel of a group.
LEMMA GroupTold ==
    ASSUME GpuInv, ValueInv, NEW ops, AtNode(ops), UNCHANGED <<program, errorBuffer>>,
           Meaning' = Meaning, node' = node + 1,
           NEW d, Leads(d), Told(d), NEW w, Grows(d, w),
           NEW n, n = program.nodes[node], NEW size, NEW contents, contents = Operands(n, Meaning),
           DOMAIN AddAll(contents) = 1..size,
           n.traps /\ size # 0 => errorBuffer # NoBuffer,
           NEW c, c.kind = "kernel", c.n = n, c.error = errorBuffer, errorBuffer \notin c.to,
           contents = [k \in DOMAIN c.from |-> Content(w.memory, c.from[k])],
           NEW e, e = Onward(size, c, w, staging')
    PROVE  Told(e)'
<1>1. TrapSoFar' = (TrapSoFar \/ TrapsAt(node)) /\ TrapSoFar \in BOOLEAN
  BY TrapsOn
<1>2. TrapsAt(node) <=> Overflows(n, contents)
  BY DEF TrapsAt
<1>3. Overflows(n, contents) => n.traps /\ size # 0
  <2>1. ASSUME size = 0 PROVE ~Overflows(n, contents)
    <3>1. DOMAIN AddAll(contents) = {}
      BY <2>1
    <3>2. Range(AddAll(contents)) = {}
      BY <3>1 DEF Range
    <3> QED
      BY <3>2 DEF Overflows
  <2> QED
    BY <2>1 DEF Overflows
<1>4. CASE errorBuffer = NoBuffer
  BY <1>1, <1>2, <1>3, <1>4 DEF Told
<1>5. CASE errorBuffer # NoBuffer
  <2>1. errorBuffer \in Live
    BY <1>5 DEF GpuInv, BuffersHeld
  <2>2. /\ DOMAIN w.memory = Live' /\ Live \subseteq Live'
        /\ \A x \in Live : w.memory[x] = d.memory[x]
    BY EffectOn
  <2>3. w.memory[errorBuffer] = <<TrapSoFar>> /\ c.error \in DOMAIN w.memory
    BY <1>5, <2>1, <2>2 DEF Told
  <2>4. e.memory[errorBuffer] = IF size # 0 /\ Overflows(n, contents) THEN <<TRUE>> ELSE <<TrapSoFar>>
    <3>1. CASE size = 0
      BY <2>3, <3>1 DEF Onward
    <3>2. CASE size # 0
      <4>1. Executed(c, w, staging').memory[c.error] =
                IF Overflows(c.n, contents) THEN <<TRUE>> ELSE w.memory[c.error]
        BY <2>3, KernelWrites
      <4> QED
        BY <2>3, <3>2, <4>1 DEF Onward
    <3> QED
      BY <3>1, <3>2
  <2>5. e.memory[errorBuffer] = <<TrapSoFar \/ TrapsAt(node)>>
    <3>1. CASE Overflows(n, contents)
      <4>1. (TrapSoFar \/ TrapsAt(node)) = TRUE
        BY <1>2, <3>1
      <4> QED
        BY <1>3, <2>4, <3>1, <4>1
    <3>2. CASE ~Overflows(n, contents)
      <4>1. (TrapSoFar \/ TrapsAt(node)) = TrapSoFar
        BY <1>1, <1>2, <3>2
      <4> QED
        BY <2>4, <3>2, <4>1
    <3> QED
      BY <3>1, <3>2
  <2> QED
    BY <1>1, <1>5, <2>5 DEF Told
<1> QED
  BY <1>4, <1>5

\* Launch: the kernel writes what the node means, and the error word if it traps.
LEMMA LaunchMeans ==
    ASSUME GpuInv, ValueInv, Launch
    PROVE  ValueInv'
<1>1. PICK m, n, size, j, ops : /\ m = node /\ n = program.nodes[node] /\ size = Dep(1).size
                                /\ j = n.deps[1] /\ ops = {"group", "copy"}
  OBVIOUS
<1>2. PICK b : PlannedAllocation(b, size) /\ Define(b, size) /\ Enqueue(size, Kernel({b}, n))
  BY <1>1 DEF Launch
<1>3. PICK v : v = [buffer |-> b, size |-> size, scalar |-> NoContent]
  OBVIOUS
<1>4. /\ AtNode(ops) /\ OnDevice(1) /\ OperandsOnDevice
      /\ n.op = "group" => ~NeedsErrorBuffer
      /\ values' = Assigned(values, m, v) /\ part' = 0 /\ node' = node + 1
      /\ UNCHANGED <<cells, phase, program, inputs, failure, broken, outputBytes, expected,
                     uploaded, errorHost, errorBuffer, staging>>
  BY <1>1, <1>2, <1>3 DEF Launch, AtNode, walkUnchanged, storageVars, NextNode, Define
<1>5. /\ program \in Programs /\ node \in 1..Len(program.nodes) /\ program.nodes[node].op \in ops
      /\ phase = "submitting" /\ node \in DOMAIN program.nodes
      /\ \E d : Leads(d) /\ Means(d)
      /\ program.nodes[node].op # "stack" => part = 0
      /\ part = 0 => node \notin DOMAIN values
  BY <1>4, WalkFacts
<1>6. n.op \in {"group", "copy"} /\ node \notin DOMAIN values
  BY <1>1, <1>5
<1>7. PICK d : Leads(d) /\ Means(d)
  BY <1>5
<1>8. PICK contents : contents = Operands(n, Meaning)
  OBVIOUS
<1>9. contents[1] = Meaning[j] /\ Lists(Meaning[j], size)
  <2>1. Defined(1)
    BY <1>4 DEF OnDevice
  <2>2. 1 \in DOMAIN n.deps
    BY <1>1, <2>1 DEF Defined
  <2> QED
    BY <1>1, <1>4, <1>7, <1>8, <2>1, <2>2, OperandIs DEF Operands
<1>10. Meaning[m] = Apply(n, contents) /\ Lists(Meaning[m], size)
  <2>1. Meaning[m] = Apply(n, contents)
    BY <1>1, <1>5, <1>6, <1>8, MeaningIs
  <2>2. Apply(n, contents) = IF n.op = "group" THEN AddAll(contents) ELSE contents[1]
    BY <1>6 DEF Apply
  <2>3. Lists(AddAll(contents), size)
    BY <1>9, SumLists
  <2> QED
    BY <1>9, <2>1, <2>2, <2>3
<1>11. /\ Placed' /\ Free(b) /\ b \in Live' /\ b # NoBuffer
       /\ \E w : Grows(d, w) /\ (size = 0 => w.memory[b] = NoContent)
  <2>1. v.buffer = b /\ v.size = size
    BY <1>3
  <2>2. program.nodes[node].op \notin {"alias", "output"}
    BY <1>1, <1>6
  <2>3. values' = Assigned(values, node, v)
    BY <1>1, <1>4
  <2> QED
    BY <1>2, <1>4, <1>6, <1>7, <2>1, <2>2, <2>3, PlannedOn
<1>12. PICK w : Grows(d, w) /\ (size = 0 => w.memory[b] = NoContent)
  BY <1>11
<1>13. PICK c : c = Kernel({b}, n)
  OBVIOUS
<1>14. PICK e : e = Onward(size, c, w, staging')
  OBVIOUS
<1>15. /\ c.kind = "kernel" /\ c.to = {b} /\ c.n = n /\ c.error = errorBuffer
       /\ contents = [k \in DOMAIN c.from |-> Content(w.memory, c.from[k])]
       /\ Touched(c) = {b} \cup (IF n.traps THEN {errorBuffer} ELSE {})
  BY <1>1, <1>4, <1>7, <1>8, <1>12, <1>13, KernelReads
<1>16. e.memory[b] = Meaning[m]
  <2>1. CASE size = 0
    BY <1>10, <1>12, <1>14, <2>1, NoElements DEF Onward
  <2>2. CASE size # 0
    <3>1. DOMAIN w.memory = Live'
      BY <1>7, <1>12, <1>14, EffectOn
    <3>2. b \in c.to /\ b \in DOMAIN w.memory
      BY <1>11, <1>15, <3>1
    <3>3. Executed(c, w, staging').memory[b] = Apply(c.n, contents)
      BY <1>15, <3>2, KernelWrites
    <3> QED
      BY <1>10, <1>14, <1>15, <2>2, <3>3 DEF Onward
  <2> QED
    BY <2>1, <2>2
<1>17. /\ DOMAIN values' = DOMAIN values \cup {node} /\ values'[m] = v
       /\ \A i \in DOMAIN values : i # node => values'[i] = values[i]
  BY <1>1, <1>4, DefinesAt
<1>18. Meaning' = Meaning
  BY <1>4, MeaningStays
<1>19. InMemory(e, m)'
  BY <1>3, <1>11, <1>16, <1>17, <1>18 DEF InMemory
<1>20. Lists(Meaning[m], values'[m].size)
  BY <1>3, <1>10, <1>17
<1>21. Told(e)'
  <2>1. Told(d)
    BY <1>7 DEF Means
  <2>2. DOMAIN AddAll(contents) = 1..size
    BY <1>9 DEF AddAll, Lists
  <2>3. n.traps /\ size # 0 => errorBuffer # NoBuffer
    <3>1. n.traps => n.op = "group"
      BY <1>1, <1>5, TrapsOnlyInGroups
    <3> QED
      BY <1>1, <1>4, <3>1 DEF NeedsErrorBuffer
  <2>4. errorBuffer \notin c.to
    BY <1>11, <1>15 DEF Free
  <2> QED
    BY <1>1, <1>4, <1>7, <1>8, <1>12, <1>14, <1>15, <1>18, <2>1, <2>2, <2>3, <2>4, GroupTold
<1>22. Enqueue(size, c) /\ c.kind # "error" /\ \A x \in Touched(c) : x \in {b, errorBuffer}
  BY <1>2, <1>13, <1>15
<1>23. program.nodes[node].op # "kernel"
  BY <1>1, <1>6
<1>24. \A i \in DOMAIN staging : staging'[i] = staging[i]
  BY <1>4
<1> QED
  BY <1>1, <1>4, <1>7, <1>11, <1>12, <1>14, <1>17, <1>19, <1>20, <1>21, <1>22, <1>23, <1>24, DefinesOn

\* Index: the element has an allocation of its own.
LEMMA IndexMeans ==
    ASSUME GpuInv, ValueInv, Index
    PROVE  ValueInv'
<1>1. PICK m, n, b, c, v, ops : /\ m = node /\ n = program.nodes[node] /\ b = Fresh1
                                /\ c = Kernel({b}, n) /\ ops = {"index"}
                                /\ v = [buffer |-> b, size |-> 1, scalar |-> NoContent]
  OBVIOUS
<1>2. /\ AtNode(ops) /\ OnDevice(1) /\ Allocate1 /\ Enqueue(1, c)
      /\ values' = Assigned(values, m, v) /\ part' = 0 /\ node' = node + 1
      /\ UNCHANGED <<cells, phase, program, inputs, failure, broken, outputBytes, expected,
                     uploaded, errorHost, errorBuffer, staging, slots>>
  BY <1>1 DEF Index, AtNode, walkUnchanged, storageVars, NextNode, Define
<1>3. /\ program \in Programs /\ node \in 1..Len(program.nodes) /\ program.nodes[node].op \in ops
      /\ phase = "submitting" /\ node \in DOMAIN program.nodes
      /\ \E d : Leads(d) /\ Means(d)
      /\ program.nodes[node].op # "stack" => part = 0
      /\ part = 0 => node \notin DOMAIN values
  BY <1>2, WalkFacts
<1>4. n.op = "index" /\ node \notin DOMAIN values
  BY <1>1, <1>3
<1>5. PICK d : Leads(d) /\ Means(d)
  BY <1>3
<1>6. PICK contents, w, e, size : /\ contents = Operands(n, Meaning) /\ w = Extended(d, Fresh1)
                                  /\ size = 1 /\ e = Onward(size, c, w, staging')
  OBVIOUS
<1>7. Grows(d, w)
  BY <1>2, <1>6 DEF Grows
<1>8. NodeWellFormed(program, node) /\ SlotWellPlanned(program, node)
  BY <1>3, NodesAre
<1>9. OperandsOnDevice
  <2>1. Len(n.deps) = 1 /\ n.deps \in Seq(1..(node - 1))
    BY <1>1, <1>4, <1>8 DEF NodeWellFormed
  <2>2. DOMAIN n.deps = {1}
    BY <2>1
  <2> QED
    BY <1>1, <1>2, <2>2 DEF OperandsOnDevice
<1>10. /\ c.kind = "kernel" /\ c.to = {b} /\ c.n = n /\ c.error = errorBuffer
       /\ contents = [k \in DOMAIN c.from |-> Content(w.memory, c.from[k])]
       /\ Touched(c) = {b} \cup (IF n.traps THEN {errorBuffer} ELSE {})
  BY <1>1, <1>2, <1>5, <1>6, <1>7, <1>9, KernelReads
<1>11. ~n.traps
  BY <1>1, <1>3, <1>4, TrapsOnlyInGroups
<1>12. Meaning[m] = Apply(n, contents) /\ Lists(Meaning[m], 1)
  <2>1. Meaning[m] = Apply(n, contents)
    BY <1>1, <1>3, <1>4, <1>6, MeaningIs
  <2>2. Apply(n, contents) = <<At(contents[1], n.index)>>
    BY <1>4 DEF Apply
  <2> QED
    BY <2>1, <2>2 DEF Lists
<1>13. b \notin Live /\ b # NoBuffer /\ b \in Live' /\ Free(b)
  BY <1>1, <1>2, AllocatedFacts, FreshIsFree
<1>14. e.memory[b] = Meaning[m]
  <2>1. DOMAIN w.memory = Live'
    BY <1>5, <1>6, <1>7, EffectOn
  <2>2. b \in c.to /\ b \in DOMAIN w.memory
    BY <1>10, <1>13, <2>1
  <2>3. Executed(c, w, staging').memory[b] = Apply(c.n, contents)
    BY <1>10, <2>2, KernelWrites
  <2> QED
    BY <1>6, <1>10, <1>12, <2>3 DEF Onward
<1>15. /\ DOMAIN values' = DOMAIN values \cup {node} /\ values'[m] = v
       /\ \A i \in DOMAIN values : i # node => values'[i] = values[i]
  BY <1>1, <1>2, DefinesAt
<1>16. InMemory(e, m)'
  <2>1. Meaning' = Meaning
    BY <1>2, MeaningStays
  <2> QED
    BY <1>1, <1>13, <1>14, <1>15, <2>1 DEF InMemory
<1>17. Lists(Meaning[m], values'[m].size)
  BY <1>1, <1>12, <1>15
<1>18. Placed'
  <2>1. ~Planned(m)'
    BY <1>1, <1>2, <1>4, <1>8 DEF Planned, SlotWellPlanned
  <2>2. v.buffer = Fresh1
    BY <1>1
  <2> QED
    BY <1>1, <1>2, <1>4, <2>1, <2>2, PlacedFresh
<1>19. Enqueue(size, c) /\ c.kind # "error" /\ \A x \in Touched(c) : x = b
  BY <1>2, <1>6, <1>10, <1>11
<1>20. program.nodes[node].op \notin {"kernel", "group"}
  BY <1>1, <1>4
<1>21. \A i \in DOMAIN staging : staging'[i] = staging[i]
  BY <1>2
<1> QED
  BY <1>1, <1>2, <1>5, <1>6, <1>7, <1>13, <1>15, <1>16, <1>17, <1>18, <1>19, <1>20, <1>21, PlainOn

\* Within a node the values that are needed stay where they are.
LEMMA ComputedStay ==
    ASSUME GpuInv, ValueInv, NEW ops, AtNode(ops), UNCHANGED <<program, node>>, Meaning' = Meaning,
           NEW d, Computed(d), NEW e, NEW b, Free(b), Elsewhere(d, e, b),
           DOMAIN values' \subseteq DOMAIN values \cup {node},
           \A i \in DOMAIN values : i # node => values'[i] = values[i]
    PROVE  Computed(e)'
<1>1. /\ BuffersHeld /\ NoBuffer \notin Live /\ Sized /\ Placed /\ node \in 1..Len(program.nodes)
      /\ Len(program.nodes) \in Nat
  BY WalkFacts
<1>2. SUFFICES ASSUME NEW i \in DOMAIN values', Awaited(i)' PROVE InMemory(e, i)'
  BY DEF Computed
<1>3. i # node
  BY <1>1, <1>2 DEF Awaited, Settled
<1>4. i \in DOMAIN values /\ values'[i] = values[i]
  BY <1>3
<1>5. Awaited(i)
  BY <1>2, <1>4 DEF Awaited, Settled, Past
<1>6. InMemory(d, i) /\ values[i].buffer # b
  BY <1>4, <1>5 DEF Computed, Free
<1>7. values[i].buffer # NoBuffer => e.memory[values[i].buffer] = d.memory[values[i].buffer]
  <2>1. ASSUME values[i].buffer # NoBuffer PROVE values[i].buffer \in Live /\ values[i].buffer # errorBuffer
    BY <1>1, <1>4, <2>1 DEF BuffersHeld, Placed, ErrorApart
  <2> QED
    BY <1>6, <2>1 DEF Elsewhere
<1> QED
  BY <1>4, <1>6, <1>7 DEF InMemory

\* ClearError: the error word says that nothing trapped yet.
LEMMA ClearErrorMeans ==
    ASSUME GpuInv, ValueInv, ClearError
    PROVE  ValueInv'
<1>1. PICK b, ops, size : b = Fresh1 /\ ops = {"group"} /\ size = 1
  OBVIOUS
<1>2. PICK c : c = [kind |-> "clear", to |-> b]
  OBVIOUS
<1>3. /\ AtNode(ops) /\ Allocate1 /\ errorBuffer = NoBuffer /\ errorBuffer' = b /\ errorHost' = FALSE
      /\ Enqueue(size, c)
      /\ UNCHANGED <<cells, phase, program, inputs, failure, broken, outputBytes, expected,
                     node, part, values, uploaded, slots, staging>>
  BY <1>1, <1>2 DEF ClearError, NeedsErrorBuffer, AtNode, walkUnchanged, storageVars
<1>4. /\ program.nodes[node].op \in ops /\ BuffersHeld /\ NoBuffer \notin Live /\ Sized /\ Placed
      /\ ~Past /\ \E d : Leads(d) /\ Means(d)
      /\ program.nodes[node].op # "stack" => part = 0
  BY <1>3, WalkFacts
<1>5. part = 0
  BY <1>1, <1>4
<1>6. PICK d : Leads(d) /\ Means(d)
  BY <1>4
<1>7. PICK w, e : w = Extended(d, Fresh1) /\ e = Onward(size, c, w, staging')
  OBVIOUS
<1>8. Grows(d, w)
  BY <1>3, <1>7 DEF Grows
<1>9. b \notin Live /\ b # NoBuffer /\ b \in Live' /\ Free(b)
  BY <1>1, <1>3, AllocatedFacts, FreshIsFree
<1>10. /\ DOMAIN w.memory = Live'
       /\ \A x \in Live : size = 0 \/ x \notin Touched(c) => e.memory[x] = d.memory[x]
  BY <1>6, <1>7, <1>8, EffectOn
<1>11. \A x \in Live : e.memory[x] = d.memory[x]
  <2>1. Touched(c) = {b}
    BY <1>2 DEF Touched
  <2> QED
    BY <1>9, <1>10, <2>1
<1>12. Elsewhere(d, e, b)
  BY <1>11 DEF Elsewhere
<1>13. e.memory[b] = <<FALSE>>
  <2>1. c.kind = "clear" /\ c.to = b /\ c.to \in DOMAIN w.memory
    BY <1>2, <1>9, <1>10
  <2>2. e = Executed(c, w, staging')
    BY <1>1, <1>7 DEF Onward
  <2>3. e.memory = [w.memory EXCEPT ![b] = <<FALSE>>]
    BY <2>1, <2>2 DEF Executed, Written
  <2> QED
    BY <2>1, <2>3
<1>14. Given' = Given /\ Meaning' = Meaning
  BY <1>3, MeaningStays
<1>15. Computed(e)'
  <2>1. Computed(d)
    BY <1>6 DEF Means
  <2> QED
    BY <1>3, <1>9, <1>12, <1>14, <2>1, ComputedStay
<1>16. Shared(e)'
  <2>1. Shared(d)
    BY <1>6 DEF Means
  <2> QED
    BY <1>3, <1>9, <1>12, <1>14, <2>1, SharedOn
<1>17. Told(e)'
  <2>1. ~TrapSoFar
    BY <1>3, <1>6 DEF Means, Told
  <2>2. \A i : TrapsAt(i)' <=> TrapsAt(i)
    BY <1>3, <1>14 DEF TrapsAt
  <2>3. TrapSoFar' <=> TrapSoFar
    BY <1>3, <2>2 DEF TrapSoFar
  <2>4. TrapSoFar' = FALSE
    BY <2>1, <2>3 DEF TrapSoFar
  <2> QED
    BY <1>3, <1>9, <1>13, <2>4 DEF Told
<1>18. Means(e)'
  <2>1. part' = 0
    BY <1>3, <1>5
  <2> QED
    BY <1>15, <1>16, <1>17, <2>1, NodeDone
<1>19. Sized'
  BY <1>3, <1>4, <1>14 DEF Sized
<1>20. Placed'
  <2>1. \A i : Planned(i)' = Planned(i)
    BY <1>3 DEF Planned
  <2>2. SlotsApart' /\ ValuesPlaced' /\ UploadsApart' /\ OutputsApart'
    BY <1>3, <1>4, <2>1 DEF Placed, SlotsApart, ValuesPlaced, UploadsApart, OutputsApart
  <2>3. ErrorApart'
    BY <1>3, <1>4, <1>9 DEF BuffersHeld, ErrorApart
  <2> QED
    BY <2>2, <2>3 DEF Placed
<1>21. c.kind # "error" /\ node' \in {node, node + 1} /\ \A i \in DOMAIN staging : staging'[i] = staging[i]
  BY <1>2, <1>3
<1> QED
  BY <1>3, <1>6, <1>7, <1>8, <1>18, <1>19, <1>20, <1>21, WalkOn

\* Where the elements of a literal of device scalars go.
StackTarget(b, size) ==
    IF part = 0 THEN PlannedAllocation(b, size) /\ Define(b, size)
    ELSE b = values[node].buffer /\ UNCHANGED <<memory, slots, values>>

\* The buffer of a literal of device scalars: the first element allocates it.
LEMMA StackPlaced ==
    ASSUME GpuInv, ValueInv, NEW ops, AtNode(ops), program.nodes[node].op = "stack",
           UNCHANGED <<program, uploaded, errorBuffer>>,
           Len(program.nodes[node].deps) \in Nat \ {0},
           Lists(Meaning[node], Len(program.nodes[node].deps)), NEW b,
           StackTarget(b, Len(program.nodes[node].deps)), NEW d, Leads(d), Means(d)
    PROVE  /\ Placed' /\ Free(b) /\ b \in Live' /\ b # NoBuffer /\ \E w : Grows(d, w)
           /\ DOMAIN values' = DOMAIN values \cup {node}
           /\ \A i \in DOMAIN values : i # node => values'[i] = values[i]
           /\ values'[node].buffer = b /\ Lists(Meaning[node], values'[node].size)
           /\ program.nodes[node].slot \in DOMAIN slots'
           /\ slots'[program.nodes[node].slot].buffer = b
           /\ part # 0 => b \in Live
<1>0. PICK m, n, size : m = node /\ n = program.nodes[node] /\ size = Len(n.deps)
  OBVIOUS
<1>1. /\ BuffersHeld /\ NoBuffer \notin Live /\ Placed /\ ~Past /\ Sized
      /\ part = 0 => node \notin DOMAIN values
  BY WalkFacts
<1>2. CASE part = 0
  <2>1. PICK v : v = [buffer |-> b, size |-> size, scalar |-> NoContent]
    OBVIOUS
  <2>2. v.buffer = b /\ v.size = size /\ values' = Assigned(values, node, v)
    BY <1>0, <1>2, <2>1 DEF Define, StackTarget
  <2>3. PlannedAllocation(b, size) /\ node \notin DOMAIN values
    BY <1>0, <1>1, <1>2 DEF StackTarget
  <2>4. /\ Placed' /\ Free(b) /\ b \in Live' /\ b # NoBuffer
        /\ \E w : Grows(d, w) /\ (size = 0 => w.memory[b] = NoContent)
    BY <2>2, <2>3, PlannedOn
  <2>5. /\ DOMAIN values' = DOMAIN values \cup {node} /\ values'[m] = v
        /\ \A i \in DOMAIN values : i # node => values'[i] = values[i]
    BY <1>0, <2>2, DefinesAt
  <2>6. n.slot \in DOMAIN slots' /\ slots'[n.slot].buffer = b
    BY <1>0, <2>3 DEF PlannedAllocation, Assigned
  <2> QED
    BY <1>0, <1>2, <2>2, <2>4, <2>5, <2>6
<1>3. CASE part # 0
  <2>1. /\ b = values[node].buffer /\ UNCHANGED <<memory, slots, values>>
        /\ node \in DOMAIN values /\ n.slot \in DOMAIN slots
        /\ slots[n.slot].buffer = b
    BY <1>0, <1>1, <1>3 DEF Means, Partial, StackTarget
  <2>2. Free(b)
    BY <1>0, <2>1, SlotIsFree
  <2>3. b \in Live /\ b # NoBuffer /\ Live' = Live
    BY <1>1, <2>1 DEF BuffersHeld, Live
  <2>4. Placed'
    <3>1. \A i : Planned(i)' = Planned(i)
      BY <2>1 DEF Planned
    <3> QED
      BY <1>1, <2>1, <3>1 DEF Placed, SlotsApart, ValuesPlaced, UploadsApart, ErrorApart, OutputsApart
  <2>5. Grows(d, d)
    BY <2>1 DEF Grows
  <2>6. Lists(Meaning[m], values'[m].size)
    BY <1>0, <1>1, <2>1 DEF Sized
  <2> QED
    BY <1>0, <2>1, <2>2, <2>3, <2>4, <2>5, <2>6
<1> QED
  BY <1>2, <1>3

\* Stack: one more element is where it belongs.
LEMMA StackMeans ==
    ASSUME GpuInv, ValueInv, Stack
    PROVE  ValueInv'
<1>1. PICK m, n, k, size, ops : /\ m = node /\ n = program.nodes[node] /\ k = part + 1
                                /\ size = Len(n.deps) /\ ops = {"stack"}
  OBVIOUS
<1>2. PICK b : /\ StackTarget(b, size)
               /\ Enqueue(1, [kind |-> "element", to |-> b, from |-> Dep(k).buffer,
                              place |-> k, size |-> size])
  BY <1>1 DEF Stack, StackTarget
<1>3. PICK c, one : /\ c = [kind |-> "element", to |-> b, from |-> Dep(k).buffer,
                            place |-> k, size |-> size]
                    /\ one = 1
  OBVIOUS
<1>4. /\ AtNode(ops) /\ OnDevice(k) /\ Dep(k).size = 1 /\ Enqueue(one, c)
      /\ IF k = size THEN part' = 0 /\ node' = node + 1 ELSE part' = k /\ node' = node
      /\ UNCHANGED <<cells, phase, program, inputs, failure, broken, outputBytes, expected,
                     uploaded, errorHost, errorBuffer, staging>>
  BY <1>1, <1>2, <1>3 DEF Stack, AtNode, walkUnchanged, storageVars, NextNode, NextPart
<1>5. /\ program \in Programs /\ node \in 1..Len(program.nodes) /\ program.nodes[node].op \in ops
      /\ part \in Nat /\ ~Past /\ \E d : Leads(d) /\ Means(d)
  BY <1>4, WalkFacts
<1>6. n.op = "stack"
  BY <1>1, <1>5
<1>7. PICK d : Leads(d) /\ Means(d)
  BY <1>5
<1>8. size \in Nat \ {0} /\ DOMAIN n.deps = 1..size /\ k \in 1..size
  <2>1. size \in Nat /\ DOMAIN n.deps = 1..size
    BY <1>1, <1>5, NodesAre
  <2>2. k \in DOMAIN n.deps
    BY <1>1, <1>4 DEF OnDevice, Defined
  <2> QED
    BY <2>1, <2>2
<1>9. Meaning[m] = [q \in 1..size |-> At(Meaning[n.deps[q]], 1)]
  <2>1. Meaning[m] = Apply(n, Operands(n, Meaning))
    BY <1>1, <1>5, <1>6, MeaningIs
  <2>2. Apply(n, Operands(n, Meaning))
          = [q \in DOMAIN Operands(n, Meaning) |-> At(Operands(n, Meaning)[q], 1)]
    BY <1>6 DEF Apply
  <2>3. /\ DOMAIN Operands(n, Meaning) = 1..size
        /\ \A q \in 1..size : Operands(n, Meaning)[q] = Meaning[n.deps[q]]
    BY <1>8 DEF Operands
  <2> QED
    BY <2>1, <2>2, <2>3
<1>10. Lists(Meaning[m], size)
  BY <1>8, <1>9 DEF Lists
<1>11. /\ Placed' /\ Free(b) /\ b \in Live' /\ b # NoBuffer /\ \E w : Grows(d, w)
       /\ DOMAIN values' = DOMAIN values \cup {node}
       /\ \A i \in DOMAIN values : i # node => values'[i] = values[i]
       /\ values'[m].buffer = b /\ Lists(Meaning[m], values'[m].size)
       /\ n.slot \in DOMAIN slots' /\ slots'[n.slot].buffer = b
       /\ part # 0 => b \in Live
  <2>1. Lists(Meaning[node], size) /\ program.nodes[node].op = "stack"
    BY <1>1, <1>6, <1>10
  <2> QED
    BY <1>1, <1>2, <1>4, <1>7, <1>8, <2>1, StackPlaced
<1>12. PICK w : Grows(d, w)
  BY <1>11
<1>13. PICK e : e = Onward(one, c, w, staging')
  OBVIOUS
<1>14. /\ DOMAIN w.memory = Live' /\ Live \subseteq Live'
       /\ \A x \in Live : w.memory[x] = d.memory[x]
       /\ \A x \in Live : one = 0 \/ x \notin Touched(c) => e.memory[x] = d.memory[x]
  BY <1>7, <1>12, <1>13, EffectOn
<1>15. Touched(c) = {b}
  BY <1>3 DEF Touched
<1>16. \A x \in Live : x # b => e.memory[x] = d.memory[x]
  BY <1>14, <1>15
<1>17. Content(w.memory, Dep(k).buffer) = Meaning[n.deps[k]]
  <2>1. Defined(k)
    BY <1>4 DEF OnDevice
  <2>2. Dep(k).buffer \in Live /\ d.memory[Dep(k).buffer] = Meaning[n.deps[k]]
    BY <1>1, <1>4, <1>7, <2>1, OperandIs
  <2> QED
    BY <1>14, <2>2 DEF Content
<1>18. e.memory[b] = [q \in 1..size |-> IF q = k THEN At(Meaning[n.deps[k]], 1) ELSE At(w.memory[b], q)]
  <2>1. /\ c.kind = "element" /\ c.to = b /\ c.from = Dep(k).buffer /\ c.place = k /\ c.size = size
    BY <1>3
  <2>2. e = Executed(c, w, staging') /\ b \in DOMAIN w.memory
    BY <1>3, <1>11, <1>13, <1>14 DEF Onward
  <2>3. e.memory = [w.memory EXCEPT ![b] =
                        [q \in 1..size |-> IF q = k THEN At(Meaning[n.deps[k]], 1)
                                           ELSE At(w.memory[b], q)]]
    BY <1>17, <2>1, <2>2 DEF Executed, Written
  <2> QED
    BY <2>2, <2>3
<1>19. Lists(e.memory[b], size) /\ \A q \in 1..k : e.memory[b][q] = Meaning[m][q]
  <2>1. Lists(e.memory[b], size)
    BY <1>8, <1>18 DEF Lists
  <2>2. ASSUME NEW q \in 1..k PROVE e.memory[b][q] = Meaning[m][q]
    <3>1. q \in 1..size
      BY <1>8
    <3>2. CASE q = k
      BY <1>9, <1>18, <3>1, <3>2
    <3>3. CASE q # k
      <4>1. part # 0 /\ q \in 1..part
        BY <1>1, <1>5, <3>3
      <4>2. b = values[node].buffer /\ b \in Live
        BY <1>2, <1>11, <4>1 DEF StackTarget
      <4>3. Lists(d.memory[b], size) /\ d.memory[b][q] = Meaning[m][q]
        BY <1>1, <1>5, <1>7, <4>1, <4>2 DEF Means, Partial
      <4>4. w.memory[b] = d.memory[b] /\ DOMAIN d.memory[b] = 1..size
        BY <1>14, <4>2, <4>3 DEF Lists
      <4> QED
        BY <1>18, <3>1, <3>3, <4>3, <4>4 DEF At
    <3> QED
      BY <3>2, <3>3
  <2> QED
    BY <2>1, <2>2
<1>20. Given' = Given /\ Meaning' = Meaning
  BY <1>4, MeaningStays
<1>21. c.kind # "error" /\ \A x \in Touched(c) : x = b
  BY <1>3, <1>15
<1>22. \A i \in DOMAIN staging : staging'[i] = staging[i]
  BY <1>4
<1>23. CASE k = size
  <2>1. e.memory[b] = Meaning[m]
    <3>1. e.memory[b] = [q \in 1..size |-> e.memory[b][q]] /\ Meaning[m] = [q \in 1..size |-> Meaning[m][q]]
      BY <1>10, <1>19 DEF Lists
    <3>2. \A q \in 1..size : e.memory[b][q] = Meaning[m][q]
      BY <1>19, <1>23
    <3> QED
      BY <3>1, <3>2
  <2>2. InMemory(e, m)'
    BY <1>11, <1>20, <2>1 DEF InMemory
  <2>3. program.nodes[node].op \notin {"kernel", "group"} /\ part' = 0 /\ node' = node + 1
    BY <1>1, <1>4, <1>6, <1>23
  <2> QED
    BY <1>1, <1>4, <1>7, <1>11, <1>12, <1>13, <1>21, <1>22, <2>2, <2>3, PlainOn
<1>24. CASE k # size
  <2>1. part' = k /\ node' = node /\ part' # 0 /\ k < size
    BY <1>1, <1>4, <1>5, <1>8, <1>24
  <2>2. Elsewhere(d, e, b)
    BY <1>16 DEF Elsewhere
  <2>3. Computed(d) /\ Shared(d) /\ Told(d)
    BY <1>7 DEF Means
  <2>4. Computed(e)'
    BY <1>4, <1>11, <1>20, <2>1, <2>2, <2>3, ComputedStay
  <2>5. Shared(e)'
    BY <1>4, <1>11, <1>20, <2>2, <2>3, SharedOn
  <2>6. Told(e)'
    <3>1. \A i : TrapsAt(i)' <=> TrapsAt(i)
      BY <1>4, <1>20 DEF TrapsAt
    <3>2. TrapSoFar' <=> TrapSoFar
      BY <2>1, <3>1 DEF TrapSoFar
    <3>3. TrapSoFar' = TrapSoFar
      BY <3>2 DEF TrapSoFar
    <3>4. errorBuffer # NoBuffer => e.memory[errorBuffer] = d.memory[errorBuffer]
      BY <1>11, <1>16 DEF GpuInv, BuffersHeld, Free
    <3> QED
      BY <1>4, <2>3, <3>3, <3>4 DEF Told
  <2>7. Partial(e)'
    <3>1. m \in DOMAIN values' /\ node' = m /\ n = program.nodes[m]
      BY <1>1, <1>11, <2>1
    <3> QED
      BY <1>1, <1>4, <1>6, <1>11, <1>19, <1>20, <2>1, <3>1 DEF Partial
  <2>8. Fetched(e)'
    BY <1>4, <1>5, <2>1 DEF Fetched, Past
  <2>9. Means(e)'
    BY <2>4, <2>5, <2>6, <2>7, <2>8 DEF Means
  <2>10. Sized'
    <3>1. Lists(Meaning[node], values'[node].size)
      BY <1>1, <1>11
    <3> QED
      BY <1>4, <1>11, <1>20, <2>1, <3>1, SizedOn
  <2>11. errorHost' = FALSE /\ node' \in {node, node + 1}
    BY <1>4, <2>1, WalkFacts
  <2> QED
    BY <1>4, <1>7, <1>11, <1>12, <1>13, <1>21, <1>22, <2>9, <2>10, <2>11, WalkOn
<1> QED
  BY <1>23, <1>24

\* LaunchKernel: the outputs of a raw kernel have what they mean.
LEMMA LaunchKernelMeans ==
    ASSUME GpuInv, ValueInv, LaunchKernel
    PROVE  ValueInv'
<1>1. PICK n, size, to, ops : /\ n = program.nodes[node] /\ size = Dep(1).size /\ ops = {"kernel"}
                              /\ to = {OutputBuffer(k) : k \in DOMAIN program.outputs}
  OBVIOUS
<1>2. PICK c : c = Kernel(to, n)
  OBVIOUS
<1>3. /\ AtNode(ops) /\ OnDevice(1) /\ OperandsOnDevice /\ OutputsDefined
      /\ \A k \in DOMAIN program.outputs : OutputBuffer(k) # NoBuffer
      /\ Enqueue(size, c) /\ part' = 0 /\ node' = node + 1
      /\ UNCHANGED <<cells, phase, program, inputs, failure, broken, outputBytes, expected,
                     values, uploaded, slots, errorBuffer, errorHost, staging, memory>>
  BY <1>1, <1>2 DEF LaunchKernel, AtNode, walkUnchanged, storageVars, NextNode
<1>4. /\ program \in Programs /\ Len(program.nodes) \in Nat /\ node \in 1..Len(program.nodes)
      /\ program.nodes[node].op \in ops /\ phase = "submitting" /\ node \in DOMAIN program.nodes
      /\ BuffersHeld /\ NoBuffer \notin Live /\ Sized /\ Placed
      /\ \E d : Leads(d) /\ Means(d)
  BY <1>3, WalkFacts
<1>5. n.op = "kernel"
  BY <1>1, <1>4
<1>6. PICK d : Leads(d) /\ Means(d)
  BY <1>4
<1>7. PICK contents, e : contents = Operands(n, Meaning) /\ e = Onward(size, c, d, staging')
  OBVIOUS
<1>8. Grows(d, d)
  BY <1>3 DEF Grows
<1>9. ~n.traps
  BY <1>1, <1>4, <1>5, TrapsOnlyInGroups
<1>10. /\ c.kind = "kernel" /\ c.to = to /\ c.n = n
       /\ contents = [k \in DOMAIN c.from |-> Content(d.memory, c.from[k])]
       /\ Touched(c) = to
  BY <1>1, <1>2, <1>3, <1>6, <1>7, <1>8, <1>9, KernelReads
<1>11. /\ DOMAIN d.memory = Live
       /\ \A x \in Live : x \notin to => e.memory[x] = d.memory[x]
  BY <1>6, <1>7, <1>8, <1>10, EffectOn, LeadsLive
<1>12. node = Len(program.nodes) /\ \A j \in Range(program.outputs) : program.nodes[j].op = "output"
  BY <1>1, <1>4, <1>5, NodesAre DEF RawWellFormed
<1>13. \A k \in DOMAIN program.outputs :
            /\ program.outputs[k] \in DOMAIN values /\ program.nodes[program.outputs[k]].op = "output"
            /\ OutputBuffer(k) = values[program.outputs[k]].buffer
  BY <1>3, <1>12 DEF OutputsDefined, OutputBuffer, Range
<1>14. Given' = Given /\ Meaning' = Meaning
  BY <1>3, MeaningStays
<1>15. Lists(AddAll(contents), size)
  <2>1. Defined(1) /\ 1 \in DOMAIN n.deps
    BY <1>1, <1>3 DEF OnDevice, Defined
  <2>2. Lists(Meaning[n.deps[1]], size)
    BY <1>1, <1>3, <1>6, <2>1, OperandIs
  <2>3. contents[1] = Meaning[n.deps[1]]
    BY <1>7, <2>1 DEF Operands
  <2> QED
    BY <2>2, <2>3, SumLists
<1>16. ASSUME NEW k \in DOMAIN program.outputs, NEW i, i = program.outputs[k]
       PROVE  e.memory[values[i].buffer] = Meaning[i]
  <2>1. /\ i \in DOMAIN values /\ program.nodes[i].op = "output" /\ i \in 1..Len(program.nodes)
        /\ values[i].buffer \in to /\ values[i].buffer # NoBuffer
    BY <1>1, <1>3, <1>4, <1>13, <1>16 DEF Sized
  <2>2. program.nodes[i].deps = n.deps
    BY <1>1, <1>4, <1>12, <2>1, NodesAre DEF RawWellFormed
  <2>3. Operands(program.nodes[i], Meaning) = contents
    BY <1>7, <2>2 DEF Operands
  <2>4. Meaning[i] = Apply(program.nodes[i], Operands(program.nodes[i], Meaning))
    BY <1>4, <2>1, MeaningIs
  <2>5. Meaning[i] = AddAll(contents)
    BY <2>1, <2>3, <2>4 DEF Apply
  <2>6. values[i].buffer \in Live
    BY <1>4, <2>1 DEF BuffersHeld
  <2>7. CASE size # 0
    <3>1. Executed(c, d, staging').memory[values[i].buffer] = Apply(c.n, contents)
      BY <1>10, <1>11, <2>1, <2>6, KernelWrites
    <3>2. Apply(c.n, contents) = AddAll(contents)
      BY <1>5, <1>10 DEF Apply
    <3> QED
      BY <1>7, <2>5, <2>7, <3>1, <3>2 DEF Onward
  <2>8. CASE size = 0
    <3>1. DOMAIN Meaning[i] = 1..0
      BY <1>15, <2>5, <2>8 DEF Lists
    <3>2. DOMAIN Meaning[i] = 1..values[i].size /\ values[i].size \in Nat
      BY <1>4, <2>1 DEF Sized, Lists
    <3>3. values[i].size = 0
      <4>1. PICK s : s = values[i].size
        OBVIOUS
      <4>2. s \in Nat /\ 1..s = {}
        <5>1. s \in Nat /\ 1..s = 1..0
          BY <3>1, <3>2, <4>1
        <5>2. 1..0 = {}
          OBVIOUS
        <5> QED
          BY <5>1, <5>2
      <4>3. s >= 1 => 1 \in 1..s
        BY <4>2
      <4> QED
        BY <4>1, <4>2, <4>3
    <3>4. i < node
      BY <1>4, <1>5, <1>1, <1>12, <2>1
    <3>5. i \in NeededFrom(program, node)
      BY <1>16, OutputsNeeded
    <3>6. InMemory(d, i)
      BY <1>6, <2>1, <3>3, <3>4, <3>5 DEF Means, Computed, Awaited, Settled
    <3> QED
      BY <1>7, <2>1, <2>8, <3>6 DEF InMemory, Onward
  <2> QED
    BY <2>7, <2>8
<1>17. Computed(e)'
  <2> SUFFICES ASSUME NEW i \in DOMAIN values', Awaited(i)' PROVE InMemory(e, i)'
    BY DEF Computed
  <2>1. i \in NeededFrom(program, node + 1)
    BY <1>3 DEF Awaited
  <2>2. i \in Range(program.outputs)
    BY <1>4, <1>12, <2>1, NeededFacts
  <2>3. PICK k \in DOMAIN program.outputs : i = program.outputs[k]
    BY <2>2 DEF Range
  <2>4. e.memory[values[i].buffer] = Meaning[i] /\ values[i].buffer # NoBuffer
    BY <1>3, <1>13, <1>16, <2>3
  <2> QED
    BY <1>3, <1>14, <2>4 DEF InMemory
<1>18. Shared(e)'
  <2>1. ASSUME NEW o \in DOMAIN uploaded PROVE e.memory[uploaded[o].buffer] = d.memory[uploaded[o].buffer]
    <3>1. uploaded[o].buffer \in Live
      BY <1>4 DEF BuffersHeld
    <3>2. uploaded[o].buffer \notin to
      BY <1>1, <1>4, <1>13 DEF Placed, OutputsApart
    <3> QED
      BY <1>11, <3>1, <3>2
  <2>2. Shared(d)
    BY <1>6 DEF Means
  <2> QED
    BY <1>3, <1>14, <2>1, <2>2 DEF Shared
<1>19. Told(e)'
  <2>1. TrapSoFar' = TrapSoFar
    BY <1>1, <1>3, <1>5, <1>14, TrapsOn
  <2>2. errorBuffer # NoBuffer => e.memory[errorBuffer] = d.memory[errorBuffer]
    <3>1. errorBuffer # NoBuffer => errorBuffer \in Live /\ errorBuffer \notin to
      BY <1>1, <1>4, <1>13 DEF Placed, ErrorApart, BuffersHeld
    <3> QED
      BY <1>11, <3>1
  <2> QED
    BY <1>3, <1>6, <2>1, <2>2 DEF Means, Told
<1>20. Means(e)'
  BY <1>3, <1>17, <1>18, <1>19, NodeDone
<1>21. Sized'
  BY <1>3, <1>4, <1>14 DEF Sized
<1>22. Placed'
  <2>1. \A i : Planned(i)' = Planned(i)
    BY <1>3 DEF Planned
  <2> QED
    BY <1>3, <1>4, <2>1 DEF Placed, SlotsApart, ValuesPlaced, UploadsApart, ErrorApart, OutputsApart
<1>23. c.kind # "error" /\ node' \in {node, node + 1} /\ errorHost' = FALSE
  BY <1>3, <1>10, WalkFacts
<1>24. \A i \in DOMAIN staging : staging'[i] = staging[i]
  BY <1>3
<1> QED
  BY <1>3, <1>6, <1>7, <1>8, <1>20, <1>21, <1>22, <1>23, <1>24, WalkOn

\* The outputs are there when the walk is over.
LEMMA OutputIs ==
    ASSUME program \in Programs, Past, NEW d, Computed(d), OutputsDefined,
           NEW k \in DOMAIN program.outputs
    PROVE  InMemory(d, program.outputs[k])
<1>1. Len(program.nodes) \in Nat /\ program.outputs[k] \in 1..Len(program.nodes)
  BY NodesAre
<1>2. program.outputs[k] < node
  BY <1>1 DEF Past
<1>3. program.outputs[k] \in NeededFrom(program, node)
  BY OutputsNeeded
<1>4. program.outputs[k] \in DOMAIN values
  BY DEF OutputsDefined
<1> QED
  BY <1>2, <1>3, <1>4 DEF Computed, Awaited, Settled

\* A download of an output, of the error word, and the event.
LEMMA FetchedOn ==
    ASSUME GpuInv, Download, program \in Programs, Past, NEW d, Leads(d), Computed(d), Told(d), Fetched(d),
           NEW c, c = Downloads[part + 1], NEW size, size = DownloadSize(c),
           NEW e, e = Onward(size, c, d, staging)
    PROVE  /\ e.memory = d.memory
           /\ \A k \in DOMAIN program.outputs : k <= part + 1 /\ OnDeviceOutput(k) =>
                    k \in DOMAIN e.bytes /\ e.bytes[k] = Meaning[program.outputs[k]]
           /\ part + 1 > Len(program.outputs) /\ errorBuffer # NoBuffer => e.error = TrapSoFar
<1>1. PICK n : n = Len(program.outputs)
  OBVIOUS
<1>2. /\ phase = "submitting" /\ OutputsDefined /\ Ends /\ part \in Nat /\ BuffersHeld
  BY DEF Download, Walked, GpuInv, StreamCounted
<1>3. /\ n \in Nat /\ DOMAIN program.outputs = 1..n /\ part < n + 2
      /\ \A k \in 1..n : Downloads[k] = OutputDownloads[k]
      /\ Downloads[n + 1] = ErrorDownload /\ Downloads[n + 2] = [kind |-> "event"]
  BY <1>1, <1>2, DownloadFacts DEF Download
<1>4. DOMAIN d.memory = Live
  BY LeadsLive
<1>5. \A k \in DOMAIN program.outputs : k <= part /\ OnDeviceOutput(k) =>
            k \in DOMAIN d.bytes /\ d.bytes[k] = Meaning[program.outputs[k]]
  BY <1>2, <1>3 DEF Fetched
<1>6. CASE part + 1 \in 1..n
  <2>1. PICK q : q = part + 1
    OBVIOUS
  <2>2. c = [kind |-> "download", from |-> OutputBuffer(q), place |-> q]
    BY <1>3, <1>6, <2>1 DEF OutputDownloads
  <2>3. c.kind = "download" /\ c.from = OutputBuffer(q) /\ c.place = q
    BY <2>2
  <2>4. size = IF OutputBuffer(q) = NoBuffer THEN 0 ELSE values[program.outputs[q]].size
    BY <2>3 DEF DownloadSize
  <2>5. CASE size = 0
    <3>1. e = d /\ ~OnDeviceOutput(q)
      BY <2>4, <2>5 DEF Onward, OnDeviceOutput
    <3> QED
      BY <1>1, <1>2, <1>3, <1>5, <1>6, <2>1, <3>1
  <2>6. CASE size # 0
    <3>1. e = [memory |-> d.memory, bytes |-> Assigned(d.bytes, q, Content(d.memory, OutputBuffer(q))),
               error |-> d.error]
      BY <2>3, <2>6 DEF Onward, Executed, Written, Downloaded, ErrorRead
    <3>2. OnDeviceOutput(q) /\ OutputBuffer(q) = values[program.outputs[q]].buffer
      BY <2>4, <2>6 DEF OnDeviceOutput, OutputBuffer
    <3>3. Content(d.memory, OutputBuffer(q)) = Meaning[program.outputs[q]]
      <4>1. InMemory(d, program.outputs[q])
        BY <1>2, <1>3, <1>6, <2>1, OutputIs
      <4>2. OutputBuffer(q) # NoBuffer /\ OutputBuffer(q) \in Live
        BY <1>2, <1>3, <1>6, <2>1, <3>2 DEF OnDeviceOutput, BuffersHeld, OutputsDefined
      <4> QED
        BY <1>4, <3>2, <4>1, <4>2 DEF InMemory, Content
    <3>4. /\ q \in DOMAIN e.bytes /\ e.bytes[q] = Meaning[program.outputs[q]]
          /\ \A k \in DOMAIN d.bytes : k # q => k \in DOMAIN e.bytes /\ e.bytes[k] = d.bytes[k]
      BY <3>1, <3>3 DEF Assigned
    <3>5. ASSUME NEW k \in DOMAIN program.outputs, k <= part + 1, OnDeviceOutput(k)
          PROVE  k \in DOMAIN e.bytes /\ e.bytes[k] = Meaning[program.outputs[k]]
      <4>1. CASE k = q
        BY <3>4, <4>1
      <4>2. CASE k # q
        <5>1. k <= part
          BY <1>2, <1>3, <2>1, <3>5, <4>2
        <5> QED
          BY <1>5, <3>4, <3>5, <4>2, <5>1
      <4> QED
        BY <4>1, <4>2
    <3>6. ~(part + 1 > n)
      BY <1>2, <1>3, <1>6
    <3> QED
      BY <1>1, <3>1, <3>5, <3>6
  <2> QED
    BY <2>5, <2>6
<1>7. CASE part = n
  <2>1. c = [kind |-> "error", from |-> errorBuffer]
    BY <1>3, <1>7 DEF ErrorDownload
  <2>2. c.kind = "error" /\ c.from = errorBuffer
    BY <2>1
  <2>3. size = IF errorBuffer = NoBuffer THEN 0 ELSE 1
    BY <2>2 DEF DownloadSize
  <2>4. e.memory = d.memory /\ e.bytes = d.bytes
    BY <2>2 DEF Onward, Executed, Written, Downloaded
  <2>5. errorBuffer # NoBuffer => e.error = TrapSoFar
    <3> SUFFICES ASSUME errorBuffer # NoBuffer PROVE e.error = TrapSoFar
      OBVIOUS
    <3>1. size = 1
      BY <2>3
    <3>2. e.error = (Content(d.memory, errorBuffer) = <<TRUE>>)
      BY <2>2, <3>1 DEF Onward, Executed, ErrorRead
    <3>3. Content(d.memory, errorBuffer) = <<TrapSoFar>>
      BY <1>2, <1>4 DEF BuffersHeld, Told, Content
    <3>4. TrapSoFar \in BOOLEAN
      BY DEF TrapSoFar
    <3>5. CASE TrapSoFar = TRUE
      BY <3>2, <3>3, <3>5
    <3>6. CASE TrapSoFar = FALSE
      <4>1. <<FALSE>> # <<TRUE>>
        OBVIOUS
      <4>2. Content(d.memory, errorBuffer) = <<FALSE>>
        BY <3>3, <3>6
      <4>3. (Content(d.memory, errorBuffer) = <<TRUE>>) = FALSE
        BY <4>1, <4>2
      <4> QED
        BY <3>2, <3>6, <4>3
    <3> QED
      BY <3>4, <3>5, <3>6
  <2>6. \A k \in DOMAIN program.outputs : k <= part
    BY <1>3, <1>7
  <2> QED
    BY <1>1, <1>5, <2>4, <2>5, <2>6
<1>8. CASE part = n + 1
  <2>1. part + 1 = n + 2
    BY <1>3, <1>8
  <2>2. c.kind = "event"
    BY <1>3, <2>1
  <2>3. e.memory = d.memory /\ e.bytes = d.bytes /\ e.error = d.error
    BY <2>2 DEF Onward, Executed, Written, Downloaded, ErrorRead
  <2>4. errorBuffer # NoBuffer => d.error = TrapSoFar
    BY <1>1, <1>3, <1>8 DEF Fetched
  <2>5. \A k \in DOMAIN program.outputs : k <= part
    BY <1>3, <1>8
  <2> QED
    BY <1>1, <1>5, <2>3, <2>4, <2>5
<1>9. part + 1 \in 1..n \/ part = n \/ part = n + 1
  BY <1>2, <1>3
<1> QED
  BY <1>6, <1>7, <1>8, <1>9

\* Download: what the device computed reaches the host.
LEMMA DownloadMeans ==
    ASSUME GpuInv, ValueInv, Download
    PROVE  ValueInv'
<1>1. PICK c, size : c = Downloads[part + 1] /\ size = DownloadSize(c)
  OBVIOUS
<1>2. /\ Walked /\ phase = "submitting" /\ ~broken /\ OutputsDefined /\ Enqueue(size, c)
      /\ part' = part + 1
      /\ UNCHANGED <<cells, phase, program, inputs, node, values, uploaded, slots, errorBuffer,
                     staging, failure, completed, memory, broken, outputBytes, errorHost, expected>>
  BY <1>1 DEF Download, Walked, NextPart, storageVars
<1>3. /\ program \in Programs /\ part \in Nat /\ CommandsHeld /\ StreamCounted /\ Past
  BY <1>2 DEF GpuInv, Ends, StreamCounted, Walked, Past
<1>4. /\ Live \subseteq Buffer /\ Known /\ Sized /\ Placed /\ FailureKnown
      /\ \E d : Leads(d) /\ Means(d)
  BY <1>2 DEF ValueInv, Running
<1>5. PICK d : Leads(d) /\ Means(d)
  BY <1>4
<1>6. PICK e : e = Onward(size, c, d, staging)
  OBVIOUS
<1>7. /\ e.memory = d.memory
      /\ \A k \in DOMAIN program.outputs : k <= part + 1 /\ OnDeviceOutput(k) =>
                k \in DOMAIN e.bytes /\ e.bytes[k] = Meaning[program.outputs[k]]
      /\ part + 1 > Len(program.outputs) /\ errorBuffer # NoBuffer => e.error = TrapSoFar
  <2>1. Computed(d) /\ Told(d) /\ Fetched(d)
    BY <1>5 DEF Means
  <2> QED
    BY <1>1, <1>3, <1>5, <1>6, <2>1, FetchedOn
<1>8. Leads(e)'
  <2>1. e = IF size = 0 THEN d ELSE Executed(c, d, staging')
    BY <1>2, <1>6 DEF Onward
  <2>2. \A i \in DOMAIN staging : staging'[i] = staging[i]
    BY <1>2
  <2> QED
    BY <1>2, <1>3, <1>5, <2>1, <2>2, LeadsOn
<1>9. Given' = Given /\ Meaning' = Meaning
  BY <1>2, MeaningStays
<1>10. Means(e)'
  <2>1. Computed(d) /\ Shared(d) /\ Told(d)
    BY <1>5 DEF Means
  <2>2. Past'
    BY <1>2, <1>3 DEF Past
  <2>3. \A i : (TrapsAt(i)' <=> TrapsAt(i)) /\ (Awaited(i)' <=> Awaited(i))
    BY <1>2, <1>9 DEF TrapsAt, Awaited, Settled, Past
  <2>4. TrapSoFar' = TrapSoFar
    BY <1>2, <2>3 DEF TrapSoFar
  <2>5. Computed(e)'
    BY <1>2, <1>7, <1>9, <2>1, <2>3 DEF Computed, InMemory
  <2>6. Shared(e)'
    BY <1>2, <1>7, <1>9, <2>1 DEF Shared
  <2>7. Told(e)'
    BY <1>2, <1>7, <2>1, <2>4 DEF Told
  <2>8. Fetched(e)'
    <3>1. OutputsDefined'
      BY <1>2 DEF OutputsDefined
    <3>2. \A k : OnDeviceOutput(k)' <=> OnDeviceOutput(k)
      BY <1>2 DEF OnDeviceOutput, OutputBuffer
    <3> QED
      BY <1>2, <1>7, <1>9, <2>4, <3>1, <3>2 DEF Fetched
  <2>9. Partial(e)'
    BY <2>2 DEF Partial
  <2> QED
    BY <2>5, <2>6, <2>7, <2>8, <2>9 DEF Means
<1>11. Sized'
  <2>1. Len(program.nodes) \in Nat
    BY <1>3, NodesAre
  <2>2. \A i \in 1..Len(program.nodes) : i < node
    BY <1>3, <2>1 DEF Past
  <2> QED
    BY <1>2, <1>4, <1>9, <2>2 DEF Sized
<1>12. Placed'
  <2>1. \A i : Planned(i)' = Planned(i)
    BY <1>2 DEF Planned
  <2> QED
    BY <1>2, <1>4, <2>1 DEF Placed, SlotsApart, ValuesPlaced, UploadsApart, ErrorApart, OutputsApart
<1>13. Known' /\ ErrorUnread'
  <2>1. \A i \in DOMAIN inputs : (Described(inputs[i]) /\ Preflight(inputs[i]))'
    BY <1>2, <1>4 DEF Known, Described, Preflight, Contiguous
  <2> QED
    BY <1>2, <1>3, <1>4, <1>9, <2>1 DEF Known, ErrorUnread, Past
<1>14. FailureKnown'
  BY <1>2, <1>4 DEF FailureKnown, PublishedIsComputed
<1>15. Live' \subseteq Buffer
  BY <1>2, <1>4 DEF Live
<1> QED
  BY <1>2, <1>8, <1>10, <1>11, <1>12, <1>13, <1>14, <1>15 DEF ValueInv, Running

-----------------------------------------------------------------------------
(***************************************************************************)
(* Steps that leave the walk as it is.                                     *)
(***************************************************************************)
\* What the nodes mean and where their values are stays.
LEMMA MeansStay ==
    ASSUME Given' = Given,
           UNCHANGED <<program, inputs, node, part, values, uploaded, slots, errorBuffer>>,
           NEW d, Means(d)
    PROVE  Means(d)'
<1>1. Meaning' = Meaning
  BY DEF Meaning
<1>2. \A i : /\ TrapsAt(i)' <=> TrapsAt(i)
             /\ Awaited(i)' <=> Awaited(i)
             /\ OnDeviceOutput(i)' <=> OnDeviceOutput(i)
  BY <1>1 DEF TrapsAt, Awaited, Settled, Past, OnDeviceOutput, OutputBuffer
<1>3. TrapSoFar' = TrapSoFar /\ Past' = Past
  BY <1>2 DEF TrapSoFar, Past
<1>4. Computed(d)' /\ Shared(d)' /\ Told(d)'
  BY <1>1, <1>2, <1>3 DEF Means, Computed, InMemory, Shared, Told
<1>5. Partial(d)'
  BY <1>1, <1>3 DEF Means, Partial
<1>6. Fetched(d)'
  BY <1>1, <1>2, <1>3 DEF Means, Fetched, OutputsDefined
<1> QED
  BY <1>4, <1>5, <1>6 DEF Means

\* The same of sizes and places.
LEMMA PlacesStay ==
    ASSUME Given' = Given, Sized, Placed,
           UNCHANGED <<program, inputs, node, part, values, uploaded, slots, errorBuffer>>
    PROVE  Sized' /\ Placed'
<1>1. Meaning' = Meaning
  BY DEF Meaning
<1>2. \A i : Planned(i)' = Planned(i)
  BY DEF Planned
<1> QED
  BY <1>1, <1>2 DEF Sized, Placed, SlotsApart, ValuesPlaced, UploadsApart, ErrorApart, OutputsApart

\* A step of the host that leaves the device and its work alone, while the operation runs.
LEMMA RunningStays ==
    ASSUME ValueInv, Given' = Given, phase \in Running, phase' \in Running,
           phase' # "submitting" => Past /\ part = Len(program.outputs) + 2,
           UNCHANGED <<program, inputs, node, part, values, uploaded, slots, errorBuffer, expected,
                       memory, outputBytes, errorHost, stream, staging, broken>>,
           phase' = "submitting" => phase = "submitting", FailureKnown'
    PROVE  ValueInv'
<1>1. Known /\ Sized /\ Placed /\ ErrorUnread /\ Live \subseteq Buffer
  BY DEF ValueInv
<1>2. Sized' /\ Placed'
  BY <1>1, PlacesStay
<1>3. ErrorUnread'
  BY <1>1 DEF ErrorUnread, Past
<1>4. Known'
  <2>1. \A i \in DOMAIN inputs : (Described(inputs[i]) /\ Preflight(inputs[i]))'
    BY <1>1 DEF Known, Described, Preflight, Contiguous
  <2> QED
    BY <1>1, <2>1 DEF Known, Past
<1>5. ~broken => \E d : Leads(d)' /\ Means(d)'
  <2> SUFFICES ASSUME ~broken PROVE \E d : Leads(d)' /\ Means(d)'
    OBVIOUS
  <2>1. PICK d : Leads(d) /\ Means(d)
    BY DEF ValueInv
  <2>2. Leads(d)'
    BY <2>1, LeadsSame
  <2>3. Means(d)'
    BY <2>1, MeansStay
  <2> QED
    BY <2>2, <2>3
<1>6. Live' \subseteq Buffer
  BY <1>1 DEF Live
<1> QED
  BY <1>2, <1>3, <1>4, <1>5, <1>6 DEF ValueInv, Running

\* When the device is done, it ends where it is.
LEMMA DrainedLeads ==
    ASSUME NEW d, Leads(d), stream = <<>>
    PROVE  d = Current
  BY DEF Leads, Passes

\* Behind the event: the error word and the outputs are those of the program.
LEMMA BehindEvent ==
    ASSUME GpuInv, ValueInv, phase \in {"pending", "polled"}, ~broken, eventDone
    PROVE  /\ expected.overflow = Trapped
           /\ [k \in DOMAIN program.outputs |-> Published(k)] = expected.content
<1>1. /\ Known /\ Sized /\ Past /\ part = Len(program.outputs) + 2 /\ part # 0
      /\ \E d : Leads(d) /\ Means(d)
  <2>1. Known /\ Sized /\ \E d : Leads(d) /\ Means(d)
    BY DEF ValueInv, Running
  <2>2. Past /\ part = Len(program.outputs) + 2
    BY <2>1 DEF Known
  <2>3. Len(program.outputs) \in Nat
    BY NodesAre DEF GpuInv, Ends
  <2> QED
    BY <2>1, <2>2, <2>3
<1>2. program \in Programs /\ stream = <<>>
  BY DEF GpuInv, Ends, EventLast
<1>3. PICK d : Leads(d) /\ Means(d)
  BY <1>1
<1>4. d = Current
  BY <1>2, <1>3, DrainedLeads
<1>5. /\ Len(program.nodes) \in Nat /\ DOMAIN program.nodes = 1..Len(program.nodes)
      /\ Len(program.outputs) \in Nat /\ DOMAIN program.outputs = 1..Len(program.outputs)
      /\ \A k \in DOMAIN program.outputs : program.outputs[k] \in 1..Len(program.nodes)
  BY <1>2, NodesAre
<1>6. /\ expected.overflow = (\E i \in DOMAIN program.nodes : TrapsAt(i))
      /\ expected.content = [k \in DOMAIN program.outputs |-> Meaning[program.outputs[k]]]
  BY <1>1 DEF Known, Outcome, TrapsAt, Meaning
<1>7. expected.overflow = TrapSoFar
  <2>1. 1..(node - 1) = DOMAIN program.nodes
    BY <1>1, <1>5 DEF Past
  <2> QED
    BY <1>6, <2>1 DEF TrapSoFar
<1>8. /\ OutputsDefined
      /\ \A k \in DOMAIN program.outputs : OnDeviceOutput(k) => outputBytes[k] = Meaning[program.outputs[k]]
      /\ errorBuffer # NoBuffer => errorHost = TrapSoFar
  <2>1. \A k \in DOMAIN program.outputs : k <= part
    BY <1>1, <1>5
  <2>2. part > Len(program.outputs)
    BY <1>1, <1>5
  <2> QED
    BY <1>1, <1>3, <1>4, <2>1, <2>2 DEF Means, Fetched, Current
<1>9. Trapped = TrapSoFar
  <2>1. CASE errorBuffer = NoBuffer
    <3>1. ~TrapSoFar
      BY <1>3, <2>1 DEF Means, Told
    <3> QED
      BY <2>1, <3>1 DEF Trapped, TrapSoFar
  <2>2. CASE errorBuffer # NoBuffer
    BY <1>8, <2>2 DEF Trapped, TrapSoFar
  <2> QED
    BY <2>1, <2>2
<1>10. ASSUME NEW k \in DOMAIN program.outputs PROVE Published(k) = Meaning[program.outputs[k]]
  <2>1. PICK i : i = program.outputs[k]
    OBVIOUS
  <2>2. InMemory(d, i) /\ i \in DOMAIN values
    BY <1>1, <1>2, <1>3, <1>8, <2>1, OutputIs DEF Means, OutputsDefined
  <2>3. CASE values[i].buffer = NoBuffer
    BY <2>1, <2>2, <2>3 DEF Published, InMemory
  <2>4. CASE values[i].buffer # NoBuffer /\ values[i].size = 0
    <3>1. Lists(Meaning[i], 0)
      BY <1>1, <2>2, <2>4 DEF Sized
    <3> QED
      BY <2>1, <2>4, <3>1, NoElements DEF Published
  <2>5. CASE values[i].buffer # NoBuffer /\ values[i].size # 0
    BY <1>8, <2>1, <2>5 DEF Published, OnDeviceOutput, OutputBuffer
  <2> QED
    BY <2>3, <2>4, <2>5
<1> QED
  BY <1>6, <1>7, <1>9, <1>10

\* Submitted and FailSubmit: nothing failed yet, or the failure is the driver's or an index.
LEMMA SubmittedMeans ==
    ASSUME GpuInv, ValueInv, Submitted \/ FailSubmit
    PROVE  ValueInv'
<1>1. /\ phase = "submitting"
      /\ UNCHANGED <<cells, program, inputs, node, part, values, uploaded, slots, errorBuffer, expected,
                     memory, outputBytes, errorHost, stream, staging, broken, completed>>
  BY DEF Submitted, FailSubmit, Walked, deviceState, storageVars
<1>2. Given' = Given
  BY <1>1, MeaningStays
<1>3. CASE Submitted
  <2>1. phase' = "pending" /\ failure' = failure /\ Walked /\ part = Len(Downloads)
    BY <1>3 DEF Submitted
  <2>2. Past /\ part = Len(program.outputs) + 2
    BY <1>1, <2>1, DownloadFacts DEF GpuInv, Walked, Past
  <2>3. FailureKnown'
    BY <1>1, <2>1 DEF ValueInv, FailureKnown, PublishedIsComputed
  <2> QED
    BY <1>1, <1>2, <2>1, <2>2, <2>3, RunningStays DEF Running
<1>4. CASE FailSubmit
  <2>1. phase' = "aborting" /\ failure' \in {"driver", "bounds"}
    BY <1>4 DEF FailSubmit
  <2>2. FailureKnown'
    BY <2>1 DEF FailureKnown, PublishedIsComputed
  <2>3. Live' \subseteq Buffer
    BY <1>1 DEF ValueInv, Live
  <2> QED
    BY <2>1, <2>2, <2>3 DEF ValueInv, Running
<1> QED
  BY <1>3, <1>4

\* Poll: an overflow that it finds is one of the program.
LEMMA PollMeans ==
    ASSUME GpuInv, ValueInv, Poll
    PROVE  ValueInv'
<1>1. /\ phase = "pending" /\ phase' \in {"pending", "polled"}
      /\ UNCHANGED <<cells, program, inputs, node, part, values, uploaded, slots, errorBuffer, expected,
                     memory, outputBytes, errorHost, stream, staging, broken, completed>>
  BY DEF Poll, deviceState, storageVars
<1>2. PICK answer \in QueryAnswers :
        /\ phase' = IF answer = "pending" THEN "pending" ELSE "polled"
        /\ failure' = IF answer \in {"driver", "overflow"} THEN answer ELSE failure
  BY DEF Poll
<1>3. Given' = Given
  BY <1>1, MeaningStays
<1>4. failure = "none" /\ Past /\ part = Len(program.outputs) + 2
  BY <1>1 DEF ValueInv, FailureKnown, Running, Known
<1>5. answer = "overflow" => expected.overflow
  <2> SUFFICES ASSUME answer = "overflow" PROVE expected.overflow
    OBVIOUS
  <2>1. ~broken /\ eventDone /\ Trapped
    BY <1>2 DEF QueryAnswers
  <2> QED
    BY <1>1, <2>1, BehindEvent
<1>6. FailureKnown'
  BY <1>1, <1>2, <1>4, <1>5 DEF FailureKnown, PublishedIsComputed
<1> QED
  BY <1>1, <1>3, <1>4, <1>6, RunningStays DEF Running

\* Wait: what is published is what the program computes.
LEMMA WaitMeans ==
    ASSUME GpuInv, ValueInv, Wait
    PROVE  ValueInv'
<1>1. /\ phase \in {"pending", "polled"} /\ phase' = "done" /\ memory' = <<>> /\ expected' = expected
      /\ program' = program
  BY DEF Wait, ReleaseDeviceStorage
<1>2. FailureKnown
  BY DEF ValueInv
<1>3. PublishedIsComputed'
  <2>1. CASE broken /\ failure' = "driver" /\ completed' = completed
    BY <2>1 DEF PublishedIsComputed
  <2>2. CASE /\ ~broken /\ eventDone /\ failure' = Finalized
             /\ completed' = IF failure' # "none" THEN completed
                             ELSE [k \in DOMAIN program.outputs |-> Published(k)]
    <3>1. /\ expected.overflow = Trapped
          /\ [k \in DOMAIN program.outputs |-> Published(k)] = expected.content
      BY <1>1, <2>2, BehindEvent
    <3>2. failure' = "overflow" => expected.overflow
      BY <1>1, <1>2, <2>2, <3>1 DEF Finalized, FailureKnown
    <3>3. failure' = "none" => ~expected.overflow /\ completed' = expected.content
      BY <2>2, <3>1 DEF Finalized
    <3> QED
      BY <1>1, <3>2, <3>3 DEF PublishedIsComputed
  <2> QED
    BY <2>1, <2>2 DEF Wait
<1>4. FailureKnown'
  BY <1>1, <1>3 DEF FailureKnown
<1>5. Live' \subseteq Buffer
  BY <1>1 DEF Live
<1> QED
  BY <1>1, <1>4, <1>5 DEF ValueInv, Running

\* Abort, and a device that breaks.
LEMMA AbortMeans ==
    ASSUME ValueInv, Abort \/ BreakDevice
    PROVE  ValueInv'
<1>1. CASE Abort
  <2>1. phase = "aborting" /\ phase' = "done" /\ memory' = <<>> /\ failure' = failure
    BY <1>1 DEF Abort, ReleaseDeviceStorage
  <2>2. FailureKnown'
    BY <2>1 DEF ValueInv, FailureKnown, PublishedIsComputed
  <2>3. Live' \subseteq Buffer
    BY <2>1 DEF Live
  <2> QED
    BY <2>1, <2>2, <2>3 DEF ValueInv, Running
<1>2. CASE BreakDevice
  <2>1. /\ phase \notin {"idle", "done"} /\ broken' = TRUE /\ stream' = <<>>
        /\ UNCHANGED <<cells, phase, program, inputs, node, part, values, uploaded, slots, errorBuffer,
                       expected, memory, errorHost, failure, completed>>
    BY <1>2 DEF BreakDevice, hostState, storageVars
  <2>2. FailureKnown'
    BY <2>1 DEF ValueInv, FailureKnown, PublishedIsComputed
  <2>3. Live' \subseteq Buffer
    BY <2>1 DEF ValueInv, Live
  <2>4. ASSUME phase \in Running PROVE Known' /\ Sized' /\ Placed' /\ ErrorUnread'
    <3>1. Known /\ Sized /\ Placed /\ ErrorUnread
      BY <2>4 DEF ValueInv
    <3>2. Given' = Given
      BY <2>1, MeaningStays
    <3>3. Sized' /\ Placed'
      BY <2>1, <3>1, <3>2, PlacesStay
    <3>4. ErrorUnread'
      BY <2>1, <3>1 DEF ErrorUnread, Past
    <3>5. \A i \in DOMAIN inputs : (Described(inputs[i]) /\ Preflight(inputs[i]))'
      BY <2>1, <3>1 DEF Known, Described, Preflight, Contiguous
    <3> QED
      BY <2>1, <3>1, <3>2, <3>3, <3>4, <3>5 DEF Known, Past
  <2> QED
    BY <2>1, <2>2, <2>3, <2>4 DEF ValueInv, Running
<1> QED
  BY <1>1, <1>2

\* DeviceStep: the device is one command further on its way.
LEMMA DeviceStepMeans ==
    ASSUME GpuInv, ValueInv, DeviceStep
    PROVE  ValueInv'
<1>1. /\ stream # <<>> /\ stream' = Tail(stream) /\ memory' = Written(Head(stream), memory, staging)
      /\ errorHost' = ErrorRead(Head(stream), memory, errorHost)
      /\ UNCHANGED <<cells, phase, program, inputs, node, part, values, uploaded, slots, errorBuffer,
                     expected, staging, failure, completed, broken>>
  BY DEF DeviceStep, hostState, storageVars
<1>2. phase # "idle"
  BY <1>1 DEF GpuInv, StreamCounted, Active
<1>3. FailureKnown'
  BY <1>1 DEF ValueInv, FailureKnown, PublishedIsComputed
<1>4. Live' = Live
  BY <1>1, WrittenIsLive DEF Live
<1>5. Live' \subseteq Buffer
  BY <1>4 DEF ValueInv
<1>6. ASSUME phase \in Running
      PROVE  /\ Known' /\ Sized' /\ Placed' /\ ErrorUnread'
             /\ ~broken => \E d : Leads(d)' /\ Means(d)'
  <2>1. Known /\ Sized /\ Placed /\ ErrorUnread
    BY <1>6 DEF ValueInv
  <2>2. Given' = Given
    BY <1>1, MeaningStays
  <2>3. Sized' /\ Placed'
    BY <1>1, <2>1, <2>2, PlacesStay
  <2>4. ErrorUnread'
    <3> SUFFICES ASSUME phase = "submitting", ~Past
                 PROVE  errorHost' = FALSE /\ \A i \in DOMAIN stream' : stream'[i].kind # "error"
      BY <1>1 DEF ErrorUnread, Past
    <3>1. errorHost = FALSE /\ \A i \in DOMAIN stream : stream[i].kind # "error"
      BY <2>1 DEF ErrorUnread
    <3>2. /\ 1 \in DOMAIN stream /\ Head(stream) = stream[1]
          /\ \A i \in DOMAIN stream' : i + 1 \in DOMAIN stream /\ stream'[i] = stream[i + 1]
      BY <1>1, TailFacts DEF GpuInv, StreamCounted
    <3> QED
      BY <1>1, <3>1, <3>2 DEF ErrorRead
  <2>5. \A i \in DOMAIN inputs : (Described(inputs[i]) /\ Preflight(inputs[i]))'
    BY <1>1, <2>1 DEF Known, Described, Preflight, Contiguous
  <2>6. Known'
    BY <1>1, <2>1, <2>2, <2>5 DEF Known, Past
  <2>7. ASSUME ~broken PROVE \E d : Leads(d)' /\ Means(d)'
    <3>1. PICK d : Leads(d) /\ Means(d)
      BY <1>6, <2>7 DEF ValueInv
    <3>2. Leads(d)'
      BY <3>1, LeadsDown DEF GpuInv
    <3>3. Means(d)'
      BY <1>1, <2>2, <3>1, MeansStay
    <3> QED
      BY <3>2, <3>3
  <2> QED
    BY <2>3, <2>4, <2>6, <2>7
<1> QED
  BY <1>1, <1>2, <1>3, <1>5, <1>6 DEF ValueInv, Running

\* SubmitGpu: the walk starts, and nothing is expected of the device yet.
LEMMA SubmitMeans ==
    ASSUME StorageInv, ViewsInv, GpuInv, ValueInv,
           NEW p \in Programs, NEW chosen \in [1..Arity(p) -> Wrapper], SubmitGpu(p, chosen)
    PROVE  ValueInv'
<1>1. /\ phase = "idle" /\ phase' = "submitting" /\ program' = p /\ node' = 1 /\ part' = part
      /\ inputs' = [i \in DOMAIN chosen |-> tensor[chosen[i]]]
      /\ \A i \in DOMAIN chosen : Valid(chosen[i]) /\ Preflight(tensor[chosen[i]])
      /\ expected' = Outcome(p, [i \in DOMAIN chosen |-> LogicalValues(tensor[chosen[i]])])
      /\ UNCHANGED <<cells, values, uploaded, slots, errorBuffer, staging, failure, completed,
                     memory, stream, errorHost, outputBytes, broken>>
  BY DEF SubmitGpu, deviceState, storageVars
<1>2. /\ values = <<>> /\ uploaded = <<>> /\ slots = <<>> /\ errorBuffer = NoBuffer
      /\ errorHost = FALSE /\ failure = "none" /\ stream = <<>> /\ part = 0
  BY <1>1 DEF ValueInv, Untouched, GpuInv, Ends
<1>3. DOMAIN chosen = 1..Arity(p) /\ \A i \in DOMAIN chosen : chosen[i] \in Wrapper
  OBVIOUS
<1>4. DOMAIN inputs' = 1..Arity(p) /\ \A i \in DOMAIN chosen : inputs'[i] = tensor[chosen[i]]
  BY <1>1, <1>3
<1>5. Given' = [i \in DOMAIN chosen |-> LogicalValues(tensor[chosen[i]])]
  BY <1>1, <1>3, <1>4 DEF Given, LogicalValues
<1>6. Known'
  <2>1. \A i \in DOMAIN inputs' : (Described(inputs[i]) /\ Preflight(inputs[i]))'
    <3> SUFFICES ASSUME NEW i \in DOMAIN chosen PROVE Described(inputs'[i]) /\ Preflight(inputs'[i])
      BY <1>3, <1>4 DEF Described, Preflight, Contiguous
    <3>1. Described(tensor[chosen[i]])
      BY <1>1, <1>3, ValidDenotes
    <3> QED
      BY <1>1, <1>4, <3>1
  <2>2. Len(p.nodes) \in Nat
    BY NodesAre
  <2>3. 1 \in 1..(Len(p.nodes) + 1)
    BY <2>2
  <2> QED
    BY <1>1, <1>4, <1>5, <2>1, <2>3 DEF Known
<1>7. Sized' /\ Placed'
  BY <1>1, <1>2 DEF Sized, Placed, SlotsApart, ValuesPlaced, UploadsApart, ErrorApart, OutputsApart
<1>8. ErrorUnread'
  BY <1>1, <1>2 DEF ErrorUnread
<1>9. PICK d : d = Current
  OBVIOUS
<1>10. Leads(d)'
  <2>1. PICK D : D = [j \in 0..0 |-> d]
    OBVIOUS
  <2>2. Len(stream') = 0 /\ D[0] = d
    BY <1>1, <1>2, <2>1
  <2>3. Current' = d /\ DOMAIN d.memory = Live'
    BY <1>1, <1>9 DEF Current, Live
  <2>4. \A j \in 0..0 : j = 0
    OBVIOUS
  <2>5. Passes(D)'
    BY <2>2, <2>3, <2>4 DEF Passes
  <2> QED
    BY <2>2, <2>5 DEF Leads
<1>11. Means(d)'
  <2>1. ~TrapSoFar'
    BY <1>1 DEF TrapSoFar
  <2>2. Computed(d)' /\ Shared(d)' /\ Told(d)'
    BY <1>1, <1>2, <2>1 DEF Computed, Shared, Told
  <2>3. Partial(d)' /\ Fetched(d)'
    BY <1>1, <1>2 DEF Partial, Fetched
  <2> QED
    BY <2>2, <2>3 DEF Means
<1>12. FailureKnown'
  BY <1>1, <1>2 DEF FailureKnown, PublishedIsComputed
<1>13. Live' \subseteq Buffer
  BY <1>1 DEF ValueInv, Live
<1> QED
  BY <1>1, <1>6, <1>7, <1>8, <1>10, <1>11, <1>12, <1>13 DEF ValueInv, Running

\* The steps of the host between its calls: the inputs are reserved, and keep their elements.
LEMMA OutsideMeans ==
    ASSUME StorageInv, GpuInv, ValueInv, HostStep \/ UNCHANGED allVars
    PROVE  ValueInv'
<1>1. UNCHANGED <<reserved, phase, program, inputs, node, part, values, uploaded, slots, errorBuffer,
                  expected, memory, outputBytes, errorHost, stream, staging, broken, failure, completed>>
  BY DEF HostStep, allVars, vars, gpuVars, hostState, deviceState
<1>2. FailureKnown'
  BY <1>1 DEF ValueInv, FailureKnown, PublishedIsComputed
<1>3. ASSUME phase \in Running PROVE Given' = Given
  <2>1. \A i \in DOMAIN inputs : cells'[inputs[i].object] = cells[inputs[i].object]
    <3>1. CASE HostStep
      <4>1. CellsMove
        BY <3>1, StorageStep DEF HostStep, StepIsSafe
      <4>2. \A i \in DOMAIN inputs : inputs[i].object \in Object /\ reserved[inputs[i].object] # {}
        <5>1. \A o \in InputObjects : o \in Object /\ reserved[o] = {"read"}
          BY <1>3 DEF Running, Active, GpuInv, InputsReserved
        <5> QED
          BY <5>1 DEF InputObjects
      <4> QED
        BY <4>1, <4>2, ReservedStaysStep
    <3>2. CASE UNCHANGED allVars
      BY <3>2 DEF allVars, vars, storageVars
    <3> QED
      BY <3>1, <3>2
  <2> QED
    BY <1>1, <2>1 DEF Given, LogicalValues
<1>4. CASE phase \in Running
  <2>1. phase # "submitting" => Past /\ part = Len(program.outputs) + 2
    BY <1>4 DEF ValueInv, Known
  <2> QED
    BY <1>1, <1>2, <1>3, <1>4, <2>1, RunningStays
<1>5. CASE phase \notin Running
  <2>1. Live' \subseteq Buffer
    BY <1>1 DEF ValueInv, Live
  <2>2. (phase = "idle" => Untouched)'
    BY <1>1 DEF ValueInv, Untouched
  <2> QED
    BY <1>1, <1>2, <1>5, <2>1, <2>2 DEF ValueInv
<1> QED
  BY <1>4, <1>5

\* The tensors of the host stay what Storage says of them.
LEMMA HostViewsStep ==
    ASSUME StorageInv, ViewsInv, [NextGpu]_allVars
    PROVE  ViewsInv'
<1>1. CASE HostStep \/ UNCHANGED allVars
  <2>1. [Next \/ \E o \in Object : Reserve(o) \/ Release(o)]_vars
    BY <1>1 DEF HostStep, allVars
  <2> QED
    BY <2>1, ViewsStep
<1>2. CASE UNCHANGED storageVars
  BY <1>2, OthersDenote DEF storageVars
<1>3. HostStep \/ UNCHANGED allVars \/ UNCHANGED storageVars
  BY DEF NextGpu, Walk, UploadInput, ShareInput, UploadBytes, DefineScalar, DefineAlias,
         AllocateOutput, Literal, ClearError, Launch, Index, Stack, LaunchKernel, Download,
         Submitted, FailSubmit, Abort, Poll, Wait, DeviceStep, BreakDevice, SubmitGpu,
         walkUnchanged
<1> QED
  BY <1>1, <1>2, <1>3

\* Before the submission.
LEMMA ValueInit == InitGpu => ValueInv
<1> SUFFICES ASSUME InitGpu PROVE ValueInv
  OBVIOUS
<1>1. Untouched /\ phase = "idle" /\ memory = <<>>
  BY DEF InitGpu, Untouched
<1>2. FailureKnown
  BY <1>1 DEF Untouched, FailureKnown, PublishedIsComputed
<1>3. Live \subseteq Buffer
  BY <1>1 DEF Live
<1> QED
  BY <1>1, <1>2, <1>3 DEF ValueInv, Running

\* Every step, and stuttering.
LEMMA ValueStep ==
    ASSUME StorageInv, ViewsInv, GpuInv, ValueInv, [NextGpu]_allVars
    PROVE  ValueInv'
<1>1. CASE HostStep \/ UNCHANGED allVars
  BY <1>1, OutsideMeans
<1>2. ASSUME NEW p \in Programs, NEW chosen \in [1..Arity(p) -> Wrapper], SubmitGpu(p, chosen)
      PROVE  ValueInv'
  BY <1>2, SubmitMeans
<1>3. CASE Walk
  <2>1. ASSUME UploadInput \/ UploadBytes PROVE ValueInv'
    BY <2>1, UploadMeans
  <2>2. ASSUME ShareInput \/ DefineScalar \/ DefineAlias \/ AllocateOutput PROVE ValueInv'
    BY <2>2, ShareMeans, ScalarMeans, AliasMeans, OutputMeans
  <2>3. ASSUME Literal \/ ClearError \/ Launch \/ Index PROVE ValueInv'
    BY <2>3, LiteralMeans, ClearErrorMeans, LaunchMeans, IndexMeans
  <2>4. ASSUME Stack \/ LaunchKernel \/ Download \/ Submitted PROVE ValueInv'
    BY <2>4, StackMeans, LaunchKernelMeans, DownloadMeans, SubmittedMeans
  <2> QED
    BY <1>3, <2>1, <2>2, <2>3, <2>4 DEF Walk
<1>4. CASE FailSubmit \/ Poll \/ Wait
  BY <1>4, SubmittedMeans, PollMeans, WaitMeans
<1>5. CASE Abort \/ BreakDevice \/ DeviceStep
  BY <1>5, AbortMeans, DeviceStepMeans
<1> QED
  BY <1>1, <1>2, <1>3, <1>4, <1>5 DEF NextGpu

\* Success publishes what the program computes from the inputs as they were submitted, and
\* an overflow is told exactly when there is one: whatever the host does with its tensors
\* while the device works, however late the device executes what was enqueued, and in
\* whichever slots the plan put the values.
THEOREM SuccessIsComputed == SpecGpu => []PublishedIsComputed
<1>1. InitGpu => StorageInv /\ GpuInv /\ ViewsInv /\ ValueInv
  BY GpuInit, StorageInit, ViewsInit, ValueInit DEF InitGpu
<1>2. StorageInv /\ GpuInv /\ ViewsInv /\ ValueInv /\ [NextGpu]_allVars
        => (StorageInv /\ GpuInv /\ ViewsInv /\ ValueInv)'
  BY GpuStep, HostViewsStep, ValueStep
<1>3. ValueInv => PublishedIsComputed
  BY DEF ValueInv, FailureKnown
<1> QED
  BY <1>1, <1>2, <1>3, PTL DEF SpecGpu
=============================================================================
