---------------------------- MODULE ProcessProofs ----------------------------
(***************************************************************************)
(* Proofs of the safety properties of RunProcess and Toolchain, for every  *)
(* number of callers, pipe capacity and set of scripts.                    *)
(*                                                                         *)
(* runProcess: a descriptor's number may be another call's by the time it  *)
(* is used, but not while the stream is in `open`: until the caller has    *)
(* seen the end of the stream nobody frees the descriptor, and afterwards  *)
(* it is not used.  What the child wrote is at any time what was captured  *)
(* followed by what is in the pipe, and when a stream's end is seen its    *)
(* pipe is empty and the child, which could only write as one of the       *)
(* pipe's writers, has nothing left to write to it.                        *)
(*                                                                         *)
(* Toolchain: only an artifact whose compiler exited with success is       *)
(* copied, and a copy that nobody overlaps finds the file as it left it.   *)
(***************************************************************************)
EXTENDS Toolchain, SequenceTheorems, FiniteSetTheorems, TLAPS

Label == {"idle", "piping", "piping err", "forking", "closing", "polling", "draining out",
          "draining err", "waiting", "returned"}

ProcessTypeOK ==
    /\ pc \in [Caller -> Label]
    /\ table = [d \in Descriptor |-> table[d]]
    /\ readEnd \in [Caller -> [Stream -> Descriptor \cup {0}]]
    /\ open \in [Caller -> SUBSET Stream]
    /\ captured \in [Caller -> [Stream -> Seq(Caller)]]
    /\ buffer \in [Pipe -> Seq(Caller)]
    /\ writers \in [Pipe -> SUBSET (Caller \cup {"parent"})]
    /\ child \in [Caller -> {"none", "running", "exited", "reaped"}]
    /\ todo = [c \in Caller |-> todo[c]]
    /\ status = [c \in Caller |-> status[c]]
    /\ wrote \in [Caller -> [Stream -> Seq(Caller)]]

\* The call has made the pipe and not closed its write end.
Made(c, s) == pc[c] \in {"forking", "closing"} \/ (pc[c] = "piping err" /\ s = "out")

\* The call reads what its child writes.
Reading(c) == pc[c] \in {"polling", "draining out", "draining err", "waiting"}

\* The descriptor that the caller drains for a stream is its own pipe's.
HoldsReadEnd(c, s) ==
    /\ readEnd[c][s] \in Descriptor
    /\ table[readEnd[c][s]] = <<c, s, "read">>

PipesHeld(c) ==
    \A s \in Stream :
        /\ Made(c, s) => HoldsReadEnd(c, s) /\ "parent" \in writers[<<c, s>>]
        /\ Reading(c) /\ s \in open[c] => HoldsReadEnd(c, s)

\* A child runs only while its call is past the fork, and writes only as a writer.
ChildWrites(c) ==
    /\ child[c] = "running" => pc[c] = "closing" \/ Reading(c)
    /\ pc[c] # "idle" => IsScript(todo[c])
    /\ child[c] = "running" =>
        \A s \in Stream : \A i \in 1..Len(todo[c]) :
            todo[c][i] = s => c \in writers[<<c, s>>]

\* Outside a call, and from the end of a stream on, nothing is in the pipe.
PipesEmptied(c) ==
    /\ \A s \in Stream :
        /\ ~Reading(c) /\ pc[c] # "closing" => buffer[<<c, s>>] = <<>>
        /\ Reading(c) /\ s \notin open[c] => buffer[<<c, s>>] = <<>> /\ writers[<<c, s>>] = {}
    /\ pc[c] = "waiting" => open[c] = {}

\* Nothing is lost, duplicated or reordered on the way.
NothingLost(c) ==
    \A s \in Stream : wrote[c][s] = captured[c][s] \o buffer[<<c, s>>]

\* A status of success is the exit status of the child.
StatusIsTold(c) ==
    /\ child[c] \in {"exited", "reaped"} => Len(todo[c]) = 1
    /\ child[c] = "reaped" => pc[c] = "returned"
    /\ status[c] = "ok" => child[c] = "reaped" /\ todo[c][1] = "ok"

CallerInv(c) ==
    PipesHeld(c) /\ ChildWrites(c) /\ PipesEmptied(c) /\ NothingLost(c) /\ StatusIsTold(c)

ProcessInv == ProcessTypeOK /\ \A c \in Caller : CallerInv(c)

-----------------------------------------------------------------------------
BuildTypeOK ==
    /\ step \in [Caller -> {"start", "compiling", "copying", "copied", "running", "returned"}]
    /\ mode \in [Caller -> {"build", "run"}]
    /\ artifact \in [Caller -> {"none", "partial", "whole"}]
    /\ file = [p \in Path |-> file[p]]
    /\ stage = [c \in Caller |-> stage[c]]
    /\ overlapped \in BOOLEAN

\* A build calls runProcess only while it compiles and while it runs the program.
CallsInPlace ==
    \A c \in Caller :
        /\ step[c] = "start" => pc[c] = "idle"
        /\ step[c] \in {"copying", "copied"} => pc[c] = "returned"
        /\ step[c] = "running" => mode[c] = "run"
        /\ stage[c] = "output-write" => step[c] = "returned"

\* What a compiler that succeeded left is whole, and it is what is copied.
ArtifactsWhole ==
    \A c \in Caller :
        /\ step[c] = "compiling" /\ child[c] \in {"exited", "reaped"} /\ todo[c] = <<"ok">> =>
                artifact[c] = "whole"
        /\ step[c] \in {"copying", "copied"} => artifact[c] = "whole"

Built(b) == b = Gap \/ b.artifact = "whole"

Requested == file["requested"]

RequestedIsBuilt ==
    \/ Requested = <<>>
    \/ \E b : Requested = <<b>> /\ Built(b)
    \/ \E b, d : Requested = <<b, d>> /\ Built(b) /\ Built(d)

CopyingThere(c) == step[c] \in {"copying", "copied"} /\ mode[c] = "build"

\* Without an overlap the one copy finds the file as it left it, and the copies that
\* ended left it whole.
CopiesApart ==
    ~overlapped =>
        /\ \A c, d \in Caller : CopyingThere(c) /\ CopyingThere(d) => c = d
        /\ \A c \in Caller : mode[c] = "build" =>
            /\ step[c] = "copying" => Requested = <<>>
            /\ step[c] = "copied" => Requested = <<Block(c)>>
        /\ (\A c \in Caller : ~CopyingThere(c) /\ stage[c] # "output-write") =>
                \E b : Requested = <<b, b>>

BuildInv ==
    /\ ProcessInv /\ BuildTypeOK /\ CallsInPlace /\ ArtifactsWhole /\ RequestedIsBuilt
    /\ CopiesApart

-----------------------------------------------------------------------------
\* The ends of pipes are told apart, and from a free descriptor.
LEMMA EndsDiffer ==
    /\ \A c, d, s, t, e : <<c, s, e>> # Free
    /\ \A c, d, s, t : <<c, s, "read">> = <<d, t, "read">> => c = d /\ s = t
    /\ \A c, d, s, t : <<c, s, "read">> # <<d, t, "write">>
    /\ \A c \in Caller, s \in Stream : <<c, s>> \in Pipe
  BY DEF Free, Pipe

\* Nothing written, nothing captured, nothing in the pipe.
LEMMA NothingYet == <<>> = <<>> \o <<>>
  BY <<>> \in Seq({}), ConcatEmptySeq

\* A step of another caller keeps what holds of a caller: it leaves the caller's call
\* and child alone, the ends of its pipes in the table, and as writers the parent and
\* the child; it makes nobody a writer of a pipe that has none.
LEMMA OthersStay ==
    ASSUME NEW d \in Caller, CallerInv(d),
           pc'[d] = pc[d], open'[d] = open[d], readEnd'[d] = readEnd[d], child'[d] = child[d],
           todo'[d] = todo[d], status'[d] = status[d], captured'[d] = captured[d],
           wrote'[d] = wrote[d],
           \A s \in Stream : buffer'[<<d, s>>] = buffer[<<d, s>>],
           \A s \in Stream : \A n \in Descriptor :
                table[n] = <<d, s, "read">> => table'[n] = <<d, s, "read">>,
           \A s \in Stream :
                /\ \A x \in {"parent", d} : x \in writers[<<d, s>>] => x \in writers'[<<d, s>>]
                /\ writers[<<d, s>>] = {} => writers'[<<d, s>>] = {}
    PROVE  CallerInv(d)'
<1>1. \A s \in Stream : (Made(d, s)' <=> Made(d, s)) /\ (HoldsReadEnd(d, s) => HoldsReadEnd(d, s)')
  BY DEF Made, HoldsReadEnd
<1>2. Reading(d)' <=> Reading(d)
  BY DEF Reading
<1>3. PipesHeld(d)'
  BY <1>1, <1>2 DEF CallerInv, PipesHeld
<1>4. ChildWrites(d)'
  BY <1>2 DEF CallerInv, ChildWrites
<1>5. PipesEmptied(d)'
  BY <1>2 DEF CallerInv, PipesEmptied
<1>6. NothingLost(d)'
  BY DEF CallerInv, NothingLost
<1>7. StatusIsTold(d)'
  BY DEF CallerInv, StatusIsTold
<1> QED
  BY <1>3, <1>4, <1>5, <1>6, <1>7 DEF CallerInv

\* The invariant holds before the first call.
LEMMA ProcessInit == InitProcess => ProcessInv
<1> SUFFICES ASSUME InitProcess PROVE ProcessInv
  OBVIOUS
<1>1. ProcessTypeOK
  BY DEF InitProcess, ProcessTypeOK, Label
<1>2. ASSUME NEW c \in Caller PROVE CallerInv(c)
  <2>1. pc[c] = "idle" /\ child[c] = "none" /\ status[c] = "unlaunched"
    BY DEF InitProcess
  <2>2. ~Reading(c) /\ \A s \in Stream : ~Made(c, s)
    BY <2>1 DEF Reading, Made
  <2>3. \A s \in Stream : wrote[c][s] = <<>> /\ captured[c][s] = <<>> /\ buffer[<<c, s>>] = <<>>
    BY DEF InitProcess, Pipe
  <2>4. NothingLost(c)
    BY <2>3, NothingYet DEF NothingLost
  <2> QED
    BY <2>1, <2>2, <2>3, <2>4 DEF CallerInv, PipesHeld, ChildWrites, PipesEmptied, StatusIsTold
<1> QED
  BY <1>1, <1>2 DEF ProcessInv

\* Call: the pipes are empty, so the new call starts with nothing captured.
LEMMA CallKeeps ==
    ASSUME ProcessInv, NEW c \in Caller, NEW script, IsScript(script), Call(c, script)
    PROVE  ProcessInv'
<1>1. ProcessTypeOK'
  <2>1. captured' \in [Caller -> [Stream -> Seq(Caller)]] /\ wrote' \in [Caller -> [Stream -> Seq(Caller)]]
    <3>1. [s \in Stream |-> <<>>] \in [Stream -> Seq(Caller)]
      OBVIOUS
    <3> QED
      BY <3>1 DEF ProcessInv, ProcessTypeOK, Call
  <2>2. pc' \in [Caller -> Label] /\ child' \in [Caller -> {"none", "running", "exited", "reaped"}]
    BY DEF ProcessInv, ProcessTypeOK, Call, Goto, Label
  <2>3. /\ todo' = [d \in Caller |-> todo'[d]] /\ status' = [d \in Caller |-> status'[d]]
        /\ UNCHANGED <<table, readEnd, open, buffer, writers>>
    BY DEF ProcessInv, ProcessTypeOK, Call
  <2> QED
    BY <2>1, <2>2, <2>3 DEF ProcessInv, ProcessTypeOK
<1>2. ASSUME NEW d \in Caller, d # c PROVE CallerInv(d)'
  <2>1. CallerInv(d)
    BY DEF ProcessInv
  <2> QED
    BY <1>2, <2>1, OthersStay DEF ProcessInv, ProcessTypeOK, Call, Goto
<1>3. CallerInv(c)'
  <2>1. /\ pc[c] \in {"idle", "returned"} /\ pc'[c] = "piping" /\ todo'[c] = script
        /\ child'[c] = "none" /\ status'[c] = "unlaunched"
        /\ \A s \in Stream : captured'[c][s] = <<>> /\ wrote'[c][s] = <<>>
        /\ buffer' = buffer
    BY DEF Call, Goto, ProcessInv, ProcessTypeOK
  <2>2. ~Reading(c)' /\ ~Reading(c) /\ \A s \in Stream : ~Made(c, s)'
    BY <2>1 DEF Reading, Made
  <2>3. \A s \in Stream : buffer[<<c, s>>] = <<>>
    BY <2>1, <2>2 DEF ProcessInv, CallerInv, PipesEmptied
  <2>4. NothingLost(c)'
    BY <2>1, <2>3, NothingYet DEF NothingLost
  <2> QED
    BY <2>1, <2>2, <2>3, <2>4
       DEF CallerInv, PipesHeld, ChildWrites, PipesEmptied, StatusIsTold
<1> QED
  BY <1>1, <1>2, <1>3 DEF ProcessInv

\* A new pipe is the caller's: its descriptors were free, so nobody drained them.
LEMMA NewPipeMoves ==
    ASSUME ProcessTypeOK, NEW c \in Caller, NEW s \in Stream, NewPipe(c, s)
    PROVE  /\ HoldsReadEnd(c, s)' /\ writers'[<<c, s>>] = {"parent"}
           /\ \A t \in Stream : t # s /\ HoldsReadEnd(c, t) => HoldsReadEnd(c, t)'
           /\ \A d \in Caller : d # c => readEnd'[d] = readEnd[d]
           /\ \A p \in Pipe : p # <<c, s>> => writers'[p] = writers[p]
           /\ \A n \in Descriptor : table[n] # Free => table'[n] = table[n]
           /\ table' = [n \in Descriptor |-> table'[n]]
           /\ readEnd' \in [Caller -> [Stream -> Descriptor \cup {0}]]
           /\ writers' \in [Pipe -> SUBSET (Caller \cup {"parent"})]
<1>1. PICK r \in FreeDescriptors, w \in FreeDescriptors :
        /\ r < w
        /\ table' = [table EXCEPT ![r] = <<c, s, "read">>, ![w] = <<c, s, "write">>]
        /\ readEnd' = [readEnd EXCEPT ![c][s] = r]
        /\ writers' = [writers EXCEPT ![<<c, s>>] = {"parent"}]
  BY DEF NewPipe
<1>2. /\ r \in Descriptor /\ table[r] = Free /\ w \in Descriptor /\ table[w] = Free
  BY DEF FreeDescriptors
<1>3. r # w
  BY <1>1, <1>2 DEF Descriptor
<1>4. table'[r] = <<c, s, "read">> /\ \A n \in Descriptor : table[n] # Free => table'[n] = table[n]
  BY <1>1, <1>2, <1>3 DEF ProcessTypeOK
<1>5. /\ readEnd'[c][s] = r /\ \A t \in Stream : t # s => readEnd'[c][t] = readEnd[c][t]
      /\ \A d \in Caller : d # c => readEnd'[d] = readEnd[d]
      /\ readEnd' \in [Caller -> [Stream -> Descriptor \cup {0}]]
  BY <1>1, <1>2 DEF ProcessTypeOK
<1>6. HoldsReadEnd(c, s)'
  BY <1>2, <1>4, <1>5 DEF HoldsReadEnd
<1>7. \A t \in Stream : t # s /\ HoldsReadEnd(c, t) => HoldsReadEnd(c, t)'
  <2>1. \A t : <<c, t, "read">> # Free
    BY EndsDiffer
  <2> QED
    BY <1>4, <1>5, <2>1 DEF HoldsReadEnd
<1>8. /\ writers'[<<c, s>>] = {"parent"} /\ \A p \in Pipe : p # <<c, s>> => writers'[p] = writers[p]
       /\ writers' \in [Pipe -> SUBSET (Caller \cup {"parent"})]
  BY <1>1, EndsDiffer DEF ProcessTypeOK
<1> QED
  BY <1>1, <1>4, <1>5, <1>6, <1>7, <1>8 DEF ProcessTypeOK

\* OpenOut and OpenErr.
LEMMA OpeningKeeps ==
    ASSUME ProcessInv, NEW c \in Caller, OpenOut(c) \/ OpenErr(c)
    PROVE  ProcessInv'
<1>1. PICK s \in Stream :
        /\ NewPipe(c, s)
        /\ \/ s = "out" /\ pc[c] = "piping" /\ pc' = [pc EXCEPT ![c] = "piping err"]
           \/ s = "err" /\ pc[c] = "piping err" /\ pc' = [pc EXCEPT ![c] = "forking"]
        /\ UNCHANGED <<open, captured, buffer, child, todo, status, wrote>>
  BY DEF OpenOut, OpenErr, Goto, Stream
<1>2. ProcessTypeOK
  BY DEF ProcessInv
<1>3. ProcessTypeOK'
  <2>1. /\ table' = [n \in Descriptor |-> table'[n]]
        /\ readEnd' \in [Caller -> [Stream -> Descriptor \cup {0}]]
        /\ writers' \in [Pipe -> SUBSET (Caller \cup {"parent"})]
    BY <1>1, <1>2, NewPipeMoves
  <2> QED
    BY <1>1, <1>2, <2>1 DEF ProcessTypeOK, Label
<1>4. ASSUME NEW d \in Caller, d # c PROVE CallerInv(d)'
  <2>1. CallerInv(d) /\ pc'[d] = pc[d]
    BY <1>1, <1>2, <1>4 DEF ProcessInv, ProcessTypeOK
  <2>2. \A t \in Stream : writers'[<<d, t>>] = writers[<<d, t>>]
    BY <1>1, <1>2, <1>4, NewPipeMoves, EndsDiffer
  <2>3. \A t \in Stream : \A n \in Descriptor :
                table[n] = <<d, t, "read">> => table'[n] = <<d, t, "read">>
    <3>1. \A t : <<d, t, "read">> # Free
      BY EndsDiffer
    <3> QED
      BY <1>1, <1>2, <3>1, NewPipeMoves
  <2>4. readEnd'[d] = readEnd[d]
    BY <1>1, <1>2, <1>4, NewPipeMoves
  <2> QED
    BY <1>1, <2>1, <2>2, <2>3, <2>4, OthersStay
<1>5. CallerInv(c)'
  <2>1. CallerInv(c)
    BY DEF ProcessInv
  <2>2. \/ s = "out" /\ pc[c] = "piping" /\ pc'[c] = "piping err"
        \/ s = "err" /\ pc[c] = "piping err" /\ pc'[c] = "forking"
    BY <1>1, <1>2 DEF ProcessTypeOK
  <2>3. /\ ~Reading(c) /\ ~Reading(c)' /\ Made(c, s)'
        /\ \A t \in Stream : t # s => (Made(c, t)' <=> Made(c, t))
    BY <2>2 DEF Reading, Made, Stream
  <2>4. HoldsReadEnd(c, s)' /\ "parent" \in writers'[<<c, s>>]
    BY <1>1, <1>2, NewPipeMoves
  <2>5. \A t \in Stream : t # s => (HoldsReadEnd(c, t) => HoldsReadEnd(c, t)')
    BY <1>1, <1>2, NewPipeMoves
  <2>6. \A t \in Stream : t # s => writers'[<<c, t>>] = writers[<<c, t>>]
    BY <1>1, <1>2, NewPipeMoves, EndsDiffer
  <2>7. PipesHeld(c)'
    BY <2>1, <2>3, <2>4, <2>5, <2>6 DEF CallerInv, PipesHeld
  <2>8. child[c] # "running"
    BY <2>1, <2>2, <2>3 DEF CallerInv, ChildWrites
  <2>9. ChildWrites(c)' /\ PipesEmptied(c)'
    BY <1>1, <2>1, <2>2, <2>3, <2>8 DEF CallerInv, ChildWrites, PipesEmptied
  <2>10. NothingLost(c)' /\ StatusIsTold(c)'
    BY <1>1, <2>1 DEF CallerInv, NothingLost, StatusIsTold
  <2> QED
    BY <2>7, <2>9, <2>10 DEF CallerInv
<1> QED
  BY <1>3, <1>4, <1>5 DEF ProcessInv

\* The parent closes ends of its own pipes only.
LEMMA CloseAllMoves ==
    ASSUME ProcessTypeOK, NEW c \in Caller, NEW ends, ends \subseteq Ends(c), CloseAll(ends)
    PROVE  /\ \A d \in Caller, s \in Stream, n \in Descriptor :
                table[n] = <<d, s, "read">> /\ <<d, s, "read">> \notin ends =>
                    table'[n] = <<d, s, "read">>
           /\ \A d \in Caller, s \in Stream : d # c => writers'[<<d, s>>] = writers[<<d, s>>]
           /\ \A s \in Stream : /\ writers'[<<c, s>>] \subseteq writers[<<c, s>>]
                                /\ writers[<<c, s>>] \subseteq writers'[<<c, s>>] \cup {"parent"}
           /\ \A d \in Caller, s \in Stream : d # c => <<d, s, "read">> \notin ends
           /\ table' = [n \in Descriptor |-> table'[n]]
           /\ writers' \in [Pipe -> SUBSET (Caller \cup {"parent"})]
<1>1. \A d \in Caller : \A s, e : d # c => <<d, s, e>> \notin ends
  BY DEF Ends
<1>2. \A n \in Descriptor : table'[n] = IF table[n] \in ends THEN Free ELSE table[n]
  BY DEF CloseAll
<1>3. \A d \in Caller, s \in Stream :
        writers'[<<d, s>>] = IF <<d, s, "write">> \in ends THEN writers[<<d, s>>] \ {"parent"}
                             ELSE writers[<<d, s>>]
  BY EndsDiffer DEF CloseAll
<1>4. writers' \in [Pipe -> SUBSET (Caller \cup {"parent"})]
  BY DEF CloseAll, ProcessTypeOK
<1>5. table' = [n \in Descriptor |-> table'[n]]
  BY DEF CloseAll
<1> QED
  BY <1>1, <1>2, <1>3, <1>4, <1>5

\* LaunchFails: no child, so that nothing was written.
LEMMA LaunchFailsKeeps ==
    ASSUME ProcessInv, NEW c \in Caller, LaunchFails(c)
    PROVE  ProcessInv'
<1>1. /\ pc[c] \in {"piping", "piping err", "forking"} /\ pc' = [pc EXCEPT ![c] = "returned"]
      /\ CloseAll(Ends(c))
      /\ UNCHANGED <<readEnd, open, captured, buffer, child, todo, status, wrote>>
  BY DEF LaunchFails, Goto
<1>2. ProcessTypeOK
  BY DEF ProcessInv
<1>3. ProcessTypeOK'
  BY <1>1, <1>2, CloseAllMoves DEF ProcessTypeOK, Label
<1>4. ASSUME NEW d \in Caller, d # c PROVE CallerInv(d)'
  <2>1. CallerInv(d) /\ pc'[d] = pc[d]
    BY <1>1, <1>2, <1>4 DEF ProcessInv, ProcessTypeOK
  <2>2. \A s \in Stream : /\ writers'[<<d, s>>] = writers[<<d, s>>]
                          /\ \A n \in Descriptor :
                                table[n] = <<d, s, "read">> => table'[n] = <<d, s, "read">>
    <3>1. /\ \A s \in Stream, n \in Descriptor :
                table[n] = <<d, s, "read">> /\ <<d, s, "read">> \notin Ends(c) =>
                    table'[n] = <<d, s, "read">>
          /\ \A s \in Stream : writers'[<<d, s>>] = writers[<<d, s>>]
          /\ \A s \in Stream : <<d, s, "read">> \notin Ends(c)
      <4>1. Ends(c) \subseteq Ends(c)
        OBVIOUS
      <4>2. /\ \A e \in Caller, s \in Stream, n \in Descriptor :
                table[n] = <<e, s, "read">> /\ <<e, s, "read">> \notin Ends(c) =>
                    table'[n] = <<e, s, "read">>
            /\ \A e \in Caller, s \in Stream : e # c => writers'[<<e, s>>] = writers[<<e, s>>]
            /\ \A e \in Caller, s \in Stream : e # c => <<e, s, "read">> \notin Ends(c)
        BY <4>1, <1>1, <1>2, CloseAllMoves
      <4> QED
        BY <4>2, <1>4
    <3> QED
      BY <3>1
  <2> QED
    BY <1>1, <2>1, <2>2, OthersStay
<1>5. CallerInv(c)'
  <2>1. CallerInv(c) /\ pc'[c] = "returned"
    BY <1>1, <1>2 DEF ProcessInv, ProcessTypeOK
  <2>2. ~Reading(c) /\ ~Reading(c)' /\ \A s \in Stream : ~Made(c, s)'
    BY <1>1, <2>1 DEF Reading, Made
  <2>3. child[c] # "running"
    BY <1>1, <2>1, <2>2 DEF CallerInv, ChildWrites
  <2>4. PipesHeld(c)' /\ ChildWrites(c)' /\ PipesEmptied(c)'
    BY <1>1, <2>1, <2>2, <2>3 DEF CallerInv, PipesHeld, ChildWrites, PipesEmptied
  <2>5. NothingLost(c)' /\ StatusIsTold(c)'
    BY <1>1, <2>1 DEF CallerInv, NothingLost, StatusIsTold
  <2> QED
    BY <2>4, <2>5 DEF CallerInv
<1> QED
  BY <1>3, <1>4, <1>5 DEF ProcessInv

\* Fork: the child becomes a writer of its own pipes, and of all that are open for
\* writing in the parent, never of one that nobody writes to.
LEMMA ForkKeeps ==
    ASSUME ProcessInv, NEW c \in Caller, Fork(c)
    PROVE  ProcessInv'
<1>1. /\ pc[c] = "forking" /\ pc' = [pc EXCEPT ![c] = "closing"]
      /\ writers' = [p \in Pipe |-> IF "parent" \in writers[p] THEN writers[p] \cup {c}
                                    ELSE writers[p]]
      /\ child' = [child EXCEPT ![c] = "running"]
      /\ UNCHANGED <<table, readEnd, open, captured, buffer, todo, status, wrote>>
  BY DEF Fork, Goto
<1>2. ProcessTypeOK
  BY DEF ProcessInv
<1>3. ProcessTypeOK'
  BY <1>1, <1>2 DEF ProcessTypeOK, Label
<1>4. \A d \in Caller, s \in Stream :
        writers'[<<d, s>>] = IF "parent" \in writers[<<d, s>>] THEN writers[<<d, s>>] \cup {c}
                             ELSE writers[<<d, s>>]
  BY <1>1, EndsDiffer
<1>5. ASSUME NEW d \in Caller, d # c PROVE CallerInv(d)'
  <2>1. CallerInv(d) /\ pc'[d] = pc[d] /\ child'[d] = child[d]
    BY <1>1, <1>2, <1>5 DEF ProcessInv, ProcessTypeOK
  <2>2. \A s \in Stream :
          /\ \A x \in {"parent", d} : x \in writers[<<d, s>>] => x \in writers'[<<d, s>>]
          /\ writers[<<d, s>>] = {} => writers'[<<d, s>>] = {}
    BY <1>4
  <2> QED
    BY <1>1, <2>1, <2>2, OthersStay
<1>6. CallerInv(c)'
  <2>1. CallerInv(c) /\ pc'[c] = "closing" /\ child'[c] = "running"
    BY <1>1, <1>2 DEF ProcessInv, ProcessTypeOK
  <2>2. ~Reading(c) /\ ~Reading(c)' /\ \A s \in Stream : Made(c, s) /\ Made(c, s)'
    BY <1>1, <2>1 DEF Reading, Made
  <2>3. \A s \in Stream : "parent" \in writers[<<c, s>>] /\ HoldsReadEnd(c, s)
    BY <2>1, <2>2 DEF CallerInv, PipesHeld
  <2>4. \A s \in Stream : /\ "parent" \in writers'[<<c, s>>] /\ c \in writers'[<<c, s>>]
                          /\ HoldsReadEnd(c, s)'
    <3>1. ASSUME NEW s \in Stream
          PROVE  "parent" \in writers'[<<c, s>>] /\ c \in writers'[<<c, s>>]
      BY <1>4, <2>3
    <3>2. ASSUME NEW s \in Stream PROVE HoldsReadEnd(c, s)'
      BY <1>1, <2>3 DEF HoldsReadEnd
    <3> QED
      BY <3>1, <3>2
  <2>5. PipesHeld(c)' /\ PipesEmptied(c)'
    BY <2>1, <2>2, <2>4 DEF PipesHeld, PipesEmptied
  <2>6. ChildWrites(c)'
    BY <1>1, <2>1, <2>4 DEF CallerInv, ChildWrites
  <2>7. NothingLost(c)'
    BY <1>1, <2>1 DEF CallerInv, NothingLost
  <2>8. StatusIsTold(c)'
    <3>1. child[c] # "reaped"
      BY <1>1, <2>1 DEF CallerInv, StatusIsTold
    <3> QED
      BY <1>1, <2>1, <3>1 DEF CallerInv, StatusIsTold
  <2> QED
    BY <2>5, <2>6, <2>7, <2>8 DEF CallerInv
<1> QED
  BY <1>3, <1>5, <1>6 DEF ProcessInv

\* CloseWriteEnds: the child stays a writer, the descriptors to read stay open.
LEMMA CloseWriteEndsKeeps ==
    ASSUME ProcessInv, NEW c \in Caller, CloseWriteEnds(c)
    PROVE  ProcessInv'
<1>1. /\ pc[c] = "closing" /\ pc' = [pc EXCEPT ![c] = "polling"]
      /\ CloseAll(ParentCloses(c)) /\ open' = [open EXCEPT ![c] = Stream]
      /\ UNCHANGED <<readEnd, captured, buffer, child, todo, status, wrote>>
  BY DEF CloseWriteEnds, Goto
<1>2. ProcessTypeOK
  BY DEF ProcessInv
<1>3. /\ ParentCloses(c) \subseteq Ends(c)
      /\ \A s \in Stream : <<c, s, "read">> \notin ParentCloses(c)
  BY DEF ParentCloses, Ends, Stream
<1>4. /\ \A d \in Caller, s \in Stream, n \in Descriptor :
            table[n] = <<d, s, "read">> /\ <<d, s, "read">> \notin ParentCloses(c) =>
                table'[n] = <<d, s, "read">>
      /\ \A d \in Caller, s \in Stream : d # c => writers'[<<d, s>>] = writers[<<d, s>>]
      /\ \A s \in Stream : /\ writers'[<<c, s>>] \subseteq writers[<<c, s>>]
                           /\ writers[<<c, s>>] \subseteq writers'[<<c, s>>] \cup {"parent"}
      /\ \A d \in Caller, s \in Stream : d # c => <<d, s, "read">> \notin ParentCloses(c)
      /\ table' = [n \in Descriptor |-> table'[n]]
      /\ writers' \in [Pipe -> SUBSET (Caller \cup {"parent"})]
  BY <1>1, <1>2, <1>3, CloseAllMoves
<1>5. ProcessTypeOK'
  BY <1>1, <1>2, <1>4 DEF ProcessTypeOK, Label
<1>6. \A d \in Caller, s \in Stream, n \in Descriptor :
        table[n] = <<d, s, "read">> => table'[n] = <<d, s, "read">>
  BY <1>3, <1>4
<1>7. ASSUME NEW d \in Caller, d # c PROVE CallerInv(d)'
  <2>1. CallerInv(d) /\ pc'[d] = pc[d] /\ open'[d] = open[d]
    BY <1>1, <1>2, <1>7 DEF ProcessInv, ProcessTypeOK
  <2>2. \A s \in Stream : writers'[<<d, s>>] = writers[<<d, s>>]
    BY <1>4, <1>7
  <2> QED
    BY <1>1, <1>6, <2>1, <2>2, OthersStay
<1>8. CallerInv(c)'
  <2>1. CallerInv(c) /\ pc'[c] = "polling" /\ open'[c] = Stream
    BY <1>1, <1>2 DEF ProcessInv, ProcessTypeOK
  <2>2. Reading(c)' /\ \A s \in Stream : Made(c, s) /\ ~Made(c, s)'
    BY <1>1, <2>1 DEF Reading, Made
  <2>3. \A s \in Stream : HoldsReadEnd(c, s)
    BY <2>1, <2>2 DEF CallerInv, PipesHeld
  <2>4. \A s \in Stream : HoldsReadEnd(c, s)'
    BY <1>1, <1>6, <2>3 DEF HoldsReadEnd
  <2>5. PipesHeld(c)' /\ PipesEmptied(c)'
    BY <2>1, <2>2, <2>4 DEF PipesHeld, PipesEmptied
  <2>6. \A s \in Stream : c \in writers[<<c, s>>] => c \in writers'[<<c, s>>]
    BY <1>4, ProcessAssumption
  <2>7. ChildWrites(c)'
    BY <1>1, <2>1, <2>2, <2>6 DEF CallerInv, ChildWrites
  <2>8. NothingLost(c)' /\ StatusIsTold(c)'
    BY <1>1, <2>1 DEF CallerInv, NothingLost, StatusIsTold
  <2> QED
    BY <2>5, <2>7, <2>8 DEF CallerInv
<1> QED
  BY <1>5, <1>7, <1>8 DEF ProcessInv

\* Poll: what it reports may be stale by the time it is used, and the invariant asks
\* nothing of it.
LEMMA PollKeeps ==
    ASSUME ProcessInv, NEW c \in Caller, Poll(c)
    PROVE  ProcessInv'
<1>1. /\ pc[c] = "polling" /\ pc' = [pc EXCEPT ![c] = "draining out"]
      /\ UNCHANGED <<table, readEnd, open, captured, buffer, writers, child, todo, status, wrote>>
  BY DEF Poll, Goto
<1>2. ProcessTypeOK'
  BY <1>1 DEF ProcessInv, ProcessTypeOK, Label
<1>3. ASSUME NEW d \in Caller PROVE CallerInv(d)'
  <2>1. CallerInv(d)
    BY DEF ProcessInv
  <2>2. CASE d # c
    <3>1. pc'[d] = pc[d]
      BY <1>1, <2>2 DEF ProcessInv, ProcessTypeOK
    <3> QED
      BY <1>1, <2>1, <3>1, OthersStay
  <2>3. CASE d = c
    <3>1. pc[d] = "polling" /\ pc'[d] = "draining out"
      BY <1>1, <2>3 DEF ProcessInv, ProcessTypeOK
    <3>2. /\ Reading(d) /\ Reading(d)' /\ \A s \in Stream : ~Made(d, s) /\ ~Made(d, s)'
          /\ \A s \in Stream : HoldsReadEnd(d, s) => HoldsReadEnd(d, s)'
      BY <1>1, <3>1 DEF Reading, Made, HoldsReadEnd
    <3>3. PipesHeld(d)' /\ ChildWrites(d)'
      BY <1>1, <2>1, <3>1, <3>2 DEF CallerInv, PipesHeld, ChildWrites
    <3>4. PipesEmptied(d)' /\ NothingLost(d)' /\ StatusIsTold(d)'
      BY <1>1, <2>1, <3>1, <3>2 DEF CallerInv, PipesEmptied, NothingLost, StatusIsTold
    <3> QED
      BY <3>3, <3>4 DEF CallerInv
  <2> QED
    BY <2>2, <2>3
<1> QED
  BY <1>2, <1>3 DEF ProcessInv

\* What is drained is the caller's own pipe, whose end it sees only when nobody is
\* left to write to it.
LEMMA DrainMoves ==
    ASSUME ProcessInv, NEW c \in Caller, NEW s \in Stream, Drain(c, s), Reading(c)
    PROVE  \/ UNCHANGED <<captured, buffer, open, table>>
           \/ /\ s \in open[c] /\ table[readEnd[c][s]] = <<c, s, "read">>
              /\ captured' = [captured EXCEPT ![c][s] = @ \o buffer[<<c, s>>]]
              /\ buffer' = [buffer EXCEPT ![<<c, s>>] = <<>>]
              /\ \/ /\ writers[<<c, s>>] = {}
                    /\ open' = [open EXCEPT ![c] = @ \ {s}]
                    /\ table' = [table EXCEPT ![readEnd[c][s]] = Free]
                 \/ UNCHANGED <<open, table>>
<1>1. CASE ~MayDrain(c, s)
  BY <1>1 DEF Drain
<1>2. CASE MayDrain(c, s)
  <2> DEFINE end == table[readEnd[c][s]]
             p == <<end[1], end[2]>>
  <2>1. s \in open[c]
    BY <1>2 DEF MayDrain
  <2>2. end = <<c, s, "read">>
    BY <2>1 DEF ProcessInv, CallerInv, PipesHeld, HoldsReadEnd
  <2>3. p = <<c, s>>
    BY <2>2
  <2>4. /\ captured' = [captured EXCEPT ![c][s] = @ \o buffer[p]]
        /\ buffer' = [buffer EXCEPT ![p] = <<>>]
        /\ IF writers[p] = {}
           THEN open' = [open EXCEPT ![c] = @ \ {s}] /\ table' = [table EXCEPT ![readEnd[c][s]] = Free]
           ELSE UNCHANGED <<open, table>>
    BY <1>2 DEF Drain
  <2> HIDE DEF p, end
  <2>5. CASE writers[p] = {}
    BY <2>1, <2>2, <2>3, <2>4, <2>5 DEF end
  <2>6. CASE writers[p] # {}
    BY <2>1, <2>2, <2>3, <2>4, <2>6 DEF end
  <2> QED
    BY <2>5, <2>6
<1> QED
  BY <1>1, <1>2

\* DrainOut and DrainErr: what leaves the pipe is captured behind what was captured
\* before, and a stream leaves `open` with its pipe empty and without writers.
LEMMA DrainingKeeps ==
    ASSUME ProcessInv, NEW c \in Caller, NEW s \in Stream, Drain(c, s), Reading(c),
           NEW label \in {"draining err", "polling", "waiting"},
           pc' = [pc EXCEPT ![c] = label], label = "waiting" => open'[c] = {},
           UNCHANGED <<readEnd, writers, child, todo, status, wrote>>
    PROVE  ProcessInv'
<1>1. ProcessTypeOK /\ CallerInv(c)
  BY DEF ProcessInv
<1>2. pc'[c] = label /\ \A d \in Caller : d # c => pc'[d] = pc[d]
  BY <1>1 DEF ProcessTypeOK
<1>3. Reading(c)' /\ \A t \in Stream : ~Made(c, t)' /\ ~Made(c, t)
  BY <1>2 DEF Reading, Made, Label
<1>4. pc' \in [Caller -> Label]
  BY <1>1 DEF ProcessTypeOK, Label
<1>5. ChildWrites(c)'
  BY <1>1, <1>2, <1>3 DEF CallerInv, ChildWrites, Reading
<1>6. StatusIsTold(c)'
  BY <1>1, <1>2 DEF CallerInv, StatusIsTold, Reading
<1>7. CASE UNCHANGED <<captured, buffer, open, table>>
  <2>1. ProcessTypeOK'
    BY <1>1, <1>4, <1>7 DEF ProcessTypeOK
  <2>2. ASSUME NEW d \in Caller, d # c PROVE CallerInv(d)'
    BY <1>2, <1>7, <2>2, OthersStay DEF ProcessInv
  <2>3. \A t \in Stream : HoldsReadEnd(c, t) => HoldsReadEnd(c, t)'
    BY <1>7 DEF HoldsReadEnd
  <2>4. PipesHeld(c)' /\ PipesEmptied(c)' /\ NothingLost(c)'
    BY <1>1, <1>2, <1>3, <1>7, <2>3 DEF CallerInv, PipesHeld, PipesEmptied, NothingLost
  <2> QED
    BY <1>5, <1>6, <2>1, <2>2, <2>4 DEF ProcessInv, CallerInv
<1>8. CASE /\ s \in open[c] /\ table[readEnd[c][s]] = <<c, s, "read">>
           /\ captured' = [captured EXCEPT ![c][s] = @ \o buffer[<<c, s>>]]
           /\ buffer' = [buffer EXCEPT ![<<c, s>>] = <<>>]
           /\ \/ /\ writers[<<c, s>>] = {}
                 /\ open' = [open EXCEPT ![c] = @ \ {s}]
                 /\ table' = [table EXCEPT ![readEnd[c][s]] = Free]
              \/ UNCHANGED <<open, table>>
  <2> DEFINE read == captured[c][s] \o buffer[<<c, s>>]
  <2>1. /\ <<c, s>> \in Pipe
        /\ buffer[<<c, s>>] \in Seq(Caller) /\ captured[c][s] \in Seq(Caller)
    <3>1. <<c, s>> \in Pipe
      BY EndsDiffer
    <3> QED
      BY <1>1, <3>1 DEF ProcessTypeOK
  <2>2. read \in Seq(Caller)
    BY <2>1, ConcatProperties
  <2>3. captured' \in [Caller -> [Stream -> Seq(Caller)]] /\ buffer' \in [Pipe -> Seq(Caller)]
    <3>1. captured' = [captured EXCEPT ![c][s] = read]
      BY <1>8
    <3> HIDE DEF read
    <3>2. captured' \in [Caller -> [Stream -> Seq(Caller)]]
      <4>1. captured \in [Caller -> [Stream -> Seq(Caller)]]
        BY <1>1 DEF ProcessTypeOK
      <4> QED
        BY <2>2, <3>1, <4>1
    <3>3. <<>> \in Seq(Caller)
      BY EmptySeq
    <3>4. buffer' \in [Pipe -> Seq(Caller)]
      BY <1>1, <1>8, <2>1, <3>3 DEF ProcessTypeOK
    <3> QED
      BY <3>2, <3>4
  <2>4. /\ open' \in [Caller -> SUBSET Stream] /\ table' = [n \in Descriptor |-> table'[n]]
        /\ open'[c] \subseteq open[c]
        /\ \A t \in Stream : t # s => (t \in open'[c] <=> t \in open[c])
    <3>1. CASE UNCHANGED <<open, table>>
      BY <1>1, <3>1 DEF ProcessTypeOK
    <3>2. CASE /\ open' = [open EXCEPT ![c] = @ \ {s}]
               /\ table' = [table EXCEPT ![readEnd[c][s]] = Free]
      BY <1>1, <3>2 DEF ProcessTypeOK
    <3> QED
      BY <1>8, <3>1, <3>2
  <2>5. ProcessTypeOK'
    BY <1>1, <1>4, <2>3, <2>4 DEF ProcessTypeOK
  <2>6. \A d \in Caller, t \in Stream, n \in Descriptor :
          table[n] = <<d, t, "read">> /\ <<d, t>> # <<c, s>> => table'[n] = table[n]
    <3>1. SUFFICES ASSUME NEW d \in Caller, NEW t \in Stream, NEW n \in Descriptor,
                          table[n] = <<d, t, "read">>, <<d, t>> # <<c, s>>
                   PROVE  table'[n] = table[n]
      OBVIOUS
    <3>2. n # readEnd[c][s]
      <4>1. table[readEnd[c][s]] = <<c, s, "read">>
        BY <1>8
      <4>2. n = readEnd[c][s] => <<d, t, "read">> = <<c, s, "read">>
        BY <3>1, <4>1
      <4>3. <<d, t, "read">> = <<c, s, "read">> => <<d, t>> = <<c, s>>
        OBVIOUS
      <4> QED
        BY <3>1, <4>2, <4>3
    <3>3. \/ table' = [table EXCEPT ![readEnd[c][s]] = Free]
          \/ table' = table
      BY <1>8
    <3>4. DOMAIN table = Descriptor
      BY <1>1 DEF ProcessTypeOK
    <3> QED
      BY <3>2, <3>3, <3>4
  <2>7. \A d \in Caller, t \in Stream :
          <<d, t>> # <<c, s>> => /\ buffer'[<<d, t>>] = buffer[<<d, t>>]
                                 /\ captured'[d][t] = captured[d][t]
    BY <1>1, <1>8, EndsDiffer DEF ProcessTypeOK
  <2>8. ASSUME NEW d \in Caller, d # c PROVE CallerInv(d)'
    <3>1. CallerInv(d) /\ pc'[d] = pc[d] /\ open'[d] = open[d] /\ captured'[d] = captured[d]
      BY <1>1, <1>2, <1>8, <2>8 DEF ProcessInv, ProcessTypeOK
    <3>2. /\ \A t \in Stream : buffer'[<<d, t>>] = buffer[<<d, t>>]
          /\ \A t \in Stream : \A n \in Descriptor :
                table[n] = <<d, t, "read">> => table'[n] = <<d, t, "read">>
      BY <2>6, <2>7, <2>8
    <3> QED
      BY <3>1, <3>2, OthersStay
  <2>9. buffer'[<<c, s>>] = <<>> /\ captured'[c][s] = captured[c][s] \o buffer[<<c, s>>]
    BY <1>1, <1>8, <2>1 DEF ProcessTypeOK
  <2>10. NothingLost(c)'
    <3>1. captured'[c][s] \o buffer'[<<c, s>>] = captured[c][s] \o buffer[<<c, s>>]
      BY <2>2, <2>9, ConcatEmptySeq
    <3>2. \A t \in Stream : t # s =>
            captured'[c][t] = captured[c][t] /\ buffer'[<<c, t>>] = buffer[<<c, t>>]
      BY <2>7
    <3> QED
      BY <1>1, <3>1, <3>2 DEF CallerInv, NothingLost
  <2>11. s \notin open'[c] => writers[<<c, s>>] = {}
    <3>1. CASE UNCHANGED <<open, table>>
      BY <1>8, <3>1
    <3> QED
      BY <1>8, <3>1
  <2>12. PipesEmptied(c)'
    <3>1. \A t \in Stream : t \notin open'[c] => buffer'[<<c, t>>] = <<>> /\ writers[<<c, t>>] = {}
      BY <1>1, <1>3, <2>4, <2>7, <2>9, <2>11 DEF CallerInv, PipesEmptied
    <3> QED
      BY <1>2, <1>3, <3>1 DEF PipesEmptied
  <2>13. PipesHeld(c)'
    <3>1. \A t \in Stream : t \in open[c] => HoldsReadEnd(c, t)
      BY <1>1 DEF CallerInv, PipesHeld
    <3>2. \A t \in Stream : t # s /\ t \in open[c] => HoldsReadEnd(c, t)'
      BY <2>6, <3>1 DEF HoldsReadEnd
    <3>3. s \in open'[c] => HoldsReadEnd(c, s)'
      <4>1. CASE UNCHANGED table
        BY <1>8, <3>1, <4>1 DEF HoldsReadEnd
      <4>2. CASE open' = [open EXCEPT ![c] = @ \ {s}]
        BY <1>1, <4>2 DEF ProcessTypeOK
      <4> QED
        BY <1>8, <4>1, <4>2
    <3> QED
      BY <1>3, <2>4, <3>2, <3>3 DEF PipesHeld
  <2> QED
    BY <1>5, <1>6, <2>5, <2>8, <2>10, <2>12, <2>13 DEF ProcessInv, CallerInv
<1> QED
  BY <1>7, <1>8, DrainMoves

\* WaitPid: the status is the last thing the child had to do.
LEMMA WaitPidKeeps ==
    ASSUME ProcessInv, NEW c \in Caller, WaitPid(c)
    PROVE  ProcessInv'
<1>1. /\ pc[c] = "waiting" /\ child[c] = "exited" /\ pc' = [pc EXCEPT ![c] = "returned"]
      /\ status' = [status EXCEPT ![c] = Head(todo[c])] /\ child' = [child EXCEPT ![c] = "reaped"]
      /\ UNCHANGED <<table, readEnd, open, captured, buffer, writers, todo, wrote>>
  BY DEF WaitPid, Goto
<1>2. ProcessTypeOK /\ CallerInv(c)
  BY DEF ProcessInv
<1>3. ProcessTypeOK'
  BY <1>1, <1>2 DEF ProcessTypeOK, Label
<1>4. ASSUME NEW d \in Caller, d # c PROVE CallerInv(d)'
  <2>1. CallerInv(d) /\ pc'[d] = pc[d] /\ child'[d] = child[d] /\ status'[d] = status[d]
    BY <1>1, <1>2, <1>4 DEF ProcessInv, ProcessTypeOK
  <2> QED
    BY <1>1, <2>1, OthersStay
<1>5. CallerInv(c)'
  <2>1. pc'[c] = "returned" /\ child'[c] = "reaped" /\ status'[c] = Head(todo[c])
    BY <1>1, <1>2 DEF ProcessTypeOK
  <2>2. Reading(c) /\ ~Reading(c)' /\ \A s \in Stream : ~Made(c, s)'
    BY <1>1, <2>1 DEF Reading, Made
  <2>3. \A s \in Stream : buffer[<<c, s>>] = <<>>
    BY <1>1, <1>2, <2>2 DEF CallerInv, PipesEmptied
  <2>4. Len(todo[c]) = 1 /\ IsScript(todo[c]) /\ Head(todo[c]) = todo[c][1]
    <3>1. Len(todo[c]) = 1 /\ IsScript(todo[c])
      BY <1>1, <1>2 DEF CallerInv, ChildWrites, StatusIsTold
    <3>2. todo[c] \in Seq(STRING)
      BY <3>1 DEF IsScript
    <3> QED
      BY <3>1, <3>2
  <2>5. PipesHeld(c)' /\ ChildWrites(c)' /\ PipesEmptied(c)'
    BY <1>1, <2>1, <2>2, <2>3, <2>4 DEF PipesHeld, ChildWrites, PipesEmptied
  <2>6. NothingLost(c)' /\ StatusIsTold(c)'
    BY <1>1, <1>2, <2>1, <2>4 DEF CallerInv, NothingLost, StatusIsTold
  <2> QED
    BY <2>5, <2>6 DEF CallerInv
<1> QED
  BY <1>3, <1>4, <1>5 DEF ProcessInv

-----------------------------------------------------------------------------
\* The first entry of a sequence, and the rest.
LEMMA TailFacts ==
    ASSUME NEW S, NEW q \in Seq(S), Len(q) > 0
    PROVE  /\ Len(q) \in Nat /\ 1 \in 1..Len(q) /\ Head(q) = q[1]
           /\ Tail(q) \in Seq(S) /\ Len(Tail(q)) = Len(q) - 1
           /\ Len(q) > 1 => Len(Tail(q)) > 0
           /\ \A i \in 1..Len(Tail(q)) :
                i + 1 \in 1..Len(q) /\ 1 < i + 1 /\ Tail(q)[i] = q[i + 1]
<1>1. q # <<>> /\ Len(q) \in Nat
  BY EmptySeq, LenProperties
<1>2. 1 \in 1..Len(q) /\ Head(q) = q[1]
  BY <1>1
<1>3. /\ Tail(q) \in Seq(S) /\ Len(Tail(q)) = Len(q) - 1
      /\ \A i \in 1..Len(Tail(q)) : Tail(q)[i] = q[i + 1]
  BY <1>1, HeadTailProperties
<1>4. \A n \in Nat : \A i \in 1..(n - 1) : i + 1 \in 1..n /\ 1 < i + 1
  OBVIOUS
<1> QED
  BY <1>1, <1>2, <1>3, <1>4

\* Positions of the rest, counted in the whole.
LEMMA Shifted ==
    ASSUME NEW n \in Nat, NEW i \in 1..(n - 1), NEW j \in 1..(n - 1)
    PROVE  (i + 1 < n <=> i < n - 1) /\ (i < j => i + 1 < j + 1)
  OBVIOUS

\* A script without its first entry, which was not its exit status, is a script.
LEMMA TailIsScript ==
    ASSUME NEW x, IsScript(x), Head(x) \in Stream \cup {"close out"}
    PROVE  /\ IsScript(Tail(x)) /\ Len(Tail(x)) = Len(x) - 1 /\ x[1] = Head(x) /\ Len(x) > 1
           /\ \A i \in 1..Len(Tail(x)) : i + 1 \in 1..Len(x) /\ Tail(x)[i] = x[i + 1]
           /\ Head(x) = "close out" => \A i \in 1..Len(Tail(x)) : Tail(x)[i] # "out"
<1>1. x \in Seq(STRING) /\ Len(x) > 0
  BY DEF IsScript
<1>2. /\ Len(x) \in Nat /\ 1 \in 1..Len(x) /\ Head(x) = x[1]
      /\ Tail(x) \in Seq(STRING) /\ Len(Tail(x)) = Len(x) - 1 /\ (Len(x) > 1 => Len(Tail(x)) > 0)
      /\ \A i \in 1..Len(Tail(x)) : i + 1 \in 1..Len(x) /\ 1 < i + 1 /\ Tail(x)[i] = x[i + 1]
  BY <1>1, TailFacts
<1>3. /\ \A i \in 1..Len(x) : x[i] \in Stream \cup {"close out"} <=> i < Len(x)
      /\ \A i, j \in 1..Len(x) : i < j /\ x[i] = "close out" => x[j] # "out"
  BY DEF IsScript
<1>4. Len(x) > 1
  BY <1>2, <1>3
<1>5. \A i, j \in 1..Len(Tail(x)) : /\ i + 1 < Len(x) <=> i < Len(Tail(x))
                                    /\ i < j => i + 1 < j + 1
  BY <1>2, Shifted
<1>6. \A i \in 1..Len(Tail(x)) : Tail(x)[i] \in Stream \cup {"close out"} <=> i < Len(Tail(x))
  BY <1>2, <1>3, <1>5
<1>7. \A i, j \in 1..Len(Tail(x)) : i < j /\ Tail(x)[i] = "close out" => Tail(x)[j] # "out"
  <2> SUFFICES ASSUME NEW i \in 1..Len(Tail(x)), NEW j \in 1..Len(Tail(x)), i < j,
                      Tail(x)[i] = "close out"
               PROVE  Tail(x)[j] # "out"
    OBVIOUS
  <2>1. i + 1 < j + 1
    BY <1>2, <1>5
  <2>2. i + 1 \in 1..Len(x) /\ j + 1 \in 1..Len(x) /\ x[i + 1] = "close out" /\ Tail(x)[j] = x[j + 1]
    BY <1>2
  <2> QED
    BY <1>3, <2>1, <2>2
<1>8. Len(Tail(x)) > 0
  BY <1>2, <1>4
<1>9. IsScript(Tail(x))
  BY <1>2, <1>6, <1>7, <1>8 DEF IsScript
<1>10. Head(x) = "close out" => \A i \in 1..Len(Tail(x)) : Tail(x)[i] # "out"
  BY <1>2, <1>3
<1> QED
  BY <1>2, <1>4, <1>9, <1>10

\* The parts that do not speak of the child hold after its steps when they held before.
LEMMA ChildLeavesCall ==
    ASSUME NEW c \in Caller, CallerInv(c), child[c] = "running",
           UNCHANGED <<pc, table, readEnd, open, captured, status>>,
           \A s \in Stream :
                /\ "parent" \in writers[<<c, s>>] => "parent" \in writers'[<<c, s>>]
                /\ writers[<<c, s>>] = {} => writers'[<<c, s>>] = {},
           child'[c] \in {"running", "exited"}, child'[c] = "exited" => Len(todo'[c]) = 1
    PROVE  /\ PipesHeld(c)' /\ StatusIsTold(c)' /\ (Reading(c)' <=> Reading(c))
           /\ pc[c] = "closing" \/ Reading(c)
<1>1. /\ Reading(c)' <=> Reading(c)
      /\ \A s \in Stream : (Made(c, s)' <=> Made(c, s)) /\ (HoldsReadEnd(c, s)' <=> HoldsReadEnd(c, s))
  BY DEF Reading, Made, HoldsReadEnd
<1>2. pc[c] = "closing" \/ Reading(c)
  BY DEF CallerInv, ChildWrites
<1>3. PipesHeld(c)'
  BY <1>1 DEF CallerInv, PipesHeld
<1>4. StatusIsTold(c)'
  BY DEF CallerInv, StatusIsTold
<1> QED
  BY <1>1, <1>2, <1>3, <1>4

\* Writes: the child is a writer of the pipe, so the caller has not seen its end; the
\* block goes behind what was written.
LEMMA WritesKeeps ==
    ASSUME ProcessInv, NEW c \in Caller, NEW s \in Stream, Writes(c, s)
    PROVE  ProcessInv'
<1>1. /\ child[c] = "running" /\ Head(todo[c]) = s
      /\ buffer' = [buffer EXCEPT ![<<c, s>>] = Append(@, c)]
      /\ wrote' = [wrote EXCEPT ![c][s] = Append(@, c)]
      /\ todo' = [todo EXCEPT ![c] = Tail(@)]
      /\ UNCHANGED <<pc, table, readEnd, open, captured, writers, child, status>>
  BY DEF Writes
<1>2. ProcessTypeOK /\ CallerInv(c)
  BY DEF ProcessInv
<1>3. <<c, s>> \in Pipe
  BY EndsDiffer
<1>4. buffer[<<c, s>>] \in Seq(Caller) /\ captured[c][s] \in Seq(Caller) /\ wrote[c][s] \in Seq(Caller)
  BY <1>2, <1>3 DEF ProcessTypeOK
<1>5. /\ Append(buffer[<<c, s>>], c) \in Seq(Caller) /\ Append(wrote[c][s], c) \in Seq(Caller)
      /\ Append(wrote[c][s], c) = captured[c][s] \o Append(buffer[<<c, s>>], c)
  <2>1. wrote[c][s] = captured[c][s] \o buffer[<<c, s>>]
    BY <1>2 DEF CallerInv, NothingLost
  <2>2. Append(wrote[c][s], c) = captured[c][s] \o Append(buffer[<<c, s>>], c)
    <3>1. ASSUME NEW p \in Seq(Caller), NEW q \in Seq(Caller)
          PROVE  Append(p \o q, c) = p \o Append(q, c)
      OBVIOUS
    <3>2. Append(captured[c][s] \o buffer[<<c, s>>], c) = captured[c][s] \o Append(buffer[<<c, s>>], c)
      BY <1>4, <3>1
    <3> QED
      BY <1>4, <2>1, <3>2, Zenon
  <2>3. Append(buffer[<<c, s>>], c) \in Seq(Caller) /\ Append(wrote[c][s], c) \in Seq(Caller)
    BY <1>4, AppendProperties
  <2> QED
    BY <1>4, <2>1, <2>2, <2>3
<1>6. /\ \A t \in Stream : wrote'[c][t] = IF t = s THEN Append(wrote[c][s], c) ELSE wrote[c][t]
      /\ \A d \in Caller : d # c => wrote'[d] = wrote[d] /\ todo'[d] = todo[d]
      /\ todo'[c] = Tail(todo[c])
      /\ wrote' \in [Caller -> [Stream -> Seq(Caller)]]
      /\ todo' = [d \in Caller |-> todo'[d]]
  <2>1. wrote \in [Caller -> [Stream -> Seq(Caller)]]
    BY <1>2 DEF ProcessTypeOK
  <2>2. todo = [d \in Caller |-> todo[d]]
    BY <1>2 DEF ProcessTypeOK
  <2>3. /\ \A t \in Stream : wrote'[c][t] = IF t = s THEN Append(wrote[c][s], c) ELSE wrote[c][t]
        /\ \A d \in Caller : d # c => wrote'[d] = wrote[d]
    BY <1>1, <2>1
  <2>4. wrote' \in [Caller -> [Stream -> Seq(Caller)]]
    BY <1>1, <1>5, <2>1
  <2>5. todo'[c] = Tail(todo[c]) /\ \A d \in Caller : d # c => todo'[d] = todo[d]
    BY <1>1, <2>2
  <2>6. todo' = [d \in Caller |-> todo'[d]]
    BY <1>1, <2>2
  <2> QED
    BY <2>3, <2>4, <2>5, <2>6
<1>7. /\ buffer'[<<c, s>>] = Append(buffer[<<c, s>>], c)
      /\ \A p \in Pipe : p # <<c, s>> => buffer'[p] = buffer[p]
      /\ buffer' \in [Pipe -> Seq(Caller)]
  <2>1. buffer \in [Pipe -> Seq(Caller)]
    BY <1>2 DEF ProcessTypeOK
  <2> QED
    BY <1>1, <1>3, <1>5, <2>1
<1>8. ProcessTypeOK'
  BY <1>1, <1>2, <1>6, <1>7 DEF ProcessTypeOK
<1>9. ASSUME NEW d \in Caller, d # c PROVE CallerInv(d)'
  <2>1. CallerInv(d)
    BY DEF ProcessInv
  <2>2. \A t \in Stream : buffer'[<<d, t>>] = buffer[<<d, t>>]
    BY <1>7, <1>9, EndsDiffer
  <2> QED
    BY <1>1, <1>6, <1>9, <2>1, <2>2, OthersStay
<1>10. CallerInv(c)'
  <2>1. IsScript(todo[c])
    BY <1>1, <1>2 DEF CallerInv, ChildWrites, Reading
  <2>2. /\ IsScript(Tail(todo[c])) /\ Len(todo[c]) > 1 /\ todo[c][1] = s
        /\ \A i \in 1..Len(Tail(todo[c])) : i + 1 \in 1..Len(todo[c]) /\ Tail(todo[c])[i] = todo[c][i + 1]
    BY <1>1, <2>1, TailIsScript
  <2>3. c \in writers[<<c, s>>]
    <3>1. Len(todo[c]) \in Nat
      BY <2>1, LenProperties DEF IsScript
    <3>2. 1 \in 1..Len(todo[c])
      BY <2>2, <3>1
    <3> QED
      BY <1>1, <1>2, <2>2, <3>2 DEF CallerInv, ChildWrites
  <2>4. PipesHeld(c)' /\ StatusIsTold(c)' /\ (Reading(c)' <=> Reading(c)) /\ (pc[c] = "closing" \/ Reading(c))
    BY <1>1, <1>2, ChildLeavesCall
  <2>5. Reading(c) => s \in open[c]
    BY <1>2, <2>3 DEF CallerInv, PipesEmptied
  <2>6. PipesEmptied(c)'
    <3>1. \A t \in Stream : t # s => buffer'[<<c, t>>] = buffer[<<c, t>>]
      BY <1>7, EndsDiffer
    <3>2. pc[c] # "waiting"
      BY <1>2, <2>4, <2>5 DEF CallerInv, PipesEmptied
    <3> QED
      BY <1>1, <1>2, <2>4, <2>5, <3>1, <3>2 DEF CallerInv, PipesEmptied
  <2>7. ChildWrites(c)'
    <3>1. \A t \in Stream : \A i \in 1..Len(Tail(todo[c])) :
            Tail(todo[c])[i] = t => c \in writers[<<c, t>>]
      BY <1>1, <1>2, <2>2 DEF CallerInv, ChildWrites
    <3> QED
      BY <1>1, <1>6, <2>2, <2>4, <3>1 DEF ChildWrites
  <2>8. NothingLost(c)'
    <3>1. \A t \in Stream : t # s => buffer'[<<c, t>>] = buffer[<<c, t>>]
      BY <1>7, EndsDiffer
    <3> QED
      BY <1>1, <1>2, <1>5, <1>6, <1>7, <3>1 DEF CallerInv, NothingLost
  <2> QED
    BY <2>4, <2>6, <2>7, <2>8 DEF CallerInv
<1> QED
  BY <1>8, <1>9, <1>10 DEF ProcessInv

\* ClosesOut: the child has nothing more to write there.
LEMMA ClosesOutKeeps ==
    ASSUME ProcessInv, NEW c \in Caller, ClosesOut(c)
    PROVE  ProcessInv'
<1>1. /\ child[c] = "running" /\ Head(todo[c]) = "close out"
      /\ writers' = [writers EXCEPT ![<<c, "out">>] = @ \ {c}]
      /\ todo' = [todo EXCEPT ![c] = Tail(@)]
      /\ UNCHANGED <<pc, table, readEnd, open, captured, buffer, child, status, wrote>>
  BY DEF ClosesOut
<1>2. ProcessTypeOK /\ CallerInv(c)
  BY DEF ProcessInv
<1>3. "out" \in Stream /\ <<c, "out">> \in Pipe
  BY EndsDiffer DEF Stream
<1>4. ProcessTypeOK'
  BY <1>1, <1>2, <1>3 DEF ProcessTypeOK
<1>5. todo'[c] = Tail(todo[c]) /\ \A d \in Caller : d # c => todo'[d] = todo[d]
  BY <1>1, <1>2 DEF ProcessTypeOK
<1>6. /\ writers'[<<c, "out">>] = writers[<<c, "out">>] \ {c}
      /\ \A p \in Pipe : p # <<c, "out">> => writers'[p] = writers[p]
  BY <1>1, <1>2, <1>3 DEF ProcessTypeOK
<1>7. ASSUME NEW d \in Caller, d # c PROVE CallerInv(d)'
  <2>1. CallerInv(d)
    BY DEF ProcessInv
  <2>2. \A t \in Stream : writers'[<<d, t>>] = writers[<<d, t>>]
    BY <1>6, <1>7, EndsDiffer
  <2> QED
    BY <1>1, <1>5, <1>7, <2>1, <2>2, OthersStay
<1>8. CallerInv(c)'
  <2>1. IsScript(todo[c])
    BY <1>1, <1>2 DEF CallerInv, ChildWrites, Reading
  <2>2. /\ IsScript(Tail(todo[c]))
        /\ \A i \in 1..Len(Tail(todo[c])) : /\ i + 1 \in 1..Len(todo[c])
                                            /\ Tail(todo[c])[i] = todo[c][i + 1]
                                            /\ Tail(todo[c])[i] # "out"
    BY <1>1, <2>1, TailIsScript
  <2>3. \A t \in Stream :
          /\ "parent" \in writers[<<c, t>>] => "parent" \in writers'[<<c, t>>]
          /\ writers[<<c, t>>] = {} => writers'[<<c, t>>] = {}
          /\ t # "out" => writers'[<<c, t>>] = writers[<<c, t>>]
    BY <1>6, EndsDiffer, ProcessAssumption
  <2>4. PipesHeld(c)' /\ StatusIsTold(c)' /\ (Reading(c)' <=> Reading(c)) /\ (pc[c] = "closing" \/ Reading(c))
    BY <1>1, <1>2, <2>3, ChildLeavesCall
  <2>5. PipesEmptied(c)' /\ NothingLost(c)'
    BY <1>1, <1>2, <2>3, <2>4 DEF CallerInv, PipesEmptied, NothingLost
  <2>6. ChildWrites(c)'
    <3>1. \A t \in Stream : \A i \in 1..Len(Tail(todo[c])) :
            Tail(todo[c])[i] = t => c \in writers'[<<c, t>>]
      BY <1>1, <1>2, <2>2, <2>3 DEF CallerInv, ChildWrites
    <3> QED
      BY <1>1, <1>5, <2>2, <2>4, <3>1 DEF ChildWrites
  <2> QED
    BY <2>4, <2>5, <2>6 DEF CallerInv
<1> QED
  BY <1>4, <1>7, <1>8 DEF ProcessInv

\* Exits: its status is all that is left to do; the pipes it inherited lose it as a writer.
LEMMA ExitsKeeps ==
    ASSUME ProcessInv, NEW c \in Caller, Exits(c)
    PROVE  ProcessInv'
<1>1. /\ child[c] = "running" /\ Len(todo[c]) = 1 /\ child' = [child EXCEPT ![c] = "exited"]
      /\ writers' = [p \in Pipe |-> writers[p] \ {c}]
      /\ UNCHANGED <<pc, table, readEnd, open, captured, buffer, todo, status, wrote>>
  BY DEF Exits
<1>2. ProcessTypeOK /\ CallerInv(c)
  BY DEF ProcessInv
<1>3. ProcessTypeOK'
  BY <1>1, <1>2 DEF ProcessTypeOK
<1>4. \A d \in Caller, s \in Stream : writers'[<<d, s>>] = writers[<<d, s>>] \ {c}
  BY <1>1, EndsDiffer
<1>5. child'[c] = "exited" /\ \A d \in Caller : d # c => child'[d] = child[d]
  BY <1>1, <1>2 DEF ProcessTypeOK
<1>6. ASSUME NEW d \in Caller, d # c PROVE CallerInv(d)'
  <2>1. CallerInv(d)
    BY DEF ProcessInv
  <2>2. \A s \in Stream :
          /\ \A x \in {"parent", d} : x \in writers[<<d, s>>] => x \in writers'[<<d, s>>]
          /\ writers[<<d, s>>] = {} => writers'[<<d, s>>] = {}
    BY <1>4, <1>6, ProcessAssumption
  <2> QED
    BY <1>1, <1>5, <1>6, <2>1, <2>2, OthersStay
<1>7. CallerInv(c)'
  <2>1. \A s \in Stream :
          /\ "parent" \in writers[<<c, s>>] => "parent" \in writers'[<<c, s>>]
          /\ writers[<<c, s>>] = {} => writers'[<<c, s>>] = {}
    BY <1>4, ProcessAssumption
  <2>2. PipesHeld(c)' /\ StatusIsTold(c)' /\ (Reading(c)' <=> Reading(c))
    BY <1>1, <1>2, <1>5, <2>1, ChildLeavesCall
  <2>3. PipesEmptied(c)' /\ NothingLost(c)' /\ ChildWrites(c)'
    BY <1>1, <1>2, <1>5, <2>1, <2>2 DEF CallerInv, PipesEmptied, NothingLost, ChildWrites
  <2> QED
    BY <2>2, <2>3 DEF CallerInv
<1> QED
  BY <1>3, <1>6, <1>7 DEF ProcessInv

\* A step of a call or of a child.
LEMMA ProcessStep ==
    ASSUME ProcessInv, NEW c \in Caller, CallStep(c) \/ ChildStep(c)
    PROVE  ProcessInv'
<1>1. CASE OpenOut(c) \/ OpenErr(c)
  BY <1>1, OpeningKeeps
<1>2. CASE LaunchFails(c) \/ Fork(c) \/ CloseWriteEnds(c) \/ Poll(c) \/ WaitPid(c)
  BY <1>2, LaunchFailsKeeps, ForkKeeps, CloseWriteEndsKeeps, PollKeeps, WaitPidKeeps
<1>3. CASE DrainOut(c)
  <2>1. /\ Drain(c, "out") /\ Reading(c) /\ "out" \in Stream
        /\ pc' = [pc EXCEPT ![c] = "draining err"]
        /\ UNCHANGED <<readEnd, writers, child, todo, status, wrote>>
    BY <1>3 DEF DrainOut, Goto, Reading, Stream
  <2> QED
    BY <2>1, DrainingKeeps
<1>4. CASE DrainErr(c)
  <2>1. /\ Drain(c, "err") /\ Reading(c) /\ "err" \in Stream
        /\ UNCHANGED <<readEnd, writers, child, todo, status, wrote>>
    BY <1>4 DEF DrainErr, Goto, Reading, Stream
  <2>2. CASE open'[c] = {}
    <3>1. pc' = [pc EXCEPT ![c] = "waiting"]
      BY <1>4, <2>2 DEF DrainErr, Goto
    <3> QED
      BY <2>1, <2>2, <3>1, DrainingKeeps
  <2>3. CASE open'[c] # {}
    <3>1. pc' = [pc EXCEPT ![c] = "polling"]
      BY <1>4, <2>3 DEF DrainErr, Goto
    <3> QED
      BY <2>1, <3>1, DrainingKeeps
  <2> QED
    BY <2>2, <2>3
<1>5. CASE ChildStep(c)
  <2>1. "out" \in Stream /\ "err" \in Stream
    BY DEF Stream
  <2> QED
    BY <1>5, <2>1, WritesKeeps, ClosesOutKeeps, ExitsKeeps DEF ChildStep
<1> QED
  BY <1>1, <1>2, <1>3, <1>4, <1>5 DEF CallStep

\* A step of a build that calls nothing.
LEMMA ProcessUnchanged ==
    ASSUME ProcessInv, UNCHANGED processVars
    PROVE  ProcessInv'
<1>1. ProcessTypeOK'
  BY DEF ProcessInv, processVars, ProcessTypeOK
<1>2. ASSUME NEW d \in Caller PROVE CallerInv(d)'
  <2>1. CallerInv(d)
    BY DEF ProcessInv
  <2> QED
    BY <2>1, OthersStay DEF processVars
<1> QED
  BY <1>1, <1>2 DEF ProcessInv

\* OutputComplete: a call that launched its child has seen the end of both streams, so
\* its pipes are empty and what it captured is what the child wrote.
LEMMA ProcessInvComplete == ProcessInv => OutputComplete
<1> SUFFICES ASSUME ProcessInv, NEW c \in Caller, pc[c] = "returned" PROVE captured[c] = wrote[c]
  BY DEF OutputComplete
<1>1. ProcessTypeOK /\ CallerInv(c) /\ ~Reading(c)
  BY DEF ProcessInv, Reading
<1>2. ASSUME NEW s \in Stream PROVE captured[c][s] = wrote[c][s]
  <2>1. buffer[<<c, s>>] = <<>> /\ wrote[c][s] = captured[c][s] \o buffer[<<c, s>>]
    BY <1>1 DEF CallerInv, PipesEmptied, NothingLost
  <2>2. captured[c][s] \in Seq(Caller)
    BY <1>1 DEF ProcessTypeOK
  <2> QED
    BY <2>1, <2>2, ConcatEmptySeq
<1>3. captured[c] \in [Stream -> Seq(Caller)] /\ wrote[c] \in [Stream -> Seq(Caller)]
  BY <1>1 DEF ProcessTypeOK
<1> QED
  BY <1>2, <1>3

-----------------------------------------------------------------------------
\* The path that a build writes: the requested one, or the caller's own.
LEMMA OutputApart ==
    ASSUME NEW c \in Caller
    PROVE  /\ mode[c] = "build" => Output(c) = "requested"
           /\ mode[c] # "build" => Output(c) # "requested"
           /\ Output(c) \in Path
           /\ c \in Copying("requested") <=> CopyingThere(c)
  BY ToolchainAssumption DEF Output, Path, Copying, CopyingThere

\* A step that does not write the requested output, and ends a copy to it only with the
\* report of a failure.
LEMMA CopiesKept ==
    ASSUME CopiesApart, RequestedIsBuilt, Requested' = Requested, overlapped' = overlapped,
           \A d \in Caller : CopyingThere(d)' =>
                CopyingThere(d) /\ step'[d] = step[d] /\ Block(d)' = Block(d),
           \A d \in Caller : CopyingThere(d) => CopyingThere(d)' \/ stage'[d] = "output-write",
           \A d \in Caller : stage[d] = "output-write" => stage'[d] = "output-write"
    PROVE  CopiesApart' /\ RequestedIsBuilt'
<1>1. RequestedIsBuilt'
  BY DEF RequestedIsBuilt, Built, Gap
<1>2. ASSUME ~overlapped PROVE CopiesApart'
  <2>1. \A c, d \in Caller : CopyingThere(c)' /\ CopyingThere(d)' => c = d
    BY <1>2 DEF CopiesApart
  <2>2. ASSUME NEW c \in Caller, mode'[c] = "build"
        PROVE  /\ step'[c] = "copying" => Requested' = <<>>
               /\ step'[c] = "copied" => Requested' = <<Block(c)'>>
    <3>1. CASE CopyingThere(c)'
      BY <1>2, <3>1 DEF CopiesApart, CopyingThere
    <3> QED
      BY <2>2, <3>1 DEF CopyingThere
  <2>3. ASSUME \A c \in Caller : ~CopyingThere(c)' /\ stage'[c] # "output-write"
        PROVE  \E b : Requested' = <<b, b>>
    BY <1>2, <2>3 DEF CopiesApart
  <2> QED
    BY <2>1, <2>2, <2>3 DEF CopiesApart
<1>3. ASSUME overlapped PROVE CopiesApart'
  BY <1>3 DEF CopiesApart
<1> QED
  BY <1>1, <1>2, <1>3

\* What the steps of a call and of a child leave to the others and to the build.
LEMMA ProcessMoves ==
    ASSUME ProcessInv, NEW c \in Caller, CallStep(c) \/ ChildStep(c)
    PROVE  /\ pc[c] \notin {"idle", "returned"}
           /\ \A d \in Caller : d # c => pc'[d] = pc[d] /\ child'[d] = child[d] /\ todo'[d] = todo[d]
           /\ child'[c] \in {"exited", "reaped"} =>
                /\ todo'[c] = todo[c]
                /\ child[c] \in {"exited", "reaped"} \/ Exits(c)
<1>1. ProcessTypeOK /\ CallerInv(c)
  BY DEF ProcessInv
<1>2. CASE CallStep(c)
  <2>1. pc[c] \notin {"idle", "returned"}
    BY <1>2 DEF CallStep, OpenOut, OpenErr, LaunchFails, Fork, CloseWriteEnds, Poll, DrainOut,
                DrainErr, WaitPid
  <2>2. todo' = todo /\ \E label : pc' = [pc EXCEPT ![c] = label]
    BY <1>2 DEF CallStep, OpenOut, OpenErr, LaunchFails, Fork, CloseWriteEnds, Poll, DrainOut,
                DrainErr, WaitPid, Goto
  <2>3. \/ child' = child
        \/ child' = [child EXCEPT ![c] = "running"]
        \/ child[c] = "exited" /\ child' = [child EXCEPT ![c] = "reaped"]
    BY <1>2 DEF CallStep, OpenOut, OpenErr, LaunchFails, Fork, CloseWriteEnds, Poll, DrainOut,
                DrainErr, WaitPid
  <2> QED
    BY <1>1, <2>1, <2>2, <2>3 DEF ProcessTypeOK
<1>3. CASE ChildStep(c)
  <2>1. child[c] = "running" /\ pc' = pc
    BY <1>3 DEF ChildStep, Writes, ClosesOut, Exits
  <2>2. pc[c] \notin {"idle", "returned"}
    BY <1>1, <2>1 DEF CallerInv, ChildWrites, Reading
  <2>3. CASE Exits(c)
    BY <1>1, <2>1, <2>2, <2>3 DEF Exits, ProcessTypeOK
  <2>4. CASE ~Exits(c)
    <3>1. child' = child /\ todo' = [todo EXCEPT ![c] = Tail(@)]
      BY <1>3, <2>4 DEF ChildStep, Writes, ClosesOut
    <3> QED
      BY <1>1, <2>1, <2>2, <3>1 DEF ProcessTypeOK
  <2> QED
    BY <2>3, <2>4
<1> QED
  BY <1>2, <1>3

\* Steps of a call and of its child leave the files alone, and the artifact of a compiler
\* that exits with success is whole.
LEMMA ProcessStepBuilds ==
    ASSUME BuildInv, NEW c \in Caller, (CallStep(c) /\ UNCHANGED buildVars) \/ Child(c)
    PROVE  BuildInv'
<1>1. ProcessInv /\ BuildTypeOK /\ CallsInPlace /\ ArtifactsWhole /\ RequestedIsBuilt /\ CopiesApart
  BY DEF BuildInv
<1>2. /\ CallStep(c) \/ ChildStep(c)
      /\ UNCHANGED <<step, mode, file, stage, overlapped>>
  BY DEF Child, buildVars
<1>3. ProcessInv'
  BY <1>1, <1>2, ProcessStep
<1>4. /\ pc[c] \notin {"idle", "returned"}
      /\ \A d \in Caller : d # c => pc'[d] = pc[d] /\ child'[d] = child[d] /\ todo'[d] = todo[d]
      /\ child'[c] \in {"exited", "reaped"} =>
           /\ todo'[c] = todo[c]
           /\ child[c] \in {"exited", "reaped"} \/ Exits(c)
  BY <1>1, <1>2, ProcessMoves
<1>5. step[c] \notin {"start", "copying", "copied"}
  BY <1>1, <1>4 DEF CallsInPlace
<1>6. CallsInPlace'
  BY <1>1, <1>2, <1>4, <1>5 DEF CallsInPlace
<1>7. /\ artifact' \in [Caller -> {"none", "partial", "whole"}]
      /\ \A d \in Caller : d # c => artifact'[d] = artifact[d]
      /\ Exits(c) /\ step[c] = "compiling" /\ todo[c] = <<"ok">> => artifact'[c] = "whole"
      /\ ~Exits(c) => artifact'[c] = artifact[c]
  <2>1. CASE UNCHANGED artifact /\ CallStep(c)
    <3>1. ~Exits(c)
      <4>1. CASE WaitPid(c)
        BY <4>1 DEF WaitPid, Exits
      <4>2. CASE ~WaitPid(c)
        <5>1. pc'[c] # pc[c]
          BY <1>1, <2>1, <4>2 DEF CallStep, OpenOut, OpenErr, LaunchFails, Fork, CloseWriteEnds,
             Poll, DrainOut, DrainErr, Goto, ProcessInv, ProcessTypeOK
        <5> QED
          BY <5>1 DEF Exits
      <4> QED
        BY <4>1, <4>2
    <3> QED
      BY <1>1, <2>1, <3>1 DEF BuildTypeOK
  <2>2. CASE Child(c)
    <3>1. CASE step[c] = "compiling" /\ Exits(c)
      BY <1>1, <2>2, <3>1 DEF Child, BuildTypeOK
    <3>2. CASE ~(step[c] = "compiling" /\ Exits(c))
      BY <1>1, <2>2, <3>2 DEF Child, BuildTypeOK
    <3> QED
      BY <3>1, <3>2
  <2> QED
    BY <2>1, <2>2 DEF buildVars
<1>8. ArtifactsWhole'
  BY <1>1, <1>2, <1>4, <1>5, <1>7 DEF ArtifactsWhole
<1>9. BuildTypeOK'
  BY <1>1, <1>2, <1>7 DEF BuildTypeOK
<1>10. CopiesApart' /\ RequestedIsBuilt'
  <2>1. \A d \in Caller : CopyingThere(d)' <=> CopyingThere(d)
    BY <1>2 DEF CopyingThere
  <2>2. \A d \in Caller : CopyingThere(d) => Block(d)' = Block(d)
    BY <1>5, <1>7 DEF CopyingThere, Block
  <2>3. Requested' = Requested
    BY <1>2 DEF Requested
  <2> QED
    BY <1>1, <1>2, <2>1, <2>2, <2>3, CopiesKept
<1> QED
  BY <1>3, <1>6, <1>8, <1>9, <1>10 DEF BuildInv

\* The requested output is there, whole, before the first build.
LEMMA BuildInit == InitTool => BuildInv
<1> SUFFICES ASSUME InitTool PROVE BuildInv
  OBVIOUS
<1>1. ProcessInv
  BY ProcessInit DEF InitTool
<1>2. /\ \A c \in Caller : step[c] = "start" /\ pc[c] = "idle" /\ stage[c] = "none"
      /\ Requested = <<Old, Old>> /\ Built(Old)
  BY DEF InitTool, InitProcess, Requested, Path, Built, Old
<1>3. BuildTypeOK
  BY DEF InitTool, BuildTypeOK
<1>4. CallsInPlace /\ ArtifactsWhole
  BY <1>2 DEF CallsInPlace, ArtifactsWhole
<1>5. RequestedIsBuilt
  BY <1>2 DEF RequestedIsBuilt
<1>6. CopiesApart
  BY <1>2 DEF CopiesApart, CopyingThere
<1> QED
  BY <1>1, <1>3, <1>4, <1>5, <1>6 DEF BuildInv

\* Begin.
LEMMA BeginBuilds ==
    ASSUME BuildInv, NEW c \in Caller, Begin(c)
    PROVE  BuildInv'
<1>1. ProcessInv /\ BuildTypeOK /\ CallsInPlace /\ ArtifactsWhole /\ RequestedIsBuilt /\ CopiesApart
  BY DEF BuildInv
<1>2. /\ step[c] = "start" /\ pc[c] = "idle" /\ stage[c] # "output-write"
      /\ UNCHANGED <<file, overlapped>>
  BY <1>1 DEF Begin, CallsInPlace
<1>3. PICK m \in {"build", "run"} : mode' = [mode EXCEPT ![c] = m]
  BY DEF Begin
<1>4. /\ \A d \in Caller : d # c => mode'[d] = mode[d]
      /\ mode' \in [Caller -> {"build", "run"}]
  BY <1>1, <1>3 DEF BuildTypeOK
<1>5. CASE \E failed \in {"diagnosed", "internal-tool"} : Finish(c, failed) /\ UNCHANGED processVars
  <2>1. PICK failed \in {"diagnosed", "internal-tool"} : Finish(c, failed) /\ UNCHANGED processVars
    BY <1>5
  <2>2. /\ step'[c] = "returned" /\ stage'[c] = failed
        /\ \A d \in Caller : d # c =>
             step'[d] = step[d] /\ stage'[d] = stage[d] /\ artifact'[d] = artifact[d]
        /\ BuildTypeOK'
    BY <1>1, <1>2, <1>4, <2>1 DEF Finish, BuildTypeOK
  <2>3. ProcessInv' /\ UNCHANGED <<pc, child, todo>>
    BY <1>1, <2>1, ProcessUnchanged DEF processVars
  <2>4. CallsInPlace' /\ ArtifactsWhole'
    BY <1>1, <1>4, <2>2, <2>3 DEF CallsInPlace, ArtifactsWhole
  <2>5. CopiesApart' /\ RequestedIsBuilt'
    <3>1. Requested' = Requested
      BY <1>2 DEF Requested
    <3>2. ~CopyingThere(c) /\ ~CopyingThere(c)'
      BY <1>2, <2>2 DEF CopyingThere
    <3>3. \A d \in Caller : d # c =>
            (CopyingThere(d)' <=> CopyingThere(d)) /\ Block(d)' = Block(d)
      BY <1>4, <2>2 DEF CopyingThere, Block
    <3> QED
      BY <1>1, <1>2, <2>2, <3>1, <3>2, <3>3, CopiesKept
  <2> QED
    BY <2>2, <2>3, <2>4, <2>5 DEF BuildInv
<1>6. CASE /\ Continue(c, "compiling") /\ UNCHANGED artifact
           /\ \E script \in CompilerScripts : Call(c, script)
  <2>1. PICK script \in CompilerScripts : Call(c, script)
    BY <1>6
  <2>2. ProcessInv'
    BY <1>1, <2>1, CallKeeps, ToolchainAssumption
  <2>3. /\ step'[c] = "compiling" /\ stage' = stage /\ artifact' = artifact
        /\ \A d \in Caller : d # c => step'[d] = step[d]
        /\ BuildTypeOK'
    BY <1>1, <1>2, <1>4, <1>6 DEF Continue, BuildTypeOK
  <2>4. /\ child'[c] = "none"
        /\ \A d \in Caller : d # c => pc'[d] = pc[d] /\ child'[d] = child[d] /\ todo'[d] = todo[d]
    BY <1>1, <2>1 DEF Call, Goto, ProcessInv, ProcessTypeOK
  <2>5. CallsInPlace' /\ ArtifactsWhole'
    BY <1>1, <1>2, <1>4, <2>3, <2>4 DEF CallsInPlace, ArtifactsWhole
  <2>6. CopiesApart' /\ RequestedIsBuilt'
    <3>1. Requested' = Requested
      BY <1>2 DEF Requested
    <3>2. ~CopyingThere(c) /\ ~CopyingThere(c)'
      BY <1>2, <2>3 DEF CopyingThere
    <3>3. \A d \in Caller : d # c =>
            (CopyingThere(d)' <=> CopyingThere(d)) /\ Block(d)' = Block(d)
      BY <1>4, <2>3 DEF CopyingThere, Block
    <3> QED
      BY <1>1, <1>2, <2>3, <3>1, <3>2, <3>3, CopiesKept
  <2> QED
    BY <2>2, <2>3, <2>5, <2>6 DEF BuildInv
<1> QED
  BY <1>5, <1>6 DEF Begin

\* A build that ends without writing the requested output: with a failure, or as the
\* program it ran returned.
LEMMA FinishBuilds ==
    ASSUME BuildInv, NEW c \in Caller, NEW result, Finish(c, result), UNCHANGED <<processVars, mode>>,
           file' = [p \in Path |-> file'[p]], Requested' = Requested, overlapped' = overlapped,
           stage[c] # "output-write", CopyingThere(c) => result = "output-write"
    PROVE  BuildInv'
<1>1. ProcessInv /\ BuildTypeOK /\ CallsInPlace /\ ArtifactsWhole /\ RequestedIsBuilt /\ CopiesApart
  BY DEF BuildInv
<1>2. /\ step'[c] = "returned" /\ stage'[c] = result
      /\ \A d \in Caller : d # c =>
             step'[d] = step[d] /\ stage'[d] = stage[d] /\ artifact'[d] = artifact[d]
      /\ BuildTypeOK'
  BY <1>1 DEF Finish, BuildTypeOK
<1>3. ProcessInv' /\ UNCHANGED <<pc, child, todo>>
  BY <1>1, ProcessUnchanged DEF processVars
<1>4. CallsInPlace' /\ ArtifactsWhole'
  BY <1>1, <1>2, <1>3 DEF CallsInPlace, ArtifactsWhole
<1>5. CopiesApart' /\ RequestedIsBuilt'
  <2>1. ~CopyingThere(c)'
    BY <1>2 DEF CopyingThere
  <2>2. \A d \in Caller : d # c =>
          (CopyingThere(d)' <=> CopyingThere(d)) /\ Block(d)' = Block(d)
    BY <1>2 DEF CopyingThere, Block
  <2> QED
    BY <1>1, <1>2, <2>1, <2>2, CopiesKept
<1> QED
  BY <1>2, <1>3, <1>4, <1>5 DEF BuildInv

\* A sequence of one entry.
LEMMA OneEntry ==
    ASSUME NEW S, NEW q \in Seq(S), Len(q) = 1
    PROVE  q = <<q[1]>>
  OBVIOUS

\* A process that succeeded had nothing but success left to do.
LEMMA SucceededWhole ==
    ASSUME BuildInv, NEW c \in Caller, step[c] = "compiling", pc[c] = "returned", ProcessSucceeded(c)
    PROVE  artifact[c] = "whole"
<1>1. CallerInv(c)
  BY DEF BuildInv, ProcessInv
<1>2. child[c] = "reaped" /\ Len(todo[c]) = 1 /\ todo[c][1] = "ok" /\ IsScript(todo[c])
  BY <1>1 DEF CallerInv, StatusIsTold, ChildWrites, ProcessSucceeded
<1>3. todo[c] \in Seq(STRING)
  BY <1>2 DEF IsScript
<1>4. todo[c] = <<todo[c][1]>>
  BY <1>2, <1>3, OneEntry
<1> QED
  BY <1>2, <1>4 DEF BuildInv, ArtifactsWhole

\* CompilerReturns, when the output could be opened: a build that finds no copy to the
\* requested output is the only one there, and has truncated it.
LEMMA CopyStarts ==
    ASSUME BuildInv, NEW c \in Caller, step[c] = "compiling", pc[c] = "returned",
           ProcessSucceeded(c), Continue(c, "copying"),
           file' = [file EXCEPT ![Output(c)] = <<>>],
           overlapped' = (overlapped \/ (Output(c) = "requested" /\ Copying("requested") # {})),
           UNCHANGED <<processVars, mode, artifact>>
    PROVE  BuildInv'
<1>1. ProcessInv /\ BuildTypeOK /\ CallsInPlace /\ ArtifactsWhole /\ RequestedIsBuilt /\ CopiesApart
  BY DEF BuildInv
<1>2. /\ step'[c] = "copying" /\ stage' = stage
      /\ \A d \in Caller : d # c => step'[d] = step[d]
      /\ BuildTypeOK'
  BY <1>1 DEF Continue, BuildTypeOK
<1>3. ProcessInv' /\ UNCHANGED <<pc, child, todo>>
  BY <1>1, ProcessUnchanged DEF processVars
<1>4. artifact[c] = "whole"
  BY SucceededWhole
<1>5. CallsInPlace' /\ ArtifactsWhole'
  BY <1>1, <1>2, <1>3, <1>4 DEF CallsInPlace, ArtifactsWhole
<1>6. ~CopyingThere(c) /\ \A d \in Caller : d # c => (CopyingThere(d)' <=> CopyingThere(d))
  BY <1>2 DEF CopyingThere
<1>7. \A d \in Caller : Block(d)' = Block(d)
  BY DEF Block
<1>8. CASE mode[c] = "build"
  <2>1. Output(c) = "requested" /\ "requested" \in Path
    BY <1>8, OutputApart DEF Path
  <2>2. Requested' = <<>>
    BY <1>1, <2>1 DEF Requested, BuildTypeOK
  <2>3. ~overlapped' => \A d \in Caller : ~CopyingThere(d)
    BY <2>1, OutputApart
  <2>4. RequestedIsBuilt'
    BY <2>2 DEF RequestedIsBuilt
  <2>5. CopyingThere(c)'
    BY <1>2, <1>8 DEF CopyingThere
  <2>6. CopiesApart'
    <3>1. ASSUME ~overlapped', NEW d \in Caller, CopyingThere(d)' PROVE d = c
      BY <1>6, <2>3, <3>1
    <3>2. ASSUME ~overlapped', NEW d \in Caller, mode'[d] = "build"
          PROVE  /\ step'[d] = "copying" => Requested' = <<>>
                 /\ step'[d] = "copied" => Requested' = <<Block(d)'>>
      BY <1>2, <2>2, <3>1, <3>2 DEF CopyingThere
    <3> QED
      BY <2>5, <3>1, <3>2 DEF CopiesApart
  <2> QED
    BY <1>2, <1>3, <1>5, <2>4, <2>6 DEF BuildInv
<1>9. CASE mode[c] # "build"
  <2>1. Output(c) # "requested"
    BY <1>9, OutputApart
  <2>2. Requested' = Requested /\ overlapped' = overlapped
    BY <1>1, <2>1 DEF Requested, BuildTypeOK
  <2>3. ~CopyingThere(c)'
    BY <1>9 DEF CopyingThere
  <2>4. CopiesApart' /\ RequestedIsBuilt'
    BY <1>1, <1>2, <1>6, <1>7, <2>2, <2>3, CopiesKept
  <2> QED
    BY <1>2, <1>3, <1>5, <2>4 DEF BuildInv
<1> QED
  BY <1>8, <1>9

\* CompilerReturns.
LEMMA CompilerReturnsBuilds ==
    ASSUME BuildInv, NEW c \in Caller, CompilerReturns(c)
    PROVE  BuildInv'
<1>1. /\ step[c] = "compiling" /\ pc[c] = "returned" /\ UNCHANGED <<processVars, mode>>
      /\ \/ /\ ProcessSucceeded(c) /\ Continue(c, "copying") /\ UNCHANGED artifact
            /\ file' = [file EXCEPT ![Output(c)] = <<>>]
            /\ overlapped' = (overlapped \/ (Output(c) = "requested" /\ Copying("requested") # {}))
         \/ \E result \in {"internal-tool", "host-compiler"} :
              Finish(c, result) /\ UNCHANGED <<file, overlapped>>
  BY DEF CompilerReturns
<1>2. ~CopyingThere(c) /\ stage[c] # "output-write" /\ file = [p \in Path |-> file[p]]
  BY <1>1 DEF CopyingThere, BuildInv, CallsInPlace, BuildTypeOK
<1>3. CASE \E result \in {"internal-tool", "host-compiler"} :
              Finish(c, result) /\ UNCHANGED <<file, overlapped>>
  <2>1. Requested' = Requested
    BY <1>3 DEF Requested
  <2> QED
    BY <1>1, <1>2, <1>3, <2>1, FinishBuilds
<1> QED
  BY <1>1, <1>3, CopyStarts

\* CopyFails: the failure is reported.
LEMMA CopyFailsBuilds ==
    ASSUME BuildInv, NEW c \in Caller, CopyFails(c)
    PROVE  BuildInv'
<1>1. /\ step[c] \in {"copying", "copied"} /\ Finish(c, "output-write")
      /\ UNCHANGED <<processVars, mode, file, overlapped>>
  BY DEF CopyFails, CopyStage
<1>2. stage[c] # "output-write" /\ file = [p \in Path |-> file[p]] /\ Requested' = Requested
  BY <1>1 DEF BuildInv, CallsInPlace, BuildTypeOK, Requested
<1> QED
  BY <1>1, <1>2, FinishBuilds

\* ProgramReturns: the program's file is the caller's own.
LEMMA ProgramReturnsBuilds ==
    ASSUME BuildInv, NEW c \in Caller, ProgramReturns(c)
    PROVE  BuildInv'
<1>1. PICK result \in {"success", "artifact-execution"} :
        /\ step[c] = "running" /\ Finish(c, result) /\ file' = [file EXCEPT ![Output(c)] = <<>>]
        /\ UNCHANGED <<processVars, mode, overlapped>>
  BY DEF ProgramReturns
<1>2. mode[c] = "run" /\ stage[c] # "output-write" /\ file = [p \in Path |-> file[p]]
  BY <1>1 DEF BuildInv, CallsInPlace, BuildTypeOK
<1>3. Output(c) # "requested" /\ ~CopyingThere(c)
  BY <1>1, <1>2, OutputApart DEF CopyingThere
<1>4. file' = [p \in Path |-> file'[p]] /\ Requested' = Requested
  BY <1>1, <1>2, <1>3 DEF Requested, Path
<1> QED
  BY <1>1, <1>2, <1>3, <1>4, FinishBuilds

\* What the first and the second write of a copy leave of a file.
LEMMA WrittenFirst ==
    ASSUME RequestedIsBuilt, NEW x, Built(x),
           Requested' = IF Requested = <<>> THEN <<x>> ELSE [Requested EXCEPT ![1] = x]
    PROVE  /\ RequestedIsBuilt'
           /\ Requested = <<>> => Requested' = <<x>>
<1>1. CASE Requested = <<>>
  BY <1>1 DEF RequestedIsBuilt, Built, Gap
<1>2. CASE \E b : Requested = <<b>> /\ Built(b)
  <2>1. PICK b : Requested = <<b>>
    BY <1>2
  <2>2. Requested' = <<x>> /\ Requested # <<>>
    BY <2>1
  <2> QED
    BY <2>2 DEF RequestedIsBuilt, Built, Gap
<1>3. CASE \E b, d : Requested = <<b, d>> /\ Built(b) /\ Built(d)
  <2>1. PICK b, d : Requested = <<b, d>> /\ Built(d)
    BY <1>3
  <2>2. Requested' = <<x, d>> /\ Requested # <<>>
    BY <2>1
  <2> QED
    BY <2>1, <2>2 DEF RequestedIsBuilt, Built, Gap
<1> QED
  BY <1>1, <1>2, <1>3 DEF RequestedIsBuilt

\* The second write leaves two blocks, and the first where it was.
LEMMA WrittenSecond ==
    ASSUME RequestedIsBuilt, NEW x, Built(x),
           Requested' = IF Requested = <<>> THEN <<Gap, x>> ELSE <<Requested[1], x>>
    PROVE  /\ RequestedIsBuilt'
           /\ Requested = <<x>> => Requested' = <<x, x>>
<1>1. CASE Requested = <<>>
  <2>1. Requested' = <<Gap, x>> /\ Requested # <<x>>
    BY <1>1
  <2> QED
    BY <2>1 DEF RequestedIsBuilt, Built, Gap
<1>2. CASE \E b : Requested = <<b>> /\ Built(b)
  <2>1. PICK b : Requested = <<b>> /\ Built(b)
    BY <1>2
  <2>2. Requested' = <<b, x>> /\ (Requested = <<x>> => b = x)
    BY <2>1
  <2> QED
    BY <2>1, <2>2 DEF RequestedIsBuilt, Built, Gap
<1>3. CASE \E b, d : Requested = <<b, d>> /\ Built(b) /\ Built(d)
  <2>1. PICK b, d : Requested = <<b, d>> /\ Built(b)
    BY <1>3
  <2>2. Requested' = <<b, x>> /\ Requested # <<x>>
    BY <2>1
  <2> QED
    BY <2>1, <2>2 DEF RequestedIsBuilt, Built, Gap
<1> QED
  BY <1>1, <1>2, <1>3 DEF RequestedIsBuilt

\* WriteFirst.
LEMMA WriteFirstBuilds ==
    ASSUME BuildInv, NEW c \in Caller, WriteFirst(c)
    PROVE  BuildInv'
<1>1. ProcessInv /\ BuildTypeOK /\ CallsInPlace /\ ArtifactsWhole /\ RequestedIsBuilt /\ CopiesApart
  BY DEF BuildInv
<1>2. /\ step[c] = "copying" /\ step'[c] = "copied" /\ stage' = stage
      /\ \A d \in Caller : d # c => step'[d] = step[d]
      /\ UNCHANGED <<processVars, mode, artifact, overlapped>>
      /\ file' = [file EXCEPT ![Output(c)] =
                    IF @ = <<>> THEN <<Block(c)>> ELSE [@ EXCEPT ![1] = Block(c)]]
      /\ BuildTypeOK'
  BY <1>1 DEF WriteFirst, Continue, BuildTypeOK
<1>3. ProcessInv' /\ UNCHANGED <<pc, child, todo>>
  BY <1>1, <1>2, ProcessUnchanged DEF processVars
<1>4. CallsInPlace' /\ ArtifactsWhole'
  BY <1>1, <1>2, <1>3 DEF CallsInPlace, ArtifactsWhole
<1>5. \A d \in Caller : (CopyingThere(d)' <=> CopyingThere(d)) /\ Block(d)' = Block(d)
  BY <1>2 DEF CopyingThere, Block
<1>6. CASE mode[c] = "build"
  <2>1. Output(c) = "requested" /\ "requested" \in Path /\ CopyingThere(c)
    BY <1>2, <1>6, OutputApart DEF Path, CopyingThere
  <2>2. Requested' = IF Requested = <<>> THEN <<Block(c)>> ELSE [Requested EXCEPT ![1] = Block(c)]
    BY <1>1, <1>2, <2>1 DEF Requested, BuildTypeOK
  <2>3. Built(Block(c))
    BY <1>1, <1>2 DEF ArtifactsWhole, Built, Block
  <2>4. RequestedIsBuilt' /\ (Requested = <<>> => Requested' = <<Block(c)>>)
    BY <1>1, <2>2, <2>3, WrittenFirst
  <2>5. CopiesApart'
    <3>1. ASSUME ~overlapped', NEW d \in Caller, CopyingThere(d)' PROVE d = c
      BY <1>1, <1>2, <1>5, <2>1, <3>1 DEF CopiesApart
    <3>2. ASSUME ~overlapped', NEW d \in Caller, mode'[d] = "build"
          PROVE  /\ step'[d] = "copying" => Requested' = <<>>
                 /\ step'[d] = "copied" => Requested' = <<Block(d)'>>
      <4>1. Requested = <<>>
        BY <1>1, <1>2, <1>6, <3>2 DEF CopiesApart
      <4> QED
        BY <1>2, <1>5, <2>4, <3>1, <3>2, <4>1 DEF CopyingThere
    <3> QED
      BY <1>5, <2>1, <3>1, <3>2 DEF CopiesApart
  <2> QED
    BY <1>2, <1>3, <1>4, <2>4, <2>5 DEF BuildInv
<1>7. CASE mode[c] # "build"
  <2>1. Output(c) # "requested"
    BY <1>7, OutputApart
  <2>2. Requested' = Requested
    BY <1>1, <1>2, <2>1 DEF Requested, BuildTypeOK
  <2>3. ~CopyingThere(c)
    BY <1>7 DEF CopyingThere
  <2>4. CopiesApart' /\ RequestedIsBuilt'
    BY <1>1, <1>2, <1>5, <2>2, <2>3, CopiesKept
  <2> QED
    BY <1>2, <1>3, <1>4, <2>4 DEF BuildInv
<1> QED
  BY <1>6, <1>7

\* WriteSecond: the build ends with a whole output, or runs the program it copied.
LEMMA WriteSecondBuilds ==
    ASSUME BuildInv, NEW c \in Caller, WriteSecond(c)
    PROVE  BuildInv'
<1>1. ProcessInv /\ BuildTypeOK /\ CallsInPlace /\ ArtifactsWhole /\ RequestedIsBuilt /\ CopiesApart
  BY DEF BuildInv
<1>2. /\ step[c] = "copied" /\ UNCHANGED <<mode, overlapped>>
      /\ file' = [file EXCEPT ![Output(c)] =
                    IF @ = <<>> THEN <<Gap, Block(c)>> ELSE <<@[1], Block(c)>>]
      /\ file' = [p \in Path |-> file'[p]]
  BY <1>1 DEF WriteSecond, BuildTypeOK
<1>3. pc[c] = "returned" /\ artifact[c] = "whole" /\ stage[c] # "output-write"
  BY <1>1, <1>2 DEF CallsInPlace, ArtifactsWhole
<1>4. CASE mode[c] = "build" /\ Finish(c, "success") /\ UNCHANGED processVars
  <2>1. /\ step'[c] = "returned" /\ stage'[c] = "success"
        /\ \A d \in Caller : d # c =>
             step'[d] = step[d] /\ stage'[d] = stage[d] /\ artifact'[d] = artifact[d]
        /\ BuildTypeOK'
    BY <1>1, <1>2, <1>4 DEF Finish, BuildTypeOK
  <2>2. ProcessInv' /\ UNCHANGED <<pc, child, todo>>
    BY <1>1, <1>4, ProcessUnchanged DEF processVars
  <2>3. CallsInPlace' /\ ArtifactsWhole'
    BY <1>1, <1>2, <2>1, <2>2 DEF CallsInPlace, ArtifactsWhole
  <2>4. Output(c) = "requested" /\ "requested" \in Path /\ CopyingThere(c) /\ ~CopyingThere(c)'
    BY <1>2, <1>4, <2>1, OutputApart DEF Path, CopyingThere
  <2>5. Requested' = IF Requested = <<>> THEN <<Gap, Block(c)>> ELSE <<Requested[1], Block(c)>>
    BY <1>1, <1>2, <2>4 DEF Requested, BuildTypeOK
  <2>6. Built(Block(c))
    BY <1>3 DEF Built, Block
  <2>7. RequestedIsBuilt' /\ (Requested = <<Block(c)>> => Requested' = <<Block(c), Block(c)>>)
    BY <1>1, <2>5, <2>6, WrittenSecond
  <2>8. CopiesApart'
    <3>1. ASSUME ~overlapped', NEW d \in Caller PROVE ~CopyingThere(d)'
      <4>1. d # c => ~CopyingThere(d)
        BY <1>1, <1>2, <2>4, <3>1 DEF CopiesApart
      <4>2. d # c => (CopyingThere(d)' <=> CopyingThere(d))
        BY <1>2, <2>1 DEF CopyingThere
      <4> QED
        BY <2>4, <4>1, <4>2
    <3>2. ~overlapped' => \E b : Requested' = <<b, b>>
      BY <1>1, <1>2, <1>4, <2>7 DEF CopiesApart
    <3> QED
      BY <3>1, <3>2 DEF CopiesApart, CopyingThere
  <2> QED
    BY <2>1, <2>2, <2>3, <2>7, <2>8 DEF BuildInv
<1>5. CASE /\ mode[c] = "run" /\ Continue(c, "running")
           /\ artifact' = [artifact EXCEPT ![c] = "none"]
           /\ \E script \in ProgramScripts : Call(c, script)
  <2>1. PICK script \in ProgramScripts : Call(c, script)
    BY <1>5
  <2>2. ProcessInv'
    BY <1>1, <2>1, CallKeeps, ToolchainAssumption
  <2>3. /\ step'[c] = "running" /\ stage' = stage
        /\ \A d \in Caller : d # c => step'[d] = step[d] /\ artifact'[d] = artifact[d]
        /\ BuildTypeOK'
    BY <1>1, <1>2, <1>5 DEF Continue, BuildTypeOK
  <2>4. /\ child'[c] = "none"
        /\ \A d \in Caller : d # c => pc'[d] = pc[d] /\ child'[d] = child[d] /\ todo'[d] = todo[d]
    BY <1>1, <2>1 DEF Call, Goto, ProcessInv, ProcessTypeOK
  <2>5. CallsInPlace' /\ ArtifactsWhole'
    BY <1>1, <1>2, <1>3, <1>5, <2>3, <2>4 DEF CallsInPlace, ArtifactsWhole
  <2>6. CopiesApart' /\ RequestedIsBuilt'
    <3>1. Output(c) # "requested" /\ ~CopyingThere(c) /\ ~CopyingThere(c)'
      BY <1>5, <2>3, OutputApart DEF CopyingThere
    <3>2. Requested' = Requested
      BY <1>1, <1>2, <3>1 DEF Requested, BuildTypeOK
    <3>3. \A d \in Caller : d # c =>
            (CopyingThere(d)' <=> CopyingThere(d)) /\ Block(d)' = Block(d)
      BY <1>2, <2>3 DEF CopyingThere, Block
    <3> QED
      BY <1>1, <1>2, <2>3, <3>1, <3>2, <3>3, CopiesKept
  <2> QED
    BY <2>2, <2>3, <2>5, <2>6 DEF BuildInv
<1> QED
  BY <1>4, <1>5 DEF WriteSecond, CopyStage

-----------------------------------------------------------------------------
\* Every step of the tools.
LEMMA BuildStepKeeps ==
    ASSUME BuildInv, [NextTool]_toolVars
    PROVE  BuildInv'
<1>1. CASE UNCHANGED toolVars
  <2>1. ProcessInv' /\ UNCHANGED <<pc, child, todo>> /\ UNCHANGED buildVars
    BY <1>1, ProcessUnchanged DEF toolVars, processVars, BuildInv
  <2>2. BuildTypeOK' /\ CallsInPlace' /\ ArtifactsWhole' /\ RequestedIsBuilt'
    BY <2>1 DEF BuildInv, buildVars, BuildTypeOK, CallsInPlace, ArtifactsWhole, RequestedIsBuilt,
                Requested, Built, Gap
  <2>3. CopiesApart'
    BY <2>1 DEF BuildInv, buildVars, CopiesApart, CopyingThere, Requested, Block
  <2> QED
    BY <2>1, <2>2, <2>3 DEF BuildInv
<1>2. CASE NextTool
  <2>1. PICK c \in Caller : (CallStep(c) /\ UNCHANGED buildVars) \/ Child(c) \/ BuildStep(c)
    BY <1>2 DEF NextTool
  <2>2. CASE (CallStep(c) /\ UNCHANGED buildVars) \/ Child(c)
    BY <2>2, ProcessStepBuilds
  <2>3. CASE BuildStep(c)
    BY <2>3, BeginBuilds, CompilerReturnsBuilds, WriteFirstBuilds, CopyFailsBuilds,
       WriteSecondBuilds, ProgramReturnsBuilds DEF BuildStep
  <2> QED
    BY <2>1, <2>2, <2>3
<1> QED
  BY <1>1, <1>2

\* The property of the output follows.
LEMMA BuildInvBuilt == BuildInv => OutputIsBuilt
<1> SUFFICES ASSUME BuildInv PROVE OutputIsBuilt
  OBVIOUS
<1> DEFINE blocks == Range(file["requested"])
<1>1. RequestedIsBuilt /\ CopiesApart /\ Requested = file["requested"]
  BY DEF BuildInv, Requested
<1>2. \A b \in blocks : b = Gap \/ b.artifact = "whole"
  <2>1. CASE Requested = <<>>
    BY <1>1, <2>1 DEF Range
  <2>2. CASE \E b : Requested = <<b>> /\ Built(b)
    BY <1>1, <2>2 DEF Range, Built
  <2>3. CASE \E b, d : Requested = <<b, d>> /\ Built(b) /\ Built(d)
    BY <1>1, <2>3 DEF Range, Built
  <2> QED
    BY <1>1, <2>1, <2>2, <2>3 DEF RequestedIsBuilt
<1>3. ASSUME ~overlapped, Copying("requested") = {}, \A c \in Caller : stage[c] # "output-write"
      PROVE  Len(file["requested"]) = 2 /\ Cardinality(blocks) = 1
  <2>1. \A c \in Caller : ~CopyingThere(c)
    BY <1>3, OutputApart
  <2>2. PICK b : file["requested"] = <<b, b>>
    BY <1>1, <1>3, <2>1 DEF CopiesApart
  <2>3. blocks = {b}
    BY <2>2 DEF Range
  <2>4. Cardinality({b}) = 1
    BY FS_Singleton
  <2> QED
    BY <2>2, <2>3, <2>4
<1> QED
  BY <1>2, <1>3 DEF OutputIsBuilt

\* However many threads run processes at once, a call that launched its child returns
\* everything the child wrote: Process.cpp's loop never reads a descriptor that another
\* call took over, and stops only when both of its own pipes are drained.
THEOREM OutputIsComplete == SpecTool => []OutputComplete
<1>1. BuildInv /\ [NextTool]_toolVars => BuildInv'
  BY BuildStepKeeps
<1>2. BuildInv => OutputComplete
  BY ProcessInvComplete DEF BuildInv
<1> QED
  BY BuildInit, <1>1, <1>2, PTL DEF SpecTool

\* Whatever the host compiler leaves behind when it fails, and however builds overlap, the
\* requested output is made of artifacts whose compiler succeeded, and it is torn only
\* during a copy, after one that reported its failure, or after two that overlapped.
THEOREM OutputBuilt == SpecTool => []OutputIsBuilt
<1>1. BuildInv /\ [NextTool]_toolVars => BuildInv'
  BY BuildStepKeeps
<1> QED
  BY BuildInit, <1>1, BuildInvBuilt, PTL DEF SpecTool
=============================================================================
