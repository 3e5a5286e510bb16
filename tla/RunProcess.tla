----------------------------- MODULE RunProcess -----------------------------
(***************************************************************************)
(* runProcess (tooling/v0/Process.cpp), called by several threads of one   *)
(* process: two pipes, fork, a loop that polls and drains both, waitpid.   *)
(*                                                                         *)
(* Descriptors are numbers of one table, taken lowest first and used again *)
(* once closed.  Nothing is close-on-exec: a child holds every write end   *)
(* that is open in the parent when it is forked.  A pipe holds Capacity    *)
(* blocks; a child that writes to a full one blocks.                       *)
(***************************************************************************)
EXTENDS Integers, FiniteSets, Sequences, SequencesExt

CONSTANTS
    Caller,      \* threads that call runProcess
    Capacity     \* blocks a pipe holds

ASSUME ProcessAssumption == "parent" \notin Caller

Stream == {"out", "err"}
Pipe == Caller \X Stream
Free == <<>>
Descriptor == 1..(4 * Cardinality(Caller))

VARIABLES
    pc,          \* of each caller: where its call is
    table,       \* of each descriptor: the end of a pipe, or Free
    readEnd,     \* of each caller: the descriptor it drains for each stream
    open,        \* of each caller: the streams it has not seen the end of
    ready,       \* of each caller: what poll reported
    captured,    \* of each caller and stream: what was read
    buffer,      \* of each pipe: the blocks in it
    writers,     \* of each pipe: who holds its write end, callers' children and "parent"
    child,       \* of each caller: its child's state
    todo,        \* of each caller: what its child has yet to do, its exit status last
    status,      \* of each caller: the exit status it reports, or "unlaunched"
    wrote        \* history: what the child of each caller wrote, by stream

processVars == <<pc, table, readEnd, open, ready, captured, buffer, writers, child, todo, status, wrote>>

InitProcess ==
    /\ pc = [c \in Caller |-> "idle"]
    /\ table = [d \in Descriptor |-> Free]
    /\ readEnd = [c \in Caller |-> [s \in Stream |-> 0]]
    /\ open = [c \in Caller |-> {}] /\ ready = [c \in Caller |-> {}]
    /\ captured = [c \in Caller |-> [s \in Stream |-> <<>>]]
    /\ buffer = [p \in Pipe |-> <<>>] /\ writers = [p \in Pipe |-> {}]
    /\ child = [c \in Caller |-> "none"] /\ todo = [c \in Caller |-> <<>>]
    /\ status = [c \in Caller |-> "unlaunched"]
    /\ wrote = [c \in Caller |-> [s \in Stream |-> <<>>]]

\* What a child may do: write blocks, close its standard output for good, and exit.
IsScript(script) ==
    LET n == Len(script) IN
    /\ script \in Seq(STRING) /\ n > 0
    /\ \A i \in 1..n : script[i] \in Stream \cup {"close out"} <=> i < n
    /\ \A i, j \in 1..n : i < j /\ script[i] = "close out" => script[j] # "out"

Goto(c, label) == pc' = [pc EXCEPT ![c] = label]

FreeDescriptors == {d \in Descriptor : table[d] = Free}

\* A call begins; script is what the child will do: blocks to write, and an exit status.
Call(c, script) ==
    /\ pc[c] \in {"idle", "returned"} /\ Goto(c, "piping")
    /\ todo' = [todo EXCEPT ![c] = script] /\ child' = [child EXCEPT ![c] = "none"]
    /\ captured' = [captured EXCEPT ![c] = [s \in Stream |-> <<>>]]
    /\ wrote' = [wrote EXCEPT ![c] = [s \in Stream |-> <<>>]]
    /\ status' = [status EXCEPT ![c] = "unlaunched"]
    /\ UNCHANGED <<table, readEnd, open, ready, buffer, writers>>

\* pipe(): the two lowest descriptors that are free.
NewPipe(c, s) ==
    \E r, w \in FreeDescriptors :
        /\ r < w /\ \A d \in FreeDescriptors : d < w => d = r
        /\ table' = [table EXCEPT ![r] = <<c, s, "read">>, ![w] = <<c, s, "write">>]
        /\ readEnd' = [readEnd EXCEPT ![c][s] = r]
        /\ writers' = [writers EXCEPT ![<<c, s>>] = {"parent"}]

\* The parent closes descriptors; a pipe loses the parent as a writer with its write end.
CloseAll(ends) ==
    /\ table' = [d \in Descriptor |-> IF table[d] \in ends THEN Free ELSE table[d]]
    /\ writers' = [p \in Pipe |-> IF <<p[1], p[2], "write">> \in ends THEN writers[p] \ {"parent"}
                                  ELSE writers[p]]

OpenOut(c) ==
    /\ pc[c] = "piping" /\ Goto(c, "piping err") /\ NewPipe(c, "out")
    /\ UNCHANGED <<open, ready, captured, buffer, child, todo, status, wrote>>

OpenErr(c) ==
    /\ pc[c] = "piping err" /\ Goto(c, "forking") /\ NewPipe(c, "err")
    /\ UNCHANGED <<open, ready, captured, buffer, child, todo, status, wrote>>

Ends(c) == {<<c, s, e>> : s \in Stream, e \in {"read", "write"}}

\* pipe or fork fails: what is open is closed, and the call returns.
LaunchFails(c) ==
    /\ pc[c] \in {"piping", "piping err", "forking"} /\ Goto(c, "returned")
    /\ CloseAll(Ends(c))
    /\ UNCHANGED <<readEnd, open, ready, captured, buffer, child, todo, status, wrote>>

\* The child keeps its own write ends as its standard streams, and every other end it
\* inherits.
Fork(c) ==
    /\ pc[c] = "forking" /\ Goto(c, "closing")
    /\ writers' = [p \in Pipe |-> IF "parent" \in writers[p] THEN writers[p] \cup {c} ELSE writers[p]]
    /\ child' = [child EXCEPT ![c] = "running"]
    /\ UNCHANGED <<table, readEnd, open, ready, captured, buffer, todo, status, wrote>>

\* Mutant of ParentCloses: the parent closes its end of standard output only.
ParentClosesOut(c) == {<<c, "out", "write">>}

ParentCloses(c) == {<<c, "out", "write">>, <<c, "err", "write">>}

CloseWriteEnds(c) ==
    /\ pc[c] = "closing" /\ Goto(c, "polling")
    /\ CloseAll(ParentCloses(c))
    /\ open' = [open EXCEPT ![c] = Stream]
    /\ UNCHANGED <<readEnd, ready, captured, buffer, child, todo, status, wrote>>

\* What poll says of a descriptor: data or the end of a pipe; a closed descriptor is
\* reported at once, and one that was taken again answers for its new owner.
Reported(d) ==
    \/ table[d] = Free
    \/ /\ table[d][3] = "read"
       /\ LET p == <<table[d][1], table[d][2]>> IN buffer[p] # <<>> \/ writers[p] = {}

Poll(c) ==
    /\ pc[c] = "polling"
    /\ ready' = [ready EXCEPT ![c] = {s \in Stream : Reported(readEnd[c][s])}]
    /\ ready'[c] # {} /\ Goto(c, "draining out")
    /\ UNCHANGED <<table, readEnd, open, captured, buffer, writers, child, todo, status, wrote>>

\* Mutant of MayDrain: a stream whose end was seen is drained again.
MayDrainAgain(c, s) == s \in ready[c] /\ table[readEnd[c][s]] # Free

MayDrain(c, s) == s \in ready[c] /\ s \in open[c]

\* appendAvailable: everything in the pipe; at its end the descriptor is closed.
Drain(c, s) ==
    LET end == table[readEnd[c][s]] p == <<end[1], end[2]>> IN
    IF MayDrain(c, s)
    THEN /\ captured' = [captured EXCEPT ![c][s] = @ \o buffer[p]]
         /\ buffer' = [buffer EXCEPT ![p] = <<>>]
         /\ IF writers[p] = {}
            THEN open' = [open EXCEPT ![c] = @ \ {s}] /\ table' = [table EXCEPT ![readEnd[c][s]] = Free]
            ELSE UNCHANGED <<open, table>>
    ELSE UNCHANGED <<captured, buffer, open, table>>

DrainOut(c) ==
    /\ pc[c] = "draining out" /\ Goto(c, "draining err") /\ Drain(c, "out")
    /\ UNCHANGED <<readEnd, ready, writers, child, todo, status, wrote>>

DrainErr(c) ==
    /\ pc[c] = "draining err" /\ Drain(c, "err")
    /\ Goto(c, IF open'[c] = {} THEN "waiting" ELSE "polling")
    /\ UNCHANGED <<readEnd, ready, writers, child, todo, status, wrote>>

WaitPid(c) ==
    /\ pc[c] = "waiting" /\ child[c] = "exited" /\ Goto(c, "returned")
    /\ status' = [status EXCEPT ![c] = Head(todo[c])]
    /\ child' = [child EXCEPT ![c] = "reaped"]
    /\ UNCHANGED <<table, readEnd, open, ready, captured, buffer, writers, todo, wrote>>

(***************************************************************************)
(* The child: it writes its blocks, may close a stream early, and exits.   *)
(***************************************************************************)
Writes(c, s) ==
    /\ child[c] = "running" /\ Head(todo[c]) = s /\ Len(buffer[<<c, s>>]) < Capacity
    /\ buffer' = [buffer EXCEPT ![<<c, s>>] = Append(@, c)]
    /\ wrote' = [wrote EXCEPT ![c][s] = Append(@, c)]
    /\ todo' = [todo EXCEPT ![c] = Tail(@)]
    /\ UNCHANGED <<pc, table, readEnd, open, ready, captured, writers, child, status>>

ClosesOut(c) ==
    /\ child[c] = "running" /\ Head(todo[c]) = "close out"
    /\ writers' = [writers EXCEPT ![<<c, "out">>] = @ \ {c}]
    /\ todo' = [todo EXCEPT ![c] = Tail(@)]
    /\ UNCHANGED <<pc, table, readEnd, open, ready, captured, buffer, child, status, wrote>>

Exits(c) ==
    /\ child[c] = "running" /\ Len(todo[c]) = 1
    /\ child' = [child EXCEPT ![c] = "exited"]
    /\ writers' = [p \in Pipe |-> writers[p] \ {c}]
    /\ UNCHANGED <<pc, table, readEnd, open, ready, captured, buffer, todo, status, wrote>>

CallStep(c) ==
    \/ OpenOut(c) \/ OpenErr(c) \/ LaunchFails(c) \/ Fork(c) \/ CloseWriteEnds(c)
    \/ Poll(c) \/ DrainOut(c) \/ DrainErr(c) \/ WaitPid(c)

ChildStep(c) == Writes(c, "out") \/ Writes(c, "err") \/ ClosesOut(c) \/ Exits(c)

-----------------------------------------------------------------------------
\* A call that launched its child returns everything the child wrote, stream by stream,
\* and nothing of another child's, whichever descriptors were closed and taken again
\* meanwhile.
OutputComplete ==
    \A c \in Caller : pc[c] = "returned" /\ status[c] # "unlaunched" => captured[c] = wrote[c]
=============================================================================
