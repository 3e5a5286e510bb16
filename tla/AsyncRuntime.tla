---------------------------- MODULE AsyncRuntime ----------------------------
(***************************************************************************)
(* The device-neutral asynchronous runtime of src/src/runtime/v0/Async.cpp *)
(* at the granularity of its critical sections: every action is one        *)
(* section under resourceMutex or under an operation's mutex, or one call  *)
(* of a backend callback, all of which the code makes with no lock held.   *)
(*                                                                         *)
(* observeImpl is recursive in the code.  The activation for operation o   *)
(* (from observing = true to the publication of its outcome) is frame[o];  *)
(* `observing` admits one activation per operation, so its locals are      *)
(* indexed by o.  A caller inside observeImpl(d) has callee = d: it        *)
(* returns when d is observed, and whoever finds d neither observed nor    *)
(* observing opens its frame.  The backend is external (Backend actions).  *)
(***************************************************************************)
EXTENDS Integers, FiniteSets

CONSTANTS
    Thread,         \* host threads that use the runtime
    Resource,       \* physical reservation roots (AsyncResource)
    InvalidResource,\* a default constructed AsyncResource
    MaxOp,          \* bound: number of submissions, in place of 2^64 ids
    AccessInputs,   \* the accesses a caller may pass: sets of <<resource, kind>>
    PollMayThrow,   \* a backend's poll callback may throw
    AllocMayFail,   \* push_back into a reservation list may throw bad_alloc
    HostAccess      \* host code also reads and mutates the resources

Kind == {"Read", "Write"}
Op == 1..MaxOp
NoOp == 0

ASSUME BoundAssumption == MaxOp \in Nat \ {0}
ASSUME ResourceAssumption == InvalidResource \notin Resource
ASSUME AccessAssumption ==
    AccessInputs \subseteq SUBSET ((Resource \cup {InvalidResource}) \X Kind)
ASSUME FlagAssumption ==
    /\ PollMayThrow \in BOOLEAN
    /\ AllocMayFail \in BOOLEAN
    /\ HostAccess \in BOOLEAN

VARIABLES
    nextOp,       \* nextOperation
    opState,      \* AsyncOperationImpl::state; "Unborn" before the id is drawn,
                  \* "Rejected" once submitAsyncOperation has returned an error
    observing, observed, released,
    outcome,      \* AsyncOperationImpl::outcome, "none" while default
    accesses, dependencies, closure,
    reservations, \* AsyncResourceState::reservations
    frame,        \* locals of the activation of observeImpl(o)
    backend,      \* external: what the backend does for o
    waits,        \* calls of the wait callback
    handle,       \* the AsyncOperation object owned by the caller
    unobserved,   \* unobservedErrors, each error by its operation
    reported,     \* where a failure has surfaced so far (history)
    pc, arg, callee, todo, polled  \* program counter and locals of a thread

opVars == <<opState, observing, observed, released, outcome>>
submitVars == <<nextOp, accesses, dependencies, closure>>
threadVars == <<pc, arg, callee, todo, polled>>
vars == <<nextOp, opState, observing, observed, released, outcome, accesses,
          dependencies, closure, reservations, frame, backend, waits, handle,
          unobserved, reported, pc, arg, callee, todo, polled>>

NoFrame == [at |-> "none", todo |-> {}, callee |-> NoOp,
            known |-> "none", failure |-> "none"]
Frame == [at : {"none", "deps", "wait", "release", "publish"},
          todo : SUBSET Op, callee : Op \cup {NoOp},
          known : {"none", "err"}, failure : {"none", "err"}]

(***************************************************************************)
(* Reservations.                                                           *)
(***************************************************************************)
\* Mutant of Conflicts: only two writers exclude each other.
ConflictsWriters(a, b) == a = "Write" /\ b = "Write"

Conflicts(a, b) == a = "Write" \/ b = "Write"

\* One access per resource; Write absorbs Read.
Normalized(acc) == {a \in acc : a[2] = "Read" => <<a[1], "Write">> \notin acc}

\* Mutant of WithoutOp: the whole list of each resource it holds is cleared.
WithoutAnyone(o) ==
    [r \in Resource |-> IF \E e \in reservations[r] : e[1] = o THEN {} ELSE reservations[r]]

WithoutOp(o) == [r \in Resource |-> {e \in reservations[r] : e[1] # o}]

\* What acquireReservations checks before it takes resourceMutex.
WellFormed(acc) == acc # {} /\ \A a \in acc : a[1] # InvalidResource

Exempt(o, holder) == holder \in closure[o]

Conflicting(o, acc) ==
    \E a \in acc : \E e \in reservations[a[1]] :
        Conflicts(a[2], e[2]) /\ ~Exempt(o, e[1])

Reserved(o, acc) ==
    [r \in Resource |-> reservations[r] \cup {<<o, a[2]>> : a \in {x \in acc : x[1] = r}}]

\* collectDependencyIds: every id reachable from ds.  It reads the vectors with
\* no lock; `lost` are the operations whose vector a concurrent observeImpl has
\* just cleared under its own lock (a data race: the reader may see it empty).
Reachable(ds, lost) ==
    {x \in Op : \A S \in SUBSET Op :
        (ds \subseteq S /\ \A y \in S \ lost : dependencies[y] \subseteq S) => x \in S}

Published(o) == opState[o] \in {"Pending", "Completed", "Failed", "Observed"}

-----------------------------------------------------------------------------
Init ==
    /\ nextOp = 1
    /\ opState = [o \in Op |-> "Unborn"]
    /\ observing = [o \in Op |-> FALSE]
    /\ observed = [o \in Op |-> FALSE]
    /\ released = [o \in Op |-> FALSE]
    /\ outcome = [o \in Op |-> "none"]
    /\ accesses = [o \in Op |-> {}]
    /\ dependencies = [o \in Op |-> {}]
    /\ closure = [o \in Op |-> {}]
    /\ reservations = [r \in Resource |-> {}]
    /\ frame = [o \in Op |-> NoFrame]
    /\ backend = [o \in Op |-> "idle"]
    /\ waits = [o \in Op |-> 0]
    /\ handle = [o \in Op |-> "none"]
    /\ unobserved = {}
    /\ reported = [o \in Op |-> {}]
    /\ pc = [t \in Thread |-> "idle"]
    /\ arg = [t \in Thread |-> NoOp]
    /\ callee = [t \in Thread |-> NoOp]
    /\ todo = [t \in Thread |-> {}]
    /\ polled = [t \in Thread |-> "Pending"]

Goto(t, label) == pc' = [pc EXCEPT ![t] = label]

\* The thread's call is over; its locals die with it.
Return(t) ==
    /\ pc' = [pc EXCEPT ![t] = "idle"]
    /\ arg' = [arg EXCEPT ![t] = NoOp]
    /\ callee' = [callee EXCEPT ![t] = NoOp]
    /\ todo' = [todo EXCEPT ![t] = {}]
    /\ polled' = [polled EXCEPT ![t] = "Pending"]

(***************************************************************************)
(* submitAsyncOperation.                                                   *)
(***************************************************************************)
Submit(t) ==
    /\ pc[t] = "idle" /\ nextOp \in Op
    /\ \E acc \in AccessInputs, ds \in SUBSET {d \in Op : Published(d)} :
       \E lost \in SUBSET {d \in Op : frame[d].at = "publish"} :
        /\ accesses' = [accesses EXCEPT ![nextOp] = acc]
        /\ dependencies' = [dependencies EXCEPT ![nextOp] = ds]
        /\ closure' = [closure EXCEPT ![nextOp] = Reachable(ds, lost)]
        /\ todo' = [todo EXCEPT ![t] = ds]
    /\ opState' = [opState EXCEPT ![nextOp] = "Submitted"]
    /\ arg' = [arg EXCEPT ![t] = nextOp]
    /\ nextOp' = nextOp + 1
    /\ Goto(t, "deps")
    /\ UNCHANGED <<observing, observed, released, outcome, reservations, frame, backend,
                   waits, handle, unobserved, reported, callee, polled>>

\* A default constructed AsyncDependency: the id is spent, nothing is observed.
SubmitInvalidDependency(t) ==
    /\ pc[t] = "idle" /\ nextOp \in Op
    /\ opState' = [opState EXCEPT ![nextOp] = "Rejected"]
    /\ nextOp' = nextOp + 1
    /\ UNCHANGED <<observing, observed, released, outcome, accesses, dependencies, closure,
                   reservations, frame, backend, waits, handle, unobserved, reported,
                   threadVars>>

\* The loop over the declared dependencies, in the caller's order.
SubmitObserveDependency(t) ==
    /\ pc[t] = "deps" /\ callee[t] = NoOp
    /\ \/ \E d \in todo[t] :
            /\ callee' = [callee EXCEPT ![t] = d]
            /\ todo' = [todo EXCEPT ![t] = @ \ {d}]
            /\ UNCHANGED pc
       \/ /\ todo[t] = {}
          /\ Goto(t, "acquire")
          /\ UNCHANGED <<callee, todo>>
    /\ UNCHANGED <<submitVars, opVars, reservations, frame, backend, waits, handle,
                   unobserved, reported, arg, polled>>

\* Mutant of ObserveReturns: a caller that finds the operation being observed does
\* not wait for the outcome.
ObserveReturnsEarly(d) == observed[d] \/ observing[d]

ObserveReturns(d) == observed[d] /\ ~observing[d]

\* Mutant of DependencySucceeded: the result of the observation is not looked at.
DependencyAssumedGood(d) == outcome[d] # "none"

DependencySucceeded(d) == outcome[d] = "ok"

SubmitDependencySucceeded(t) ==
    /\ pc[t] = "deps" /\ callee[t] # NoOp
    /\ ObserveReturns(callee[t]) /\ DependencySucceeded(callee[t])
    /\ callee' = [callee EXCEPT ![t] = NoOp]
    /\ UNCHANGED <<submitVars, opVars, reservations, frame, backend, waits, handle,
                   unobserved, reported, pc, arg, todo, polled>>

Reject(t) ==
    /\ opState' = [opState EXCEPT ![arg[t]] = "Rejected"]
    /\ Return(t)

SubmitDependencyFailed(t) ==
    /\ pc[t] = "deps" /\ callee[t] # NoOp
    /\ ObserveReturns(callee[t]) /\ outcome[callee[t]] = "err"
    /\ reported' = [reported EXCEPT ![callee[t]] = @ \cup {"dependency"}]
    /\ Reject(t)
    /\ UNCHANGED <<submitVars, observing, observed, released, outcome, reservations, frame,
                   backend, waits, handle, unobserved>>

\* acquireReservations throws before it touches a reservation list: no access,
\* an invalid resource, or a conflict.
AcquireRejected(t) ==
    LET acc == accesses[arg[t]] IN
    /\ pc[t] = "acquire"
    /\ WellFormed(acc) => Conflicting(arg[t], Normalized(acc))
    /\ Reject(t)
    /\ UNCHANGED <<submitVars, observing, observed, released, outcome, reservations, frame,
                   backend, waits, handle, unobserved, reported>>

Acquirable(t) ==
    LET acc == accesses[arg[t]] IN
    /\ pc[t] = "acquire"
    /\ WellFormed(acc)
    /\ ~Conflicting(arg[t], Normalized(acc))

Acquire(t) ==
    /\ Acquirable(t)
    /\ accesses' = [accesses EXCEPT ![arg[t]] = Normalized(@)]
    /\ reservations' = Reserved(arg[t], Normalized(accesses[arg[t]]))
    /\ Goto(t, "start")
    /\ UNCHANGED <<nextOp, dependencies, closure, opVars, frame, backend, waits, handle,
                   unobserved, reported, arg, callee, todo, polled>>

\* push_back throws after some accesses are entered: the catch clause returns
\* ASYNC-RESERVATION-FAILURE and releases nothing.
AcquireOutOfMemory(t) ==
    /\ AllocMayFail
    /\ Acquirable(t)
    /\ \E part \in SUBSET Normalized(accesses[arg[t]]) :
        /\ part # Normalized(accesses[arg[t]])
        /\ reservations' = Reserved(arg[t], part)
    /\ Reject(t)
    /\ UNCHANGED <<submitVars, observing, observed, released, outcome, frame, backend,
                   waits, handle, unobserved, reported>>

\* The submit callback.  When it reports an error, work it has already enqueued
\* may be running.
SubmitBackend(t) ==
    /\ pc[t] = "start"
    /\ \/ /\ backend' = [backend EXCEPT ![arg[t]] = "running"]
          /\ pc' \in {[pc EXCEPT ![t] = "publish"], [pc EXCEPT ![t] = "abort"]}
       \/ /\ Goto(t, "abort")
          /\ UNCHANGED backend
    /\ UNCHANGED <<submitVars, opVars, reservations, frame, waits, handle, unobserved,
                   reported, arg, callee, todo, polled>>

\* The abort callback drains what was enqueued before it returns.
Drained(o) == backend[o] # "running"

\* Mutant of AbortBackend: the error of submit is returned without calling abort.
AbortSkipped(t) ==
    /\ pc[t] = "abort"
    /\ Goto(t, "unwind")
    /\ UNCHANGED <<submitVars, opVars, reservations, frame, backend, waits, handle,
                   unobserved, reported, arg, callee, todo, polled>>

AbortBackend(t) ==
    /\ pc[t] = "abort"
    /\ Drained(arg[t])
    /\ Goto(t, "unwind")
    /\ UNCHANGED <<submitVars, opVars, reservations, frame, backend, waits, handle,
                   unobserved, reported, arg, callee, todo, polled>>

\* releaseReservations: a section under resourceMutex, idempotent.
ReleaseReservations(o) ==
    IF released[o] THEN UNCHANGED <<released, reservations, accesses>>
    ELSE /\ released' = [released EXCEPT ![o] = TRUE]
         /\ reservations' = WithoutOp(o)
         /\ accesses' = [accesses EXCEPT ![o] = {}]

\* Mutant of SubmitUnwind: the error is returned without giving anything back.
SubmitUnwindLeaks(t) ==
    /\ pc[t] = "unwind"
    /\ Reject(t)
    /\ UNCHANGED <<submitVars, observing, observed, released, outcome, reservations, frame,
                   backend, waits, handle, unobserved, reported>>

SubmitUnwind(t) ==
    /\ pc[t] = "unwind"
    /\ ReleaseReservations(arg[t])
    /\ Reject(t)
    /\ UNCHANGED <<nextOp, dependencies, closure, observing, observed, outcome, frame,
                   backend, waits, handle, unobserved, reported>>

SubmitPublish(t) ==
    /\ pc[t] = "publish"
    /\ opState' = [opState EXCEPT ![arg[t]] = "Pending"]
    /\ handle' = [handle EXCEPT ![arg[t]] = "live"]
    /\ Return(t)
    /\ UNCHANGED <<submitVars, observing, observed, released, outcome, reservations, frame,
                   backend, waits, unobserved, reported>>

(***************************************************************************)
(* observeImpl.                                                            *)
(***************************************************************************)
Called(o) == (\E t \in Thread : callee[t] = o) \/ (\E p \in Op : frame[p].callee = o)

\* Mutant of MayOpen: observeImpl does not wait for an observation in progress.
MayOpenAgain(o) == ~observed[o]

MayOpen(o) == ~observing[o] /\ ~observed[o]

ObserveEnter(o) ==
    /\ Called(o) /\ MayOpen(o)
    /\ observing' = [observing EXCEPT ![o] = TRUE]
    /\ frame' = [frame EXCEPT ![o] =
        [at |-> "deps", todo |-> dependencies[o], callee |-> NoOp, failure |-> "none",
         known |-> IF opState[o] = "Failed" THEN outcome[o] ELSE "none"]]
    /\ UNCHANGED <<submitVars, opState, observed, released, outcome, reservations, backend,
                   waits, handle, unobserved, reported, threadVars>>

\* The loop over operation->dependencies; the first failure ends it.
ObserveDependency(o) ==
    LET d == frame[o].callee IN
    /\ frame[o].at = "deps"
    /\ \/ /\ d = NoOp
          /\ \E e \in frame[o].todo :
               frame' = [frame EXCEPT ![o].callee = e, ![o].todo = @ \ {e}]
       \/ /\ d # NoOp /\ ObserveReturns(d) /\ outcome[d] = "ok"
          /\ frame' = [frame EXCEPT ![o].callee = NoOp]
       \/ /\ d # NoOp /\ ObserveReturns(d) /\ outcome[d] = "err"
          /\ frame' = [frame EXCEPT ![o].callee = NoOp, ![o].todo = {},
                                    ![o].failure = "err", ![o].at = "wait"]
       \/ /\ d = NoOp /\ frame[o].todo = {}
          /\ frame' = [frame EXCEPT ![o].at = "wait"]
    /\ UNCHANGED <<submitVars, opVars, reservations, backend, waits, handle, unobserved,
                   reported, threadVars>>

\* Mutant of FirstFailure: a failure learnt from an earlier poll is forgotten.
FirstFailureForgetsPoll(f, waitFailure) ==
    IF f.failure # "none" THEN f.failure ELSE waitFailure

FirstFailure(f, waitFailure) ==
    IF f.failure # "none" THEN f.failure
    ELSE IF f.known # "none" THEN f.known ELSE waitFailure

\* The wait callback returns once the backend is finished.
ObserveWait(o) ==
    /\ frame[o].at = "wait"
    /\ backend[o] \in {"ok", "err"}
    /\ waits' = [waits EXCEPT ![o] = @ + 1]
    /\ frame' = [frame EXCEPT ![o].at = "release", ![o].failure =
        FirstFailure(frame[o], IF backend[o] = "err" THEN "err" ELSE "none")]
    /\ UNCHANGED <<submitVars, opVars, reservations, backend, handle, unobserved, reported,
                   threadVars>>

ObserveRelease(o) ==
    /\ frame[o].at = "release"
    /\ ReleaseReservations(o)
    /\ frame' = [frame EXCEPT ![o].at = "publish"]
    /\ UNCHANGED <<nextOp, dependencies, closure, opState, observing, observed, outcome,
                   backend, waits, handle, unobserved, reported, threadVars>>

\* Mutant of Unlatched: the activation leaves `observing` set.
StaysLatched(o) == observing

Unlatched(o) == [observing EXCEPT ![o] = FALSE]

ObservePublish(o) ==
    /\ frame[o].at = "publish"
    /\ outcome' = [outcome EXCEPT ![o] = IF frame[o].failure = "none" THEN "ok" ELSE "err"]
    /\ observed' = [observed EXCEPT ![o] = TRUE]
    /\ observing' = Unlatched(o)
    /\ opState' = [opState EXCEPT ![o] = "Observed"]
    /\ dependencies' = [dependencies EXCEPT ![o] = {}]
    /\ closure' = [closure EXCEPT ![o] = {}]
    /\ frame' = [frame EXCEPT ![o] = NoFrame]
    /\ UNCHANGED <<nextOp, accesses, released, reservations, backend, waits, handle,
                   unobserved, reported, threadVars>>

(***************************************************************************)
(* The methods of a handle: observe, the destructor, state.  A handle is   *)
(* an ordinary object: nobody calls a method of it while it is destroyed.  *)
(***************************************************************************)
Observe(t) ==
    /\ pc[t] = "idle"
    /\ \E o \in Op :
        /\ handle[o] = "live"
        /\ arg' = [arg EXCEPT ![t] = o]
        /\ callee' = [callee EXCEPT ![t] = o]
    /\ Goto(t, "observe")
    /\ UNCHANGED <<submitVars, opVars, reservations, frame, backend, waits, handle,
                   unobserved, reported, todo, polled>>

Report(o, channel) ==
    reported' = IF outcome[o] = "err" THEN [reported EXCEPT ![o] = @ \cup {channel}]
                ELSE reported

ObserveDone(t) ==
    /\ pc[t] = "observe" /\ ObserveReturns(callee[t])
    /\ Report(callee[t], "observe")
    /\ Return(t)
    /\ UNCHANGED <<submitVars, opVars, reservations, frame, backend, waits, handle,
                   unobserved>>

InUse(o, t) == \E u \in Thread \ {t} : pc[u] \in {"observe", "poll", "apply"} /\ arg[u] = o

NeedsDrain(o) == ~observed[o]

\* drainOnDrop, from the destructor or from move assignment.
Drop(t) ==
    /\ pc[t] = "idle"
    /\ \E o \in Op :
        /\ handle[o] = "live" /\ ~InUse(o, t)
        /\ handle' = [handle EXCEPT ![o] = "dropped"]
        /\ IF NeedsDrain(o)
           THEN /\ Goto(t, "drain")
                /\ arg' = [arg EXCEPT ![t] = o]
                /\ callee' = [callee EXCEPT ![t] = o]
           ELSE UNCHANGED <<pc, arg, callee>>
    /\ UNCHANGED <<submitVars, opVars, reservations, frame, backend, waits, unobserved,
                   reported, todo, polled>>

\* Mutant of DropDone: the result of the drain is discarded.
DropDoneSilent(t) ==
    /\ pc[t] = "drain" /\ ObserveReturns(callee[t])
    /\ Return(t)
    /\ UNCHANGED <<submitVars, opVars, reservations, frame, backend, waits, handle,
                   unobserved, reported>>

DropDone(t) ==
    /\ pc[t] = "drain" /\ ObserveReturns(callee[t])
    /\ unobserved' = IF outcome[callee[t]] = "err" THEN unobserved \cup {callee[t]}
                     ELSE unobserved
    /\ Report(callee[t], "unobserved")
    /\ Return(t)
    /\ UNCHANGED <<submitVars, opVars, reservations, frame, backend, waits, handle>>

TakeUnobserved(t) ==
    /\ pc[t] = "idle" /\ unobserved # {}
    /\ unobserved' = {}
    /\ UNCHANGED <<submitVars, opVars, reservations, frame, backend, waits, handle,
                   reported, threadVars>>

\* state(): the first section decides to poll, ...
StateCheck(t) ==
    /\ pc[t] = "idle"
    /\ \E o \in Op :
        /\ handle[o] = "live"
        /\ opState[o] = "Pending" /\ ~observed[o] /\ ~observing[o]
        /\ arg' = [arg EXCEPT ![t] = o]
    /\ Goto(t, "poll")
    /\ UNCHANGED <<submitVars, opVars, reservations, frame, backend, waits, handle,
                   unobserved, reported, callee, todo, polled>>

PollAnswer(o) ==
    CASE backend[o] = "ok" -> "Completed"
      [] backend[o] = "err" -> "Failed"
      [] OTHER -> "Pending"

\* ... the callback runs with no lock held, ...
StatePoll(t) ==
    /\ pc[t] = "poll"
    /\ \/ polled' = [polled EXCEPT ![t] = PollAnswer(arg[t])]
       \/ PollMayThrow /\ polled' = [polled EXCEPT ![t] = "Failed"]
    /\ Goto(t, "apply")
    /\ UNCHANGED <<submitVars, opVars, reservations, frame, backend, waits, handle,
                   unobserved, reported, arg, callee, todo>>

\* Mutant of StillPending: the answer is applied without looking again.
PendingAssumed(o) == TRUE

StillPending(o) == opState[o] = "Pending"

\* Mutant of Answered: the error that comes with a failed poll is not stored.
AnsweredFailure(o, answer) == outcome

Answered(o, answer) ==
    IF answer = "Failed" THEN [outcome EXCEPT ![o] = "err"] ELSE outcome

\* ... and its answer is applied unless the state has moved on.
StateApply(t) ==
    LET o == arg[t] IN
    /\ pc[t] = "apply"
    /\ IF StillPending(o) /\ polled[t] # "Pending"
       THEN /\ opState' = [opState EXCEPT ![o] = polled[t]]
            /\ outcome' = Answered(o, polled[t])
       ELSE UNCHANGED <<opState, outcome>>
    /\ Return(t)
    /\ UNCHANGED <<submitVars, observing, observed, released, reservations, frame, backend,
                   waits, handle, unobserved, reported>>

(***************************************************************************)
(* Host code at the boundaries storage::Tensor guards.  requireMutable,    *)
(* requireMovable and requireDestroyable pass under the same condition.    *)
(* The access follows the check; arg holds the resource meanwhile.         *)
(***************************************************************************)
\* Mutant of Readable: completed-value reads do not look at pending writers.
ReadableAlways(r) == TRUE

Readable(r) == \A e \in reservations[r] : e[2] # "Write"
Unreserved(r) == reservations[r] = {}

HostRead(t) ==
    /\ HostAccess /\ pc[t] = "idle"
    /\ \E r \in Resource : Readable(r) /\ arg' = [arg EXCEPT ![t] = r]
    /\ Goto(t, "reading")
    /\ UNCHANGED <<submitVars, opVars, reservations, frame, backend, waits, handle,
                   unobserved, reported, callee, todo, polled>>

HostMutate(t) ==
    /\ HostAccess /\ pc[t] = "idle"
    /\ \E r \in Resource : Unreserved(r) /\ arg' = [arg EXCEPT ![t] = r]
    /\ Goto(t, "mutating")
    /\ UNCHANGED <<submitVars, opVars, reservations, frame, backend, waits, handle,
                   unobserved, reported, callee, todo, polled>>

HostAccessDone(t) ==
    /\ pc[t] \in {"reading", "mutating"}
    /\ Return(t)
    /\ UNCHANGED <<submitVars, opVars, reservations, frame, backend, waits, handle,
                   unobserved, reported>>

\* External: enqueued work finishes, with or without a deferred failure.
BackendFinish(o) ==
    /\ backend[o] = "running"
    /\ \E result \in {"ok", "err"} : backend' = [backend EXCEPT ![o] = result]
    /\ UNCHANGED <<submitVars, opVars, reservations, frame, waits, handle, unobserved,
                   reported, threadVars>>

-----------------------------------------------------------------------------
SubmitStep(t) ==
    \/ SubmitObserveDependency(t) \/ SubmitDependencySucceeded(t)
    \/ SubmitDependencyFailed(t) \/ AcquireRejected(t) \/ Acquire(t)
    \/ AcquireOutOfMemory(t) \/ SubmitBackend(t) \/ AbortBackend(t)
    \/ SubmitUnwind(t) \/ SubmitPublish(t)

\* Steps that finish a call already made; Call(t) makes a new one.
Running(t) ==
    \/ SubmitStep(t) \/ ObserveDone(t) \/ DropDone(t)
    \/ StatePoll(t) \/ StateApply(t) \/ HostAccessDone(t)

Call(t) ==
    \/ Submit(t) \/ SubmitInvalidDependency(t) \/ Observe(t) \/ Drop(t)
    \/ TakeUnobserved(t) \/ StateCheck(t) \/ HostRead(t) \/ HostMutate(t)

Activation(o) ==
    \/ ObserveEnter(o) \/ ObserveDependency(o) \/ ObserveWait(o)
    \/ ObserveRelease(o) \/ ObservePublish(o)

Next ==
    \/ \E t \in Thread : Call(t) \/ Running(t)
    \/ \E o \in Op : Activation(o) \/ BackendFinish(o)

Spec == Init /\ [][Next]_vars

\* A thread inside a call is scheduled; the backend finishes what it started.
\* Nobody is obliged to make a call.
Fairness ==
    /\ \A t \in Thread : WF_vars(Running(t))
    /\ \A o \in Op : WF_vars(Activation(o)) /\ WF_vars(BackendFinish(o))

FairSpec == Spec /\ Fairness

-----------------------------------------------------------------------------
(***************************************************************************)
(* Properties.                                                             *)
(***************************************************************************)
Holds(o, r) == \E k \in Kind : <<o, k>> \in reservations[r]

\* Every variable keeps its type, a thread's operation argument is one, and a
\* state of failure comes with its failure.
TypeOK ==
    /\ nextOp \in 1..(MaxOp + 1)
    /\ opState \in [Op -> {"Unborn", "Submitted", "Rejected", "Pending", "Completed",
                            "Failed", "Observed"}]
    /\ observing \in [Op -> BOOLEAN]
    /\ observed \in [Op -> BOOLEAN]
    /\ released \in [Op -> BOOLEAN]
    /\ outcome \in [Op -> {"none", "ok", "err"}]
    /\ \A o \in Op : opState[o] = "Failed" => outcome[o] = "err"
    /\ accesses \in [Op -> SUBSET ((Resource \cup {InvalidResource}) \X Kind)]
    /\ dependencies \in [Op -> SUBSET Op]
    /\ closure \in [Op -> SUBSET Op]
    /\ reservations \in [Resource -> SUBSET (Op \X Kind)]
    /\ frame \in [Op -> Frame]
    /\ backend \in [Op -> {"idle", "running", "ok", "err"}]
    /\ waits \in [Op -> Nat]
    /\ handle \in [Op -> {"none", "live", "dropped"}]
    /\ unobserved \in SUBSET Op
    /\ reported \in [Op -> SUBSET {"observe", "dependency", "unobserved"}]
    /\ pc \in [Thread -> {"idle", "deps", "acquire", "start", "abort", "unwind", "publish",
                           "observe", "drain", "poll", "apply", "reading", "mutating"}]
    /\ arg \in [Thread -> Op \cup {NoOp} \cup Resource]
    /\ \A t \in Thread :
        /\ pc[t] \in {"reading", "mutating"} => arg[t] \in Resource
        /\ pc[t] \notin {"idle", "reading", "mutating"} => arg[t] \in Op
        /\ pc[t] \in {"observe", "drain"} => callee[t] = arg[t]
    /\ callee \in [Thread -> Op \cup {NoOp}]
    /\ todo \in [Thread -> SUBSET Op]
    /\ polled \in [Thread -> {"Pending", "Completed", "Failed"}]

\* A pending writer is alone on its resource: whatever exemptions declared
\* predecessors give to acquireReservations, no conflicting operation gets in.
ReservationExclusion ==
    \A r \in Resource : \A e1, e2 \in reservations[r] :
        e1[1] # e2[1] => e1[2] = "Read" /\ e2[2] = "Read"

\* While the backend may touch an operation's resources, the operation still
\* reserves every one of them: neither observation nor the abort path lets go early.
BackendCovered ==
    \A o \in Op : backend[o] = "running" =>
        /\ ~released[o] /\ accesses[o] # {}
        /\ \A a \in accesses[o] : a[1] \in Resource /\ <<o, a[2]>> \in reservations[a[1]]

\* An operation that was rejected or observed reserves nothing (no leak on any
\* failure path of submission).
FinishedHoldsNothing ==
    \A o \in Op : opState[o] \in {"Rejected", "Observed"} => \A r \in Resource : ~Holds(o, r)

\* Reservations are taken all or none ("Submission atomically acquires a normalized
\* set of root reservations").
AcquisitionAtomic ==
    \A o \in Op : (\E r \in Resource : Holds(o, r)) =>
        \A a \in accesses[o] : Holds(o, a[1])

\* A consumer's backend work starts only after every declared predecessor was
\* observed to succeed, and stays behind successful predecessors.
PredecessorsSucceeded ==
    \A o \in Op : backend[o] # "idle" =>
        \A d \in dependencies[o] : observed[d] /\ outcome[d] = "ok"

\* The wait callback of an operation runs once, however many threads observe
\* the operation, drop its handle or name it as a dependency.
WaitOnce == \A o \in Op : waits[o] <= 1 /\ (observed[o] => waits[o] = 1)

\* An observed outcome is never revised, not even by a poll that was under way.
ObservationFinal ==
    [][\A o \in Op : observed[o] =>
        observed'[o] /\ outcome'[o] = outcome[o] /\ opState'[o] = "Observed"]_vars

\* A deferred failure is never lost: once published it has surfaced to an
\* observer, to a dependent submission or in the unobserved-error channel, or a
\* caller is still on its way to pick it up.
FailureSurfaces ==
    \A o \in Op : observed[o] /\ outcome[o] = "err" =>
        reported[o] # {} \/ \E t \in Thread : callee[t] = o

\* With one host thread a failure state() has answered is also the outcome that
\* observe() returns, even if the backend later calls the work a success.
FailedStateIsFinal ==
    [][\A o \in Op : opState[o] = "Failed" /\ opState'[o] = "Observed"
            => outcome'[o] = "err"]_vars

\* With one host thread an access the guards of AsyncResource let through never
\* overlaps backend work that conflicts with it.
HostAccessSafe ==
    \A t \in Thread : \A o \in Op : \A a \in accesses[o] :
        (backend[o] = "running" /\ arg[t] = a[1]) =>
            /\ pc[t] # "mutating"
            /\ pc[t] = "reading" => a[2] = "Read"

\* Every call returns: observers, dependent submissions and draining destructors
\* never wait on each other for good.
CallsReturn == \A t \in Thread : (pc[t] # "idle") ~> (pc[t] = "idle")

(***************************************************************************)
(* Refinement of AsyncContract.                                            *)
(***************************************************************************)
HeldBy(o) == {a \in Resource \X Kind : <<o, a[2]>> \in reservations[a[1]]}

PhaseOf(o) ==
    IF released[o] \/ opState[o] = "Rejected" THEN "closed"
    ELSE IF backend[o] = "running" THEN "running"
    ELSE IF backend[o] # "idle" THEN "finished"
    ELSE IF HeldBy(o) # {} THEN "reserved" ELSE "new"

Contract == INSTANCE AsyncContract WITH
    Operation <- Op, Root <- Resource, AccessKind <- Kind,
    Requests <- {Normalized(acc) : acc \in AccessInputs},
    phase <- [o \in Op |-> PhaseOf(o)],
    held <- [o \in Op |-> HeldBy(o)]

\* The runtime implements the reservation contract: acquisition and release are
\* atomic, and a predecessor's exemption never admits a conflicting operation.
ImplementsContract == Contract!ContractSpec
=============================================================================
