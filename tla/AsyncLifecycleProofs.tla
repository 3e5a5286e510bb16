------------------------ MODULE AsyncLifecycleProofs ------------------------
(***************************************************************************)
(* More proofs about AsyncRuntime, on top of the exclusion invariant: who  *)
(* waits for the backend and how often, what covers the work it does, what *)
(* becomes of an outcome once it is published.                             *)
(***************************************************************************)
EXTENDS AsyncRuntimeProofs

-----------------------------------------------------------------------------
(***************************************************************************)
(* Which steps write which variable.                                       *)
(***************************************************************************)
\* The backend's view of an operation, its outcome and its observation are written by
\* the few steps named here.
LEMMA Writers ==
    ASSUME Next
    PROVE  /\ \/ UNCHANGED backend
              \/ \E t \in Thread : SubmitBackend(t)
              \/ \E o \in Op : BackendFinish(o)
           /\ UNCHANGED <<frame, observing, waits>> \/ \E o \in Op : Activation(o)
           /\ UNCHANGED observed \/ \E o \in Op : ObservePublish(o)
           /\ \/ UNCHANGED outcome
              \/ \E t \in Thread : StateApply(t)
              \/ \E o \in Op : ObservePublish(o)
           /\ \/ UNCHANGED dependencies
              \/ \E t \in Thread : Submit(t)
              \/ \E o \in Op : ObservePublish(o)
<1>1. ASSUME NEW t \in Thread, Call(t)
      PROVE  /\ UNCHANGED <<backend, frame, observing, waits, observed, outcome>>
             /\ UNCHANGED dependencies \/ Submit(t)
  BY <1>1 DEF Call, Submit, SubmitInvalidDependency, Observe, Drop, TakeUnobserved,
     StateCheck, HostRead, HostMutate, submitVars, opVars
<1>2. ASSUME NEW t \in Thread, SubmitStep(t)
      PROVE  /\ UNCHANGED backend \/ SubmitBackend(t)
             /\ UNCHANGED <<frame, observing, waits, observed, outcome, dependencies>>
  BY <1>2 DEF SubmitStep, SubmitObserveDependency, SubmitDependencySucceeded,
     SubmitDependencyFailed, AcquireRejected, Acquire, AcquireOutOfMemory, SubmitBackend,
     AbortBackend, SubmitUnwind, SubmitPublish, submitVars, opVars
<1>3. ASSUME NEW t \in Thread, Running(t), ~SubmitStep(t)
      PROVE  /\ UNCHANGED <<backend, frame, observing, waits, observed, dependencies>>
             /\ UNCHANGED outcome \/ StateApply(t)
  BY <1>3 DEF Running, ObserveDone, DropDone, StatePoll, StateApply, HostAccessDone,
     submitVars, opVars
<1>4. ASSUME NEW o \in Op, Activation(o)
      PROVE  /\ UNCHANGED backend
             /\ UNCHANGED <<observed, outcome, dependencies>> \/ ObservePublish(o)
  BY <1>4 DEF Activation, ObserveEnter, ObserveDependency, ObserveWait, ObserveRelease,
     submitVars, opVars, ObservePublish
<1>5. ASSUME NEW o \in Op, BackendFinish(o)
      PROVE  UNCHANGED <<frame, observing, waits, observed, outcome, dependencies>>
  BY <1>5 DEF BackendFinish, submitVars, opVars
<1> QED BY <1>1, <1>2, <1>3, <1>4, <1>5 DEF Next

\* The reservations and the accesses are written by acquisition and release alone.
LEMMA ReservationWriters ==
    ASSUME Next
    PROVE  /\ \/ UNCHANGED <<released, reservations>>
              \/ \E t \in Thread : Acquire(t) \/ AcquireOutOfMemory(t) \/ SubmitUnwind(t)
              \/ \E o \in Op : ObserveRelease(o)
           /\ \/ UNCHANGED accesses
              \/ \E t \in Thread : Submit(t) \/ Acquire(t) \/ SubmitUnwind(t)
              \/ \E o \in Op : ObserveRelease(o)
<1>1. ASSUME NEW t \in Thread, Call(t)
      PROVE  UNCHANGED <<released, reservations>> /\ (UNCHANGED accesses \/ Submit(t))
  BY <1>1 DEF Call, Submit, SubmitInvalidDependency, Observe, Drop, TakeUnobserved,
     StateCheck, HostRead, HostMutate, submitVars, opVars
<1>2. ASSUME NEW t \in Thread, SubmitStep(t)
      PROVE  /\ \/ UNCHANGED <<released, reservations>>
                \/ Acquire(t) \/ AcquireOutOfMemory(t) \/ SubmitUnwind(t)
             /\ UNCHANGED accesses \/ Acquire(t) \/ SubmitUnwind(t)
  BY <1>2 DEF SubmitStep, SubmitObserveDependency, SubmitDependencySucceeded,
     SubmitDependencyFailed, AcquireRejected, AcquireOutOfMemory, SubmitBackend,
     AbortBackend, SubmitPublish, submitVars, opVars
<1>3. ASSUME NEW t \in Thread, Running(t), ~SubmitStep(t)
      PROVE  UNCHANGED <<released, reservations, accesses>>
  BY <1>3 DEF Running, ObserveDone, DropDone, StatePoll, StateApply, HostAccessDone,
     submitVars, opVars
<1>4. ASSUME NEW o \in Op, Activation(o)
      PROVE  UNCHANGED <<released, reservations, accesses>> \/ ObserveRelease(o)
  BY <1>4 DEF Activation, ObserveEnter, ObserveDependency, ObserveWait, ObservePublish,
     submitVars, opVars
<1>5. ASSUME NEW o \in Op, BackendFinish(o)
      PROVE  UNCHANGED <<released, reservations, accesses>>
  BY <1>5 DEF BackendFinish, submitVars, opVars
<1> QED BY <1>1, <1>2, <1>3, <1>4, <1>5 DEF Next

\* How a thread gets to each point of a submission.
LEMMA SubmissionMoves ==
    ASSUME TypeOK, Next, NEW u \in Thread
    PROVE  \/ pc'[u] = pc[u] /\ arg'[u] = arg[u]
           \/ ~Submitting(u)'
           \/ pc'[u] = "deps" /\ Submit(u)
           \/ pc'[u] = "acquire" /\ SubmitObserveDependency(u)
           \/ pc'[u] = "start" /\ Acquire(u)
           \/ pc'[u] \in {"publish", "abort"} /\ SubmitBackend(u)
           \/ pc'[u] = "unwind" /\ AbortBackend(u)
<1> DEFINE Kept == pc'[u] = pc[u] /\ arg'[u] = arg[u]
           Idle == pc'[u] = "idle"
<1>pc. /\ DOMAIN pc = Thread /\ DOMAIN arg = Thread
       /\ pc = [x \in Thread |-> pc[x]] /\ arg = [x \in Thread |-> arg[x]]
  BY DEF TypeOK
<1>1. ASSUME NEW t \in Thread, Call(t)
      PROVE  Kept \/ ~Submitting(u)' \/ (pc'[u] = "deps" /\ Submit(u))
  <2>1. CASE Submit(t)
    BY <1>pc, <2>1 DEF Submit, Goto
  <2>2. CASE Drop(t)
    BY <1>pc, <2>2 DEF Drop, Goto, Submitting
  <2>3. CASE SubmitInvalidDependency(t) \/ TakeUnobserved(t)
    BY <2>3 DEF SubmitInvalidDependency, TakeUnobserved, threadVars
  <2>4. CASE Observe(t) \/ StateCheck(t) \/ HostRead(t) \/ HostMutate(t)
    BY <1>pc, <2>4 DEF Observe, StateCheck, HostRead, HostMutate, Goto, Submitting
  <2> QED BY <1>1, <2>1, <2>2, <2>3, <2>4 DEF Call
<1>2. ASSUME NEW t \in Thread, Running(t)
      PROVE  \/ Kept \/ Idle \/ pc'[u] = "apply"
             \/ pc'[u] = "acquire" /\ SubmitObserveDependency(u)
             \/ pc'[u] = "start" /\ Acquire(u)
             \/ pc'[u] \in {"publish", "abort"} /\ SubmitBackend(u)
             \/ pc'[u] = "unwind" /\ AbortBackend(u)
  <2>1. CASE SubmitObserveDependency(t) \/ SubmitDependencySucceeded(t)
    BY <1>pc, <2>1 DEF SubmitObserveDependency, SubmitDependencySucceeded, Goto
  <2>2. CASE \/ SubmitDependencyFailed(t) \/ AcquireRejected(t) \/ AcquireOutOfMemory(t)
             \/ SubmitUnwind(t) \/ SubmitPublish(t)
    BY <1>pc, <2>2 DEF SubmitDependencyFailed, AcquireRejected, AcquireOutOfMemory,
       SubmitUnwind, SubmitPublish, Reject, Return
  <2>3. CASE Acquire(t) \/ AbortBackend(t)
    BY <1>pc, <2>3 DEF Acquire, AbortBackend, Goto
  <2>4. CASE SubmitBackend(t)
    <3>1. UNCHANGED arg /\ \E s \in {"publish", "abort"} : pc' = [pc EXCEPT ![t] = s]
      BY <2>4 DEF SubmitBackend, Goto
    <3> QED BY <1>pc, <2>4, <3>1
  <2>5. CASE ObserveDone(t) \/ DropDone(t) \/ StateApply(t) \/ HostAccessDone(t)
    BY <1>pc, <2>5 DEF ObserveDone, DropDone, StateApply, HostAccessDone, Return
  <2>6. CASE StatePoll(t)
    BY <1>pc, <2>6 DEF StatePoll, Goto
  <2> QED BY <1>2, <2>1, <2>2, <2>3, <2>4, <2>5, <2>6 DEF Running, SubmitStep
<1>3. ASSUME NEW o \in Op, Activation(o) \/ BackendFinish(o)
      PROVE  Kept
  BY <1>3 DEF Activation, ObserveEnter, ObserveDependency, ObserveWait, ObserveRelease,
     ObservePublish, BackendFinish, threadVars
<1> QED BY <1>1, <1>2, <1>3 DEF Next, Submitting

\* How the state of an operation moves.
LEMMA StateMoves ==
    ASSUME ExclusionInv, Next, NEW o \in Op
    PROVE  \/ opState'[o] = opState[o]
           \/ /\ opState[o] = "Pending" /\ opState'[o] \in {"Completed", "Failed"}
              /\ \E t \in Thread : StateApply(t)
           \/ opState'[o] = "Submitted" /\ o = nextOp /\ \E t \in Thread : Submit(t)
           \/ /\ opState'[o] = "Rejected"
              /\ \/ opState[o] = "Unborn"
                 \/ \E t \in Thread : /\ pc[t] \in {"deps", "acquire", "unwind"} /\ arg[t] = o
                                      /\ opState[o] = "Submitted"
                                      /\ \/ SubmitDependencyFailed(t) \/ AcquireRejected(t)
                                         \/ AcquireOutOfMemory(t) \/ SubmitUnwind(t)
           \/ /\ opState'[o] = "Pending"
              /\ \E t \in Thread : /\ pc[t] = "publish" /\ arg[t] = o
                                   /\ opState[o] = "Submitted" /\ SubmitPublish(t)
           \/ opState'[o] = "Observed" /\ ObservePublish(o)
<1>s. /\ opState = [p \in Op |-> opState[p]]
      /\ \A t \in Thread : Submitting(t) => arg[t] \in Op /\ opState[arg[t]] = "Submitted"
  BY DEF ExclusionInv, TypeOK, SubmissionsApart, Submitting
<1>1. ASSUME NEW t \in Thread, Submit(t) \/ SubmitInvalidDependency(t)
      PROVE  \/ opState'[o] = opState[o]
             \/ opState'[o] = "Submitted" /\ o = nextOp /\ Submit(t)
             \/ opState'[o] = "Rejected" /\ opState[o] = "Unborn"
  <2>1. opState[nextOp] = "Unborn" \/ o # nextOp
    BY DEF ExclusionInv, TypeOK, SubmissionsApart, Op
  <2>2. CASE Submit(t)
    BY <1>s, <2>1, <2>2 DEF Submit
  <2>3. CASE SubmitInvalidDependency(t)
    BY <1>s, <2>1, <2>3 DEF SubmitInvalidDependency
  <2> QED BY <1>1, <2>2, <2>3
<1>2. ASSUME NEW t \in Thread, Call(t), ~Submit(t), ~SubmitInvalidDependency(t)
      PROVE  UNCHANGED opState
  BY <1>2 DEF Call, Observe, Drop, TakeUnobserved, StateCheck, HostRead, HostMutate, opVars
<1>3. ASSUME NEW t \in Thread, \/ SubmitDependencyFailed(t) \/ AcquireRejected(t)
                               \/ AcquireOutOfMemory(t) \/ SubmitUnwind(t)
      PROVE  \/ opState'[o] = opState[o]
             \/ /\ opState'[o] = "Rejected" /\ pc[t] \in {"deps", "acquire", "unwind"}
                /\ arg[t] = o /\ opState[o] = "Submitted"
  <2>1. /\ opState' = [opState EXCEPT ![arg[t]] = "Rejected"]
        /\ pc[t] \in {"deps", "acquire", "unwind"}
    BY <1>3 DEF SubmitDependencyFailed, AcquireRejected, AcquireOutOfMemory, Acquirable,
       SubmitUnwind, Reject
  <2> QED BY <1>s, <2>1 DEF Submitting
<1>4. ASSUME NEW t \in Thread, SubmitPublish(t)
      PROVE  \/ opState'[o] = opState[o]
             \/ /\ opState'[o] = "Pending" /\ pc[t] = "publish" /\ arg[t] = o
                /\ opState[o] = "Submitted"
  BY <1>s, <1>4 DEF SubmitPublish, Submitting
<1>5. ASSUME NEW t \in Thread, StateApply(t)
      PROVE  \/ opState'[o] = opState[o]
             \/ opState[o] = "Pending" /\ opState'[o] \in {"Completed", "Failed"}
  <2>1. polled[t] \in {"Pending", "Completed", "Failed"}
    BY DEF ExclusionInv, TypeOK
  <2> QED BY <1>s, <1>5, <2>1 DEF StateApply, StillPending
<1>6. ASSUME NEW t \in Thread, \/ SubmitObserveDependency(t) \/ SubmitDependencySucceeded(t)
                               \/ Acquire(t) \/ SubmitBackend(t) \/ AbortBackend(t)
      PROVE  UNCHANGED opState
  BY <1>6 DEF SubmitObserveDependency, SubmitDependencySucceeded, Acquire, SubmitBackend,
     AbortBackend, opVars
<1>7. ASSUME NEW t \in Thread, ObserveDone(t) \/ DropDone(t) \/ StatePoll(t)
                               \/ HostAccessDone(t)
      PROVE  UNCHANGED opState
  BY <1>7 DEF ObserveDone, DropDone, StatePoll, HostAccessDone, opVars
<1>8. ASSUME NEW p \in Op, ObservePublish(p)
      PROVE  opState'[o] = opState[o] \/ (opState'[o] = "Observed" /\ p = o)
  BY <1>s, <1>8 DEF ObservePublish
<1>9. ASSUME NEW p \in Op, \/ ObserveEnter(p) \/ ObserveDependency(p) \/ ObserveWait(p)
                           \/ ObserveRelease(p) \/ BackendFinish(p)
      PROVE  UNCHANGED opState
  BY <1>9 DEF ObserveEnter, ObserveDependency, ObserveWait, ObserveRelease, BackendFinish,
     opVars
<1> QED
  BY <1>1, <1>2, <1>3, <1>4, <1>5, <1>6, <1>7, <1>8, <1>9
  DEF Next, Call, Running, SubmitStep, Activation

\* What a step of the activation of o does to activations.
LEMMA ActivationMoves ==
    ASSUME TypeOK, NEW o \in Op, Activation(o)
    PROVE  /\ \A p \in Op \ {o} : /\ frame'[p] = frame[p] /\ observing'[p] = observing[p]
                                  /\ waits'[p] = waits[p] /\ observed'[p] = observed[p]
           /\ \/ /\ ~observing[o] /\ ~observed[o] /\ ObserveEnter(o)
                 /\ frame'[o].at = "deps" /\ frame'[o].todo = dependencies[o]
                 /\ frame'[o].callee = NoOp /\ observing'[o]
                 /\ ~observed'[o] /\ waits'[o] = waits[o]
              \/ /\ frame[o].at = "deps" /\ frame'[o].at \in {"deps", "wait"}
                 /\ frame'[o].todo \subseteq frame[o].todo
                 /\ frame'[o].callee # NoOp => \/ frame'[o].callee \in frame[o].todo
                                               \/ frame'[o].callee = frame[o].callee
                 /\ frame'[o].known = frame[o].known
                 /\ UNCHANGED <<observing, observed, waits>>
              \/ /\ frame[o].at = "wait" /\ frame'[o].at = "release" /\ ObserveWait(o)
                 /\ frame'[o].todo = frame[o].todo /\ frame'[o].callee = frame[o].callee
                 /\ backend[o] \in {"ok", "err"}
                 /\ frame[o].known = "err" => frame'[o].failure = "err"
                 /\ UNCHANGED <<observing, observed>> /\ waits'[o] = waits[o] + 1
              \/ /\ frame[o].at = "release" /\ frame'[o].at = "publish" /\ ObserveRelease(o)
                 /\ frame'[o].todo = frame[o].todo /\ frame'[o].callee = frame[o].callee
                 /\ frame'[o].failure = frame[o].failure
                 /\ UNCHANGED <<observing, observed, waits>>
              \/ /\ frame[o].at = "publish" /\ frame'[o] = NoFrame /\ ObservePublish(o)
                 /\ ~observing'[o] /\ observed'[o] /\ waits'[o] = waits[o]
<1>f. /\ frame \in [Op -> Frame] /\ observing \in [Op -> BOOLEAN]
      /\ observed \in [Op -> BOOLEAN] /\ waits \in [Op -> Nat]
  BY DEF TypeOK
<1>1. CASE ObserveEnter(o)
  <2> DEFINE known == IF opState[o] = "Failed" THEN outcome[o] ELSE "none"
  <2>1. /\ ~observing[o] /\ ~observed[o] /\ observing' = [observing EXCEPT ![o] = TRUE]
        /\ frame' = [frame EXCEPT ![o] = [at |-> "deps", todo |-> dependencies[o],
                                          callee |-> NoOp, failure |-> "none",
                                          known |-> known]]
        /\ UNCHANGED <<observed, waits>>
    BY <1>1 DEF ObserveEnter, MayOpen
  <2> HIDE DEF known
  <2> QED BY <1>f, <1>1, <2>1
<1>2. CASE ObserveDependency(o)
  <2>1. frame[o].at = "deps" /\ UNCHANGED <<observing, observed, waits>>
    BY <1>2 DEF ObserveDependency, opVars
  <2>2. ASSUME NEW e \in frame[o].todo,
               frame' = [frame EXCEPT ![o].callee = e, ![o].todo = @ \ {e}]
        PROVE  /\ \A p \in Op \ {o} : frame'[p] = frame[p]
               /\ frame'[o].at = frame[o].at /\ frame'[o].known = frame[o].known
               /\ frame'[o].todo \subseteq frame[o].todo
               /\ frame'[o].callee = e
    BY <1>f, <2>2 DEF Frame
  <2>3. CASE frame' = [frame EXCEPT ![o].callee = NoOp]
    BY <1>f, <2>1, <2>3 DEF Frame
  <2>4. CASE frame' = [frame EXCEPT ![o].callee = NoOp, ![o].todo = {},
                                    ![o].failure = "err", ![o].at = "wait"]
    BY <1>f, <2>1, <2>4 DEF Frame
  <2>5. CASE frame' = [frame EXCEPT ![o].at = "wait"]
    BY <1>f, <2>1, <2>5 DEF Frame
  <2> QED BY <1>2, <2>1, <2>2, <2>3, <2>4, <2>5 DEF ObserveDependency
<1>3. CASE ObserveWait(o)
  <2> DEFINE failure == FirstFailure(frame[o], IF backend[o] = "err" THEN "err" ELSE "none")
  <2>1. /\ frame[o].at = "wait" /\ backend[o] \in {"ok", "err"}
        /\ waits' = [waits EXCEPT ![o] = @ + 1] /\ UNCHANGED <<observing, observed>>
        /\ frame' = [frame EXCEPT ![o].at = "release", ![o].failure = failure]
    BY <1>3 DEF ObserveWait, opVars
  <2>2. frame[o].known = "err" => failure = "err"
    BY <1>f DEF FirstFailure, Frame
  <2> HIDE DEF failure
  <2> QED BY <1>f, <1>3, <2>1, <2>2 DEF Frame
<1>4. CASE ObserveRelease(o)
  <2>1. /\ frame[o].at = "release" /\ UNCHANGED <<observing, observed, waits>>
        /\ frame' = [frame EXCEPT ![o].at = "publish"]
    BY <1>4 DEF ObserveRelease
  <2> QED BY <1>f, <1>4, <2>1 DEF Frame
<1>5. CASE ObservePublish(o)
  <2>1. /\ frame[o].at = "publish" /\ observed' = [observed EXCEPT ![o] = TRUE]
        /\ observing' = [observing EXCEPT ![o] = FALSE]
        /\ frame' = [frame EXCEPT ![o] = NoFrame] /\ UNCHANGED waits
    BY <1>5 DEF ObservePublish, Unlatched
  <2> QED BY <1>f, <1>5, <2>1
<1> QED BY <1>1, <1>2, <1>3, <1>4, <1>5 DEF Activation

-----------------------------------------------------------------------------
(***************************************************************************)
(* One activation per operation.                                           *)
(***************************************************************************)
\* An operation has at most one activation at a time, none once its outcome is out,
\* and its wait callback has run exactly when that activation is past it.
OneActivation ==
    \A o \in Op :
        /\ observing[o] <=> frame[o].at # "none"
        /\ observing[o] => ~observed[o]
        /\ waits[o] = IF observed[o] \/ frame[o].at \in {"release", "publish"} THEN 1 ELSE 0
        /\ opState[o] = "Observed" => observed[o]

\* No step opens a second activation of an operation or one of an observed operation.
LEMMA OneActivationStep ==
    ASSUME ExclusionInv, OneActivation, Next
    PROVE  OneActivation'
<1>s. \A o \in Op : opState'[o] = "Observed" => opState[o] = "Observed" \/ ObservePublish(o)
  BY StateMoves
<1>1. ASSUME UNCHANGED <<frame, observing, waits, observed>>,
             \A o \in Op : ~ObservePublish(o)
      PROVE  OneActivation'
  BY <1>1, <1>s DEF OneActivation
<1>2. ASSUME NEW o \in Op, Activation(o) PROVE OneActivation'
  <2>1. \A p \in Op \ {o} : ObservePublish(p) => observed'[p]
    BY DEF ExclusionInv, TypeOK, ObservePublish
  <2>2. \A p \in Op \ {o} : /\ frame'[p] = frame[p] /\ observing'[p] = observing[p]
                            /\ waits'[p] = waits[p] /\ observed'[p] = observed[p]
    BY <1>2, ActivationMoves DEF ExclusionInv
  <2>3. /\ observing'[o] <=> frame'[o].at # "none"
        /\ observing'[o] => ~observed'[o]
        /\ waits'[o] = IF observed'[o] \/ frame'[o].at \in {"release", "publish"} THEN 1 ELSE 0
        /\ observed[o] => observed'[o]
        /\ ObservePublish(o) => observed'[o]
    <3>1. ObservePublish(o) => observed'[o]
      BY DEF ExclusionInv, TypeOK, ObservePublish
    <3>2. NoFrame.at = "none"
      BY DEF NoFrame
    <3> QED BY <1>2, <3>1, <3>2, ActivationMoves DEF OneActivation, ExclusionInv
  <2> QED BY <1>s, <2>1, <2>2, <2>3 DEF OneActivation
<1>3. (\A o \in Op : ~Activation(o)) =>
          UNCHANGED <<frame, observing, waits, observed>> /\ \A o \in Op : ~ObservePublish(o)
  BY Writers DEF Activation
<1> QED BY <1>1, <1>2, <1>3

\* A step after an operation was observed revises neither its outcome nor its state.
LEMMA ObservedIsFinal ==
    ASSUME ExclusionInv, OneActivation, Next, NEW o \in Op, observed[o]
    PROVE  observed'[o] /\ outcome'[o] = outcome[o] /\ opState'[o] = "Observed"
<1>1. opState[o] = "Observed" /\ ~observing[o] /\ frame[o].at = "none"
  BY DEF ExclusionInv, ObservedAreReleased, OneActivation
<1>2. observed'[o]
  BY ObservedStays
<1>3. opState'[o] = "Observed"
  <2>1. opState[o] # "Submitted"
    BY <1>1
  <2>2. o # nextOp
    BY <1>1 DEF ExclusionInv, SubmissionsApart, TypeOK, Op
  <2> QED BY <1>1, <2>1, <2>2, StateMoves
<1>4. ASSUME NEW t \in Thread, StateApply(t) PROVE outcome'[o] = outcome[o]
  <2>1. arg[t] # o \/ UNCHANGED outcome
    BY <1>1, <1>4 DEF StateApply, StillPending
  <2>2. outcome' = [outcome EXCEPT ![arg[t]] = "err"] \/ UNCHANGED outcome
    BY <1>4 DEF StateApply, Answered
  <2> QED BY <2>1, <2>2 DEF ExclusionInv, TypeOK
<1>5. ASSUME NEW p \in Op, ObservePublish(p) PROVE outcome'[o] = outcome[o]
  <2>1. p # o
    BY <1>1, <1>5 DEF ObservePublish
  <2> QED BY <1>5, <2>1 DEF ObservePublish, ExclusionInv, TypeOK
<1> QED BY <1>2, <1>3, <1>4, <1>5, Writers

-----------------------------------------------------------------------------
(***************************************************************************)
(* Callers of observeImpl stay until there is an outcome to return.        *)
(***************************************************************************)
\* Somebody waits for every activation: only threads open them, because an operation
\* is published after its dependencies were observed, and a thread inside observeImpl
\* is in one of the three calls that observe.
CallersStay ==
    /\ \A t \in Thread : callee[t] # NoOp => pc[t] \in {"deps", "observe", "drain"}
    /\ \A o \in Op : frame[o].at # "none" => \E t \in Thread : callee[t] = o
    /\ \A o \in Op : \A d \in frame[o].todo : observed[d]
    /\ \A o \in Op : frame[o].callee # NoOp => observed[frame[o].callee]

\* A thread leaves observeImpl with an outcome in hand, and records a failure.
LEMMA CallerMoves ==
    ASSUME ExclusionInv, CallersStay, Next, NEW u \in Thread
    PROVE  \/ callee'[u] = callee[u] /\ (callee[u] = NoOp \/ pc'[u] = pc[u])
           \/ callee[u] = NoOp /\ pc'[u] \in {"deps", "observe", "drain"}
           \/ /\ callee[u] # NoOp /\ callee'[u] = NoOp /\ ObserveReturns(callee[u])
              /\ outcome[callee[u]] # "err" \/ reported'[callee[u]] # {}
<1> DEFINE Kept == callee'[u] = callee[u] /\ pc'[u] = pc[u]
           Idle == callee'[u] = NoOp /\ callee[u] = NoOp
           Enters == callee[u] = NoOp /\ pc'[u] \in {"deps", "observe", "drain"}
           Leaves == /\ callee[u] # NoOp /\ callee'[u] = NoOp /\ ObserveReturns(callee[u])
                     /\ outcome[callee[u]] # "err" \/ reported'[callee[u]] # {}
<1>s. /\ callee = [t \in Thread |-> callee[t]] /\ pc = [t \in Thread |-> pc[t]]
      /\ reported = [o \in Op |-> reported[o]]
      /\ \A t \in Thread : callee[t] \in Op \cup {NoOp}
      /\ \A t \in Thread : callee[t] # NoOp => pc[t] \in {"deps", "observe", "drain"}
      /\ \A t \in Thread : pc[t] \in {"observe", "drain"} => callee[t] = arg[t]
  BY DEF ExclusionInv, TypeOK, CallersStay
<1>1. ASSUME NEW t \in Thread, Submit(t) \/ Observe(t) PROVE Kept \/ Enters
  BY <1>s, <1>1 DEF Submit, Observe, Goto
<1>2. ASSUME NEW t \in Thread, Drop(t) PROVE Kept \/ Enters
  BY <1>s, <1>2 DEF Drop, Goto
<1>3. ASSUME NEW t \in Thread, \/ SubmitInvalidDependency(t) \/ TakeUnobserved(t)
                               \/ StateCheck(t) \/ HostRead(t) \/ HostMutate(t)
                               \/ Acquire(t) \/ AbortBackend(t) \/ StatePoll(t)
      PROVE  Kept \/ Idle
  BY <1>s, <1>3 DEF SubmitInvalidDependency, TakeUnobserved, StateCheck, HostRead,
     HostMutate, Acquire, Acquirable, AbortBackend, StatePoll, Goto, threadVars
<1>4. ASSUME NEW t \in Thread, SubmitBackend(t) PROVE Kept \/ Idle
  <2>1. UNCHANGED callee /\ pc[t] = "start" /\ \E s \in {"publish", "abort"} :
          pc' = [pc EXCEPT ![t] = s]
    BY <1>4 DEF SubmitBackend, Goto
  <2> QED BY <1>s, <2>1
<1>5. ASSUME NEW t \in Thread, SubmitObserveDependency(t) PROVE Kept \/ Enters \/ Idle
  BY <1>s, <1>5 DEF SubmitObserveDependency, Goto
<1>6. ASSUME NEW t \in Thread, SubmitDependencySucceeded(t) PROVE Kept \/ Leaves
  BY <1>s, <1>6 DEF SubmitDependencySucceeded, DependencySucceeded
<1>7. ASSUME NEW t \in Thread, SubmitDependencyFailed(t) PROVE Kept \/ Leaves
  <2>1. /\ callee[t] \in Op /\ ObserveReturns(callee[t])
        /\ reported' = [reported EXCEPT ![callee[t]] = @ \cup {"dependency"}]
        /\ pc' = [pc EXCEPT ![t] = "idle"] /\ callee' = [callee EXCEPT ![t] = NoOp]
        /\ callee[t] # NoOp
    BY <1>s, <1>7 DEF SubmitDependencyFailed, Reject, Return
  <2> QED BY <1>s, <2>1
<1>8. ASSUME NEW t \in Thread, ObserveDone(t) \/ DropDone(t) PROVE Kept \/ Leaves \/ Idle
  <2>1. /\ callee[t] \in Op \cup {NoOp} /\ ObserveReturns(callee[t])
        /\ \E channel \in {"observe", "unobserved"} : Report(callee[t], channel)
        /\ pc' = [pc EXCEPT ![t] = "idle"] /\ callee' = [callee EXCEPT ![t] = NoOp]
    BY <1>s, <1>8 DEF ObserveDone, DropDone, Return
  <2> QED BY <1>s, <2>1 DEF Report
<1>9. ASSUME NEW t \in Thread, \/ AcquireRejected(t) \/ AcquireOutOfMemory(t)
                               \/ SubmitUnwind(t) \/ SubmitPublish(t)
                               \/ StateApply(t) \/ HostAccessDone(t)
      PROVE  Kept \/ Idle
  BY <1>s, <1>9 DEF AcquireRejected, AcquireOutOfMemory, Acquirable, SubmitUnwind,
     SubmitPublish, StateApply, HostAccessDone, Reject, Return
<1>10. ASSUME NEW o \in Op, Activation(o) \/ BackendFinish(o) PROVE Kept
  BY <1>10 DEF Activation, ObserveEnter, ObserveDependency, ObserveWait, ObserveRelease,
     ObservePublish, BackendFinish, threadVars
<1> QED
  BY <1>1, <1>2, <1>3, <1>4, <1>5, <1>6, <1>7, <1>8, <1>9, <1>10
  DEF Next, Call, Running, SubmitStep

\* No step leaves an activation without a caller.
LEMMA CallersStayStep ==
    ASSUME ExclusionInv, OneActivation, CallersStay, Next
    PROVE  CallersStay'
<1>b. \A d \in Op : observed[d] => observed'[d]
  BY ObservedStays
<1>t. /\ frame \in [Op -> Frame]
      /\ \A o \in Op : frame[o].todo \subseteq Op /\ dependencies[o] \subseteq Op
      /\ \A o \in Op : frame[o].callee # NoOp => frame[o].callee \in Op
  BY NamedTyped DEF ExclusionInv
<1>1. ASSUME NEW t \in Thread, callee'[t] # NoOp
      PROVE  pc'[t] \in {"deps", "observe", "drain"}
  BY <1>1, CallerMoves DEF CallersStay
<1>2. ASSUME NEW o \in Op, frame[o].at # "none", NEW t \in Thread, callee[t] = o
      PROVE  callee'[t] = o
  <2>1. ~observed[o] /\ o # NoOp
    BY <1>2 DEF OneActivation, Op, NoOp
  <2> QED BY <1>2, <2>1, CallerMoves DEF ObserveReturns
<1>3. ASSUME NEW o \in Op, ObserveEnter(o)
      PROVE  /\ \E t \in Thread : callee[t] = o
             /\ UNCHANGED callee
             /\ \A d \in dependencies[o] : observed[d]
  <2>1. ~observed[o] /\ o # NoOp /\ Called(o) /\ UNCHANGED callee
    BY <1>3 DEF ObserveEnter, MayOpen, threadVars, Op, NoOp
  <2>2. \E t \in Thread : callee[t] = o
    BY <2>1 DEF Called, CallersStay
  <2>3. Published(o)
    BY <2>1, <2>2 DEF ExclusionInv, NamedArePublished
  <2> QED BY <2>1, <2>2, <2>3 DEF ExclusionInv, ClosureIsObserved
<1>4. ASSUME NEW o \in Op, Activation(o)
      PROVE  /\ frame'[o].at # "none" => \E t \in Thread : callee'[t] = o
             /\ \A d \in frame'[o].todo : observed'[d]
             /\ frame'[o].callee # NoOp => observed'[frame'[o].callee]
  <2>1. CASE ObserveEnter(o)
    <3>1. frame'[o].todo = dependencies[o] /\ frame'[o].callee = NoOp
      BY <2>1, <1>t DEF ObserveEnter
    <3> QED BY <1>b, <1>t, <1>3, <2>1, <3>1
  <2>2. CASE ObservePublish(o)
    <3>1. frame'[o] = NoFrame
      BY <2>2, <1>t DEF ObservePublish
    <3> QED BY <3>1 DEF NoFrame
  <2>3. CASE ~ObserveEnter(o) /\ ~ObservePublish(o)
    <3>1. /\ frame[o].at # "none"
          /\ frame'[o].todo \subseteq frame[o].todo
          /\ frame'[o].callee # NoOp => \/ frame'[o].callee \in frame[o].todo
                                        \/ frame'[o].callee = frame[o].callee
      BY <1>4, <2>3, ActivationMoves DEF ExclusionInv
    <3>2. \E t \in Thread : callee'[t] = o
      BY <1>2, <3>1 DEF CallersStay
    <3> QED BY <1>b, <1>t, <3>1, <3>2 DEF CallersStay
  <2> QED BY <2>1, <2>2, <2>3
<1>5. ASSUME NEW o \in Op, frame'[o] = frame[o]
      PROVE  /\ frame'[o].at # "none" => \E t \in Thread : callee'[t] = o
             /\ \A d \in frame'[o].todo : observed'[d]
             /\ frame'[o].callee # NoOp => observed'[frame'[o].callee]
  BY <1>b, <1>t, <1>2, <1>5 DEF CallersStay
<1>6. \A o \in Op : frame'[o] = frame[o] \/ Activation(o)
  BY Writers, ActivationMoves DEF ExclusionInv
<1> QED BY <1>1, <1>4, <1>5, <1>6 DEF CallersStay

\* No step loses a published failure: who leaves with it has reported it.
LEMMA FailureSurfacesStep ==
    ASSUME ExclusionInv, OneActivation, CallersStay, FailureSurfaces, Next
    PROVE  FailureSurfaces'
<1>1. ASSUME NEW o \in Op PROVE reported[o] # {} => reported'[o] # {}
  <2>r. reported = [p \in Op |-> reported[p]]
    BY DEF ExclusionInv, TypeOK
  <2>1. ASSUME NEW t \in Thread, Call(t) PROVE UNCHANGED reported
    BY <2>1 DEF Call, Submit, SubmitInvalidDependency, Observe, Drop, TakeUnobserved,
       StateCheck, HostRead, HostMutate
  <2>2. ASSUME NEW t \in Thread, SubmitStep(t), ~SubmitDependencyFailed(t)
        PROVE  UNCHANGED reported
    BY <2>2 DEF SubmitStep, SubmitObserveDependency, SubmitDependencySucceeded,
       AcquireRejected, Acquire, AcquireOutOfMemory, SubmitBackend, AbortBackend,
       SubmitUnwind, SubmitPublish
  <2>3. ASSUME NEW t \in Thread, SubmitDependencyFailed(t) \/ ObserveDone(t) \/ DropDone(t)
        PROVE  \/ UNCHANGED reported
               \/ \E channel : reported' = [reported EXCEPT ![callee[t]] = @ \cup {channel}]
    BY <2>3 DEF SubmitDependencyFailed, ObserveDone, DropDone, Report
  <2>4. ASSUME NEW t \in Thread, StatePoll(t) \/ StateApply(t) \/ HostAccessDone(t)
        PROVE  UNCHANGED reported
    BY <2>4 DEF StatePoll, StateApply, HostAccessDone
  <2>5. ASSUME NEW p \in Op, Activation(p) \/ BackendFinish(p) PROVE UNCHANGED reported
    BY <2>5 DEF Activation, ObserveEnter, ObserveDependency, ObserveWait, ObserveRelease,
       ObservePublish, BackendFinish
  <2> QED BY <2>r, <2>1, <2>2, <2>3, <2>4, <2>5 DEF Next, Running
<1>2. ASSUME NEW o \in Op, observed[o], outcome'[o] = "err"
      PROVE  reported'[o] # {} \/ \E t \in Thread : callee'[t] = o
  <2>1. outcome[o] = "err" /\ o # NoOp
    BY <1>2, ObservedIsFinal DEF Op, NoOp
  <2>2. CASE reported[o] # {}
    BY <1>1, <2>2
  <2>3. ASSUME NEW t \in Thread, callee[t] = o
        PROVE  callee'[t] = o \/ reported'[o] # {}
    BY <2>1, <2>3, CallerMoves
  <2> QED BY <1>2, <2>1, <2>2, <2>3 DEF FailureSurfaces
<1>3. ASSUME NEW o \in Op, ~observed[o], observed'[o]
      PROVE  \E t \in Thread : callee'[t] = o
  <2>1. ObservePublish(o)
    <3>1. PICK p \in Op : ObservePublish(p)
      BY <1>3, Writers
    <3>2. observed' = [observed EXCEPT ![p] = TRUE]
      BY <3>1 DEF ObservePublish
    <3> QED BY <1>3, <3>1, <3>2 DEF ExclusionInv, TypeOK
  <2>2. frame[o].at # "none" /\ UNCHANGED callee
    BY <2>1 DEF ObservePublish, threadVars
  <2> QED BY <2>2 DEF CallersStay
<1> QED BY <1>2, <1>3 DEF FailureSurfaces

-----------------------------------------------------------------------------
(***************************************************************************)
(* What the backend is doing at each stage of an operation.                *)
(***************************************************************************)
\* Work begins once, in the submit callback; it is over before the operation is
\* rejected, released or published with its outcome.
BackendStages ==
    /\ \A o \in Op : opState[o] = "Unborn" => backend[o] = "idle"
    /\ \A o \in Op : opState[o] = "Rejected" => backend[o] # "running"
    /\ \A o \in Op : Published(o) => backend[o] # "idle"
    /\ \A o \in Op : frame[o].at \in {"release", "publish"} => backend[o] \in {"ok", "err"}
    /\ \A o \in Op : released[o] => backend[o] # "running"
    /\ \A t \in Thread : pc[t] \in {"deps", "acquire", "start"} => backend[arg[t]] = "idle"
    /\ \A t \in Thread : pc[t] = "unwind" => backend[arg[t]] # "running"
    /\ \A t \in Thread : pc[t] = "publish" => backend[arg[t]] # "idle"

\* The backend begins when its submit callback is called, and finishes.
LEMMA BackendMoves ==
    ASSUME ExclusionInv, Next, NEW o \in Op
    PROVE  \/ backend'[o] = backend[o]
           \/ backend[o] = "running" /\ backend'[o] \in {"ok", "err"}
           \/ /\ backend'[o] = "running"
              /\ \E t \in Thread : pc[t] = "start" /\ arg[t] = o /\ SubmitBackend(t)
<1>s. backend = [p \in Op |-> backend[p]]
  BY DEF ExclusionInv, TypeOK
<1>1. ASSUME NEW t \in Thread, SubmitBackend(t)
      PROVE  \/ backend'[o] = backend[o]
             \/ backend'[o] = "running" /\ pc[t] = "start" /\ arg[t] = o
  BY <1>s, <1>1 DEF SubmitBackend
<1>2. ASSUME NEW p \in Op, BackendFinish(p)
      PROVE  \/ backend'[o] = backend[o]
             \/ backend[o] = "running" /\ backend'[o] \in {"ok", "err"}
  BY <1>s, <1>2 DEF BackendFinish
<1> QED BY <1>1, <1>2, Writers

\* What acquisition and release do to `released`.
LEMMA ReleasedMoves ==
    ASSUME ExclusionInv, Next, NEW o \in Op, released'[o]
    PROVE  \/ released[o]
           \/ \E t \in Thread : pc[t] = "unwind" /\ arg[t] = o /\ SubmitUnwind(t)
           \/ frame[o].at = "release" /\ ObserveRelease(o)
<1>s. released = [p \in Op |-> released[p]]
  BY DEF ExclusionInv, TypeOK
<1>1. ASSUME NEW p \in Op, ReleaseReservations(p) PROVE released[o] \/ p = o
  BY <1>1, ReleasedEntries
<1>2. ASSUME NEW t \in Thread, SubmitUnwind(t)
      PROVE  released[o] \/ (pc[t] = "unwind" /\ arg[t] = o)
  <2>1. arg[t] \in Op /\ pc[t] = "unwind" /\ ReleaseReservations(arg[t])
    BY <1>2 DEF SubmitUnwind, ExclusionInv, TypeOK
  <2> QED BY <1>1, <2>1
<1>3. ASSUME NEW p \in Op, ObserveRelease(p)
      PROVE  released[o] \/ (frame[o].at = "release" /\ p = o)
  BY <1>1, <1>3 DEF ObserveRelease
<1>4. ASSUME NEW t \in Thread, Acquire(t) \/ AcquireOutOfMemory(t) PROVE UNCHANGED released
  BY <1>4 DEF Acquire, AcquireOutOfMemory, opVars
<1> QED BY <1>2, <1>3, <1>4, ReservationWriters

\* A released operation stays released.
LEMMA ReleasedStays ==
    ASSUME ExclusionInv, Next, NEW o \in Op, released[o]
    PROVE  released'[o]
<1>1. ASSUME NEW p \in Op, ReleaseReservations(p) PROVE released'[o]
  BY <1>1 DEF ReleaseReservations, ExclusionInv, TypeOK
<1>2. ASSUME NEW t \in Thread, Acquire(t) \/ AcquireOutOfMemory(t) PROVE UNCHANGED released
  BY <1>2 DEF Acquire, AcquireOutOfMemory, opVars
<1>3. ASSUME (\E t \in Thread : SubmitUnwind(t)) \/ (\E p \in Op : ObserveRelease(p))
      PROVE  \E p \in Op : ReleaseReservations(p)
  BY <1>3 DEF SubmitUnwind, ObserveRelease, ExclusionInv, TypeOK
<1> QED BY <1>1, <1>2, <1>3, ReservationWriters

\* No step takes an operation to a stage its backend work does not allow.
LEMMA BackendStagesStep ==
    ASSUME ExclusionInv, BackendStages, Next
    PROVE  BackendStages'
<1>a. \A t, u \in Thread :
        Submitting(t) /\ Submitting(u) /\ arg[t] = arg[u] => t = u
  BY DEF ExclusionInv, SubmissionsApart
<1>b. \A t \in Thread : Submitting(t) => /\ arg[t] \in Op /\ opState[arg[t]] = "Submitted"
                                         /\ ~released[arg[t]]
  BY DEF ExclusionInv, SubmissionsApart, TypeOK, Submitting, ObservedAreReleased
<1>m. ASSUME NEW o \in Op
      PROVE  \/ backend'[o] = backend[o]
             \/ backend[o] = "running" /\ backend'[o] \in {"ok", "err"}
             \/ /\ backend[o] = "idle" /\ backend'[o] = "running"
                /\ opState[o] = "Submitted" /\ ~released[o]
                /\ UNCHANGED <<opState, frame, released>>
                /\ \E t \in Thread : /\ pc[t] = "start" /\ arg[t] = o
                                     /\ pc'[t] \in {"publish", "abort"}
  <2>1. ASSUME NEW t \in Thread, pc[t] = "start", arg[t] = o, SubmitBackend(t)
        PROVE  /\ backend[o] = "idle" /\ opState[o] = "Submitted" /\ ~released[o]
               /\ UNCHANGED <<opState, frame, released>>
               /\ pc'[t] \in {"publish", "abort"}
    <3>1. UNCHANGED <<opState, frame, released>>
      BY <2>1 DEF SubmitBackend, opVars
    <3>2. pc'[t] \in {"publish", "abort"}
      BY <2>1 DEF SubmitBackend, Goto, ExclusionInv, TypeOK
    <3> QED BY <1>b, <2>1, <3>1, <3>2 DEF BackendStages, Submitting
  <2> QED BY <2>1, BackendMoves
<1>1. ASSUME NEW o \in Op, opState'[o] = "Unborn" PROVE backend'[o] = "idle"
  BY <1>1, <1>m, StateMoves DEF BackendStages
<1>2. ASSUME NEW o \in Op, opState'[o] = "Rejected" PROVE backend'[o] # "running"
  <2>1. \/ opState[o] \in {"Rejected", "Unborn"}
        \/ \E t \in Thread : pc[t] \in {"deps", "acquire", "unwind"} /\ arg[t] = o
    BY <1>2, StateMoves
  <2>2. backend[o] # "running"
    BY <2>1 DEF BackendStages
  <2> QED BY <1>2, <1>m, <2>2
<1>3. ASSUME NEW o \in Op, Published(o)' PROVE backend'[o] # "idle"
  <2>1. \/ Published(o) \/ ObservePublish(o)
        \/ \E t \in Thread : pc[t] = "publish" /\ arg[t] = o
    BY <1>3, StateMoves DEF Published
  <2>2. ObservePublish(o) => Published(o)
    BY DEF ObservePublish, ExclusionInv, NamedArePublished
  <2>3. backend[o] # "idle"
    BY <2>1, <2>2 DEF BackendStages
  <2> QED BY <1>m, <2>3
<1>4. ASSUME NEW o \in Op, frame'[o].at \in {"release", "publish"}
      PROVE  backend'[o] \in {"ok", "err"}
  <2>1. CASE frame'[o] = frame[o]
    BY <1>4, <1>m, <2>1 DEF BackendStages
  <2>2. CASE Activation(o)
    <3>1. backend[o] \in {"ok", "err"}
      BY <1>4, <2>2, ActivationMoves DEF BackendStages, ExclusionInv, NoFrame
    <3> QED BY <1>m, <3>1
  <2> QED BY <2>1, <2>2, Writers, ActivationMoves DEF ExclusionInv
<1>5. ASSUME NEW o \in Op, released'[o] PROVE backend'[o] # "running"
  BY <1>5, <1>m, ReleasedMoves DEF BackendStages
<1>6. ASSUME NEW t \in Thread, pc'[t] \in {"deps", "acquire", "start"}
      PROVE  backend'[arg'[t]] = "idle"
  <2>1. CASE Submit(t)
    <3>1. UNCHANGED backend /\ arg'[t] = nextOp /\ nextOp \in Op
      BY <2>1 DEF Submit, ExclusionInv, TypeOK
    <3> QED BY <3>1 DEF BackendStages, ExclusionInv, SubmissionsApart, Op
  <2>2. CASE SubmitObserveDependency(t) \/ Acquire(t)
    BY <2>2 DEF SubmitObserveDependency, Acquire, Acquirable, BackendStages
  <2>3. CASE pc'[t] = pc[t] /\ arg'[t] = arg[t]
    BY <1>6, <2>3, <1>a, <1>b, <1>m DEF BackendStages, Submitting
  <2> QED BY <1>6, <2>1, <2>2, <2>3, SubmissionMoves DEF ExclusionInv, Submitting
<1>7. ASSUME NEW t \in Thread, pc'[t] = "unwind" PROVE backend'[arg'[t]] # "running"
  <2>1. CASE AbortBackend(t)
    BY <2>1 DEF AbortBackend, Drained
  <2>2. CASE pc'[t] = pc[t] /\ arg'[t] = arg[t]
    BY <1>7, <2>2, <1>a, <1>b, <1>m DEF BackendStages, Submitting
  <2> QED BY <1>7, <2>1, <2>2, SubmissionMoves DEF ExclusionInv, Submitting
<1>8. ASSUME NEW t \in Thread, pc'[t] = "publish" PROVE backend'[arg'[t]] # "idle"
  <2>1. CASE SubmitBackend(t)
    <3>1. arg[t] \in Op /\ UNCHANGED arg
      BY <1>b, <2>1 DEF SubmitBackend, Submitting
    <3>2. backend' = [backend EXCEPT ![arg[t]] = "running"]
      BY <1>8, <2>1 DEF SubmitBackend, Goto, ExclusionInv, TypeOK
    <3> QED BY <3>1, <3>2 DEF ExclusionInv, TypeOK
  <2>2. CASE pc'[t] = pc[t] /\ arg'[t] = arg[t]
    BY <1>8, <2>2, <1>b, <1>m DEF BackendStages, Submitting
  <2> QED BY <1>8, <2>1, <2>2, SubmissionMoves DEF ExclusionInv, Submitting
<1> QED BY <1>1, <1>2, <1>3, <1>4, <1>5, <1>6, <1>7, <1>8 DEF BackendStages

-----------------------------------------------------------------------------
(***************************************************************************)
(* What covers the backend's work.                                         *)
(***************************************************************************)
Covered(o) ==
    /\ accesses[o] # {}
    /\ \A a \in accesses[o] : a[1] \in Resource /\ <<o, a[2]>> \in reservations[a[1]]

\* The reservations that cover an operation's accesses are there from its acquisition
\* to its release, and while the backend works.
WorkIsCovered ==
    /\ \A o \in Op : backend[o] = "running" => Covered(o)
    /\ \A t \in Thread : pc[t] \in {"start", "abort", "unwind", "publish"} => Covered(arg[t])
    /\ \A o \in Op : Published(o) /\ ~released[o] => Covered(o)

\* Normalization leaves an access for every resource of the request.
LEMMA NormalizedKeepsResources ==
    ASSUME NEW acc, acc \subseteq (Resource \cup {InvalidResource}) \X Kind
    PROVE  /\ Normalized(acc) \subseteq acc
           /\ \A a \in acc : \E b \in Normalized(acc) : b[1] = a[1]
<1>1. Normalized(acc) \subseteq acc
  BY DEF Normalized
<1>2. ASSUME NEW a \in acc PROVE \E b \in Normalized(acc) : b[1] = a[1]
  <2>1. CASE <<a[1], "Write">> \in acc
    <3>1. <<a[1], "Write">> \in Normalized(acc) /\ <<a[1], "Write">>[1] = a[1]
      BY <2>1 DEF Normalized
    <3> QED BY <3>1
  <2>2. CASE <<a[1], "Write">> \notin acc
    BY <2>2 DEF Normalized
  <2> QED BY <2>1, <2>2
<1> QED BY <1>1, <1>2

\* Acquisition covers the operation it acquires for.
LEMMA AcquiredIsCovered ==
    ASSUME ExclusionInv, NEW t \in Thread, Acquire(t)
    PROVE  Covered(arg[t])'
<1> DEFINE o == arg[t]
           acc == accesses[arg[t]]
           new == Normalized(accesses[arg[t]])
<1>1. o \in Op /\ acc \subseteq (Resource \cup {InvalidResource}) \X Kind
  BY DEF Acquire, Acquirable, ExclusionInv, TypeOK
<1>2. /\ UNCHANGED arg /\ accesses'[o] = new /\ WellFormed(acc)
      /\ reservations' = Reserved(o, new)
  BY <1>1 DEF Acquire, Acquirable, ExclusionInv, TypeOK
<1>3. new # {} /\ \A a \in new : a[1] \in Resource
  BY <1>1, <1>2, NormalizedKeepsResources DEF WellFormed
<1>4. \A a \in new : <<o, a[2]>> \in reservations'[a[1]]
  BY <1>2, <1>3 DEF Reserved
<1> QED BY <1>2, <1>3, <1>4 DEF Covered

\* An operation stays covered until it is released or acquired again.
LEMMA CoveredStays ==
    ASSUME ExclusionInv, Next, NEW o \in Op, Covered(o), opState[o] # "Unborn",
           ~released'[o], \A t \in Thread : Acquire(t) => arg[t] # o
    PROVE  Covered(o)'
<1>s. /\ accesses = [p \in Op |-> accesses[p]] /\ released = [p \in Op |-> released[p]]
      /\ \A t \in Thread : pc[t] \in {"acquire", "unwind"} => arg[t] \in Op
  BY DEF ExclusionInv, TypeOK
<1>1. ASSUME NEW t \in Thread, Submit(t) PROVE accesses'[o] = accesses[o]
  <2>1. o # nextOp
    BY DEF ExclusionInv, SubmissionsApart, TypeOK, Op
  <2> QED BY <1>s, <1>1, <2>1 DEF Submit
<1>2. ASSUME NEW t \in Thread, Acquire(t) \/ AcquireOutOfMemory(t)
      PROVE  /\ accesses'[o] = accesses[o]
             /\ \A r \in Resource : reservations[r] \subseteq reservations'[r]
  <2>1. CASE Acquire(t)
    BY <1>s, <2>1 DEF Acquire, Reserved
  <2>2. CASE AcquireOutOfMemory(t)
    BY <2>2 DEF AcquireOutOfMemory, Reserved, submitVars
  <2> QED BY <1>2, <2>1, <2>2
<1>3. ASSUME NEW p \in Op, ReleaseReservations(p)
      PROVE  /\ accesses'[o] = accesses[o]
             /\ \A r \in Resource : \A e \in reservations[r] :
                    e[1] = o => e \in reservations'[r]
  <2>1. CASE released[p]
    BY <1>3, <2>1 DEF ReleaseReservations
  <2>2. CASE ~released[p]
    <3>1. /\ released' = [released EXCEPT ![p] = TRUE]
          /\ accesses' = [accesses EXCEPT ![p] = {}]
          /\ reservations' = [r \in Resource |-> {e \in reservations[r] : e[1] # p}]
      BY <1>3, <2>2 DEF ReleaseReservations, WithoutOp
    <3>2. p # o
      BY <1>s, <3>1
    <3> QED BY <1>s, <3>1, <3>2
  <2> QED BY <2>1, <2>2
<1>4. ASSUME (\E t \in Thread : SubmitUnwind(t)) \/ (\E p \in Op : ObserveRelease(p))
      PROVE  \E p \in Op : ReleaseReservations(p)
  BY <1>s, <1>4 DEF SubmitUnwind, ObserveRelease
<1>5. /\ accesses'[o] = accesses[o]
      /\ \A r \in Resource : \A e \in reservations[r] : e[1] = o => e \in reservations'[r]
  BY <1>1, <1>2, <1>3, <1>4, ReservationWriters
<1> QED BY <1>5 DEF Covered

\* No step lets go of what the backend is, or is about to be, working on.
LEMMA WorkIsCoveredStep ==
    ASSUME ExclusionInv, BackendStages, WorkIsCovered, Next
    PROVE  WorkIsCovered'
<1>a. \A t, u \in Thread :
        Submitting(t) /\ Submitting(u) /\ arg[t] = arg[u] => t = u
  BY DEF ExclusionInv, SubmissionsApart
<1>b. ExclusionInv' /\ BackendStages'
  BY ExclusionStep, BackendStagesStep
<1>1. ASSUME NEW o \in Op, backend'[o] = "running" PROVE Covered(o)'
  <2>1. CASE backend[o] = "running"
    <3>1. /\ opState[o] # "Unborn" /\ ~released'[o]
          /\ \A t \in Thread : Acquire(t) => arg[t] # o
      BY <1>1, <1>b, <2>1 DEF BackendStages, Acquire, Acquirable
    <3> QED BY <2>1, <3>1, CoveredStays DEF WorkIsCovered
  <2>2. ASSUME NEW t \in Thread, pc[t] = "start", arg[t] = o, SubmitBackend(t)
        PROVE  Covered(o)'
    <3>1. UNCHANGED <<accesses, reservations>>
      BY <2>2 DEF SubmitBackend, submitVars
    <3> QED BY <2>2, <3>1 DEF WorkIsCovered, Covered
  <2> QED BY <1>1, <2>1, <2>2, BackendMoves
<1>2. ASSUME NEW t \in Thread, pc'[t] \in {"start", "abort", "unwind", "publish"}
      PROVE  Covered(arg[t])'
  <2>1. CASE Acquire(t)
    BY <2>1, AcquiredIsCovered
  <2>2. CASE \/ pc'[t] = pc[t] /\ arg'[t] = arg[t]
             \/ SubmitBackend(t) \/ AbortBackend(t)
    <3>1. pc[t] \in {"start", "abort", "unwind", "publish"} /\ arg'[t] = arg[t]
      BY <1>2, <2>2 DEF SubmitBackend, AbortBackend
    <3>2. /\ arg[t] \in Op /\ opState[arg[t]] = "Submitted" /\ Covered(arg[t])
      BY <3>1 DEF ExclusionInv, SubmissionsApart, TypeOK, Submitting, WorkIsCovered
    <3>3. ~released'[arg[t]]
      BY <1>b, <1>2, <3>1, <3>2
      DEF ExclusionInv, SubmissionsApart, Submitting, ObservedAreReleased
    <3>4. \A u \in Thread : Acquire(u) => arg[u] # arg[t]
      BY <1>a, <3>1 DEF Acquire, Acquirable, Submitting
    <3>5. ASSUME NEW o \in Op, o = arg[t] PROVE Covered(o)'
      BY <3>2, <3>3, <3>4, <3>5, CoveredStays
    <3> QED BY <3>1, <3>2, <3>5 DEF Covered
  <2> QED BY <1>2, <2>1, <2>2, SubmissionMoves DEF ExclusionInv, Submitting
<1>3. ASSUME NEW o \in Op, Published(o)', ~released'[o] PROVE Covered(o)'
  <2>1. ~ObservePublish(o) \/ Published(o)
    BY DEF ObservePublish, ExclusionInv, NamedArePublished
  <2>2. ASSUME NEW t \in Thread, pc[t] = "publish", arg[t] = o, SubmitPublish(t)
        PROVE  Covered(o)'
    <3>1. UNCHANGED <<accesses, reservations>>
      BY <2>2 DEF SubmitPublish, submitVars
    <3> QED BY <2>2, <3>1 DEF WorkIsCovered, Covered
  <2>3. CASE Published(o)
    <3>1. ~released[o]
      BY <1>3, ReleasedStays
    <3>2. \A t \in Thread : Acquire(t) => arg[t] # o
      BY <2>3 DEF Acquire, Acquirable, ExclusionInv, SubmissionsApart, Submitting, Published
    <3> QED BY <1>3, <2>3, <3>1, <3>2, CoveredStays DEF WorkIsCovered, Published
  <2> QED BY <1>3, <2>1, <2>2, <2>3, StateMoves DEF Published
<1> QED BY <1>1, <1>2, <1>3 DEF WorkIsCovered, Published

-----------------------------------------------------------------------------
(***************************************************************************)
(* Work follows the success of every declared predecessor.                 *)
(***************************************************************************)
Succeeded(d) == observed[d] /\ outcome[d] = "ok"

\* A submission passes the loop over its dependencies when each of them succeeded.
SubmissionsFollow ==
    /\ \A t \in Thread : pc[t] = "deps" =>
            \A d \in dependencies[arg[t]] : d \in todo[t] \/ d = callee[t] \/ Succeeded(d)
    /\ \A t \in Thread : Submitting(t) /\ pc[t] # "deps" =>
            \A d \in dependencies[arg[t]] : Succeeded(d)

\* The two steps that work off a submission's dependencies.
LEMMA DependencyLoopMoves ==
    ASSUME TypeOK, Next, NEW u \in Thread, pc[u] = "deps", pc'[u] = "deps"
    PROVE  \/ todo'[u] = todo[u] /\ callee'[u] = callee[u]
           \/ SubmitObserveDependency(u) \/ SubmitDependencySucceeded(u)
<1> DEFINE Kept == todo'[u] = todo[u] /\ callee'[u] = callee[u]
<1>s. /\ callee = [t \in Thread |-> callee[t]] /\ todo = [t \in Thread |-> todo[t]]
      /\ pc = [t \in Thread |-> pc[t]]
  BY DEF TypeOK
<1>1. ASSUME NEW t \in Thread, Call(t) PROVE Kept
  <2>1. t # u
    BY <1>1 DEF Call, Submit, SubmitInvalidDependency, Observe, Drop, TakeUnobserved,
       StateCheck, HostRead, HostMutate
  <2>2. CASE Drop(t)
    BY <1>s, <2>1, <2>2 DEF Drop
  <2> QED BY <1>s, <1>1, <2>1, <2>2 DEF Call, Submit, SubmitInvalidDependency, Observe,
     TakeUnobserved, StateCheck, HostRead, HostMutate, threadVars
<1>2. ASSUME NEW t \in Thread, Running(t), t # u PROVE Kept
  <2>1. CASE SubmitObserveDependency(t) \/ SubmitDependencySucceeded(t)
    BY <1>s, <1>2, <2>1 DEF SubmitObserveDependency, SubmitDependencySucceeded
  <2>2. CASE SubmitStep(t) /\ ~SubmitObserveDependency(t) /\ ~SubmitDependencySucceeded(t)
    BY <1>s, <1>2, <2>2 DEF SubmitStep, SubmitDependencyFailed, AcquireRejected, Acquire,
       AcquireOutOfMemory, SubmitBackend, AbortBackend, SubmitUnwind, SubmitPublish,
       Reject, Return
  <2>3. CASE ~SubmitStep(t)
    BY <1>s, <1>2, <2>3 DEF Running, ObserveDone, DropDone, StatePoll, StateApply,
       HostAccessDone, Return
  <2> QED BY <2>1, <2>2, <2>3
<1>3. ASSUME Running(u)
      PROVE  SubmitObserveDependency(u) \/ SubmitDependencySucceeded(u)
  BY <1>s, <1>3 DEF Running, SubmitStep, SubmitDependencyFailed, AcquireRejected, Acquire,
     Acquirable, AcquireOutOfMemory, SubmitBackend, AbortBackend, SubmitUnwind,
     SubmitPublish, ObserveDone, DropDone, StatePoll, StateApply, HostAccessDone, Reject,
     Return
<1>4. ASSUME NEW o \in Op, Activation(o) \/ BackendFinish(o) PROVE Kept
  BY <1>4 DEF Activation, ObserveEnter, ObserveDependency, ObserveWait, ObserveRelease,
     ObservePublish, BackendFinish, threadVars
<1> QED BY <1>1, <1>2, <1>3, <1>4 DEF Next

\* The dependencies of an operation that has drawn its id only ever disappear.
LEMMA DependenciesMove ==
    ASSUME ExclusionInv, Next, NEW o \in Op
    PROVE  \/ dependencies'[o] \subseteq dependencies[o]
           \/ opState[o] = "Unborn" /\ opState'[o] = "Submitted" /\ UNCHANGED backend
<1>s. dependencies = [p \in Op |-> dependencies[p]] /\ nextOp \in 1..(MaxOp + 1)
  BY DEF ExclusionInv, TypeOK
<1>1. ASSUME NEW t \in Thread, Submit(t)
      PROVE  \/ dependencies'[o] = dependencies[o]
             \/ opState[o] = "Unborn" /\ opState'[o] = "Submitted" /\ UNCHANGED backend
  <2>1. opState[nextOp] = "Unborn" /\ opState'[nextOp] = "Submitted" /\ UNCHANGED backend
    BY <1>s, <1>1 DEF Submit, ExclusionInv, SubmissionsApart, TypeOK, Op
  <2>2. dependencies'[o] = dependencies[o] \/ o = nextOp
    BY <1>s, <1>1 DEF Submit
  <2> QED BY <2>1, <2>2
<1>2. ASSUME NEW p \in Op, ObservePublish(p)
      PROVE  dependencies'[o] \subseteq dependencies[o]
  BY <1>s, <1>2 DEF ObservePublish
<1> QED BY <1>1, <1>2, Writers

\* No step gets a submission past a dependency that has not succeeded.
LEMMA SubmissionsFollowStep ==
    ASSUME ExclusionInv, OneActivation, SubmissionsFollow, Next
    PROVE  SubmissionsFollow'
<1>b. ASSUME NEW d \in Op, Succeeded(d) PROVE Succeeded(d)'
  BY <1>b, ObservedIsFinal DEF Succeeded
<1>s. /\ \A t \in Thread : Submitting(t) =>
            arg[t] \in Op /\ opState[arg[t]] = "Submitted" /\ dependencies[arg[t]] \subseteq Op
      /\ callee = [t \in Thread |-> callee[t]] /\ todo = [t \in Thread |-> todo[t]]
  BY DEF ExclusionInv, TypeOK, SubmissionsApart, Submitting
<1>d. ASSUME NEW t \in Thread, Submitting(t)
      PROVE  dependencies'[arg[t]] \subseteq dependencies[arg[t]]
  BY <1>d, <1>s, DependenciesMove
<1>1. ASSUME NEW t \in Thread, pc'[t] = "deps", NEW d \in dependencies'[arg'[t]]
      PROVE  d \in todo'[t] \/ d = callee'[t] \/ Succeeded(d)'
  <2>1. CASE Submit(t)
    BY <1>1, <1>s, <2>1 DEF Submit, ExclusionInv, TypeOK
  <2>2. CASE pc'[t] = pc[t] /\ arg'[t] = arg[t]
    <3>1. d \in Op /\ (d \in todo[t] \/ d = callee[t] \/ Succeeded(d))
      BY <1>1, <1>d, <1>s, <2>2 DEF Submitting, SubmissionsFollow
    <3>2. CASE SubmitObserveDependency(t)
      BY <1>b, <1>s, <1>1, <2>2, <3>1, <3>2 DEF SubmitObserveDependency, Goto, Op, NoOp
    <3>3. CASE SubmitDependencySucceeded(t)
      <4>1. ObserveReturns(callee[t]) /\ outcome[callee[t]] = "ok" /\ UNCHANGED todo
        BY <3>3 DEF SubmitDependencySucceeded, DependencySucceeded
      <4>2. d = callee[t] => Succeeded(d)
        BY <4>1 DEF ObserveReturns, Succeeded
      <4> QED BY <1>b, <3>1, <4>1, <4>2
    <3>4. CASE todo'[t] = todo[t] /\ callee'[t] = callee[t]
      BY <1>b, <3>1, <3>4
    <3> QED BY <1>1, <2>2, <3>2, <3>3, <3>4, DependencyLoopMoves DEF ExclusionInv
  <2> QED BY <1>1, <2>1, <2>2, SubmissionMoves DEF ExclusionInv, Submitting
<1>2. ASSUME NEW t \in Thread, Submitting(t)', pc'[t] # "deps",
             NEW d \in dependencies'[arg'[t]]
      PROVE  Succeeded(d)'
  <2>1. CASE SubmitObserveDependency(t)
    <3>1. /\ pc[t] = "deps" /\ todo[t] = {} /\ callee[t] = NoOp /\ arg'[t] = arg[t]
      BY <1>2, <2>1 DEF SubmitObserveDependency
    <3>2. d \in Op /\ d \in dependencies[arg[t]]
      BY <1>2, <1>d, <1>s, <3>1 DEF Submitting
    <3> QED BY <1>b, <3>1, <3>2 DEF SubmissionsFollow, Op, NoOp
  <2>2. CASE \/ pc'[t] = pc[t] /\ arg'[t] = arg[t]
             \/ Acquire(t) \/ SubmitBackend(t) \/ AbortBackend(t)
    <3>1. Submitting(t) /\ pc[t] # "deps" /\ arg'[t] = arg[t]
      BY <1>2, <2>2 DEF Acquire, Acquirable, SubmitBackend, AbortBackend, Submitting
    <3>2. d \in Op /\ d \in dependencies[arg[t]]
      BY <1>2, <1>d, <1>s, <3>1
    <3> QED BY <1>b, <3>1, <3>2 DEF SubmissionsFollow
  <2> QED BY <1>2, <2>1, <2>2, SubmissionMoves DEF ExclusionInv
<1> QED BY <1>1, <1>2 DEF SubmissionsFollow, Succeeded

\* No step starts work behind a predecessor that has not succeeded.
LEMMA PredecessorsSucceededStep ==
    ASSUME ExclusionInv, OneActivation, BackendStages, SubmissionsFollow,
           PredecessorsSucceeded, Next
    PROVE  PredecessorsSucceeded'
<1> SUFFICES ASSUME NEW o \in Op, backend'[o] # "idle", NEW d \in dependencies'[o]
             PROVE  observed'[d] /\ outcome'[d] = "ok"
  BY DEF PredecessorsSucceeded
<1>1. ASSUME d \in dependencies[o], Succeeded(d) PROVE observed'[d] /\ outcome'[d] = "ok"
  BY <1>1, ObservedIsFinal DEF Succeeded, ExclusionInv, TypeOK
<1>2. CASE backend[o] # "idle"
  <2>1. d \in dependencies[o]
    BY <1>2, DependenciesMove DEF BackendStages
  <2> QED BY <1>1, <1>2, <2>1 DEF PredecessorsSucceeded, Succeeded
<1>3. ASSUME NEW t \in Thread, pc[t] = "start", arg[t] = o, SubmitBackend(t)
      PROVE  observed'[d] /\ outcome'[d] = "ok"
  <2>1. UNCHANGED dependencies
    BY <1>3 DEF SubmitBackend, submitVars
  <2> QED BY <1>1, <1>3, <2>1 DEF SubmissionsFollow, Submitting
<1> QED BY <1>2, <1>3, BackendMoves

-----------------------------------------------------------------------------
(***************************************************************************)
(* Nothing leaks, as long as entering a reservation cannot fail.           *)
(***************************************************************************)
HoldsNothing(o) == \A r \in Resource : \A e \in reservations[r] : e[1] # o

\* Before acquisition and after a rejection an operation reserves nothing.
NothingLeaks ==
    /\ \A o \in Op : opState[o] \in {"Unborn", "Rejected"} => HoldsNothing(o)
    /\ \A t \in Thread : pc[t] \in {"deps", "acquire"} => HoldsNothing(arg[t])

\* Every submission under way has its thread.
SubmittedHaveThreads ==
    \A o \in Op : opState[o] = "Submitted" => \E t \in Thread : Submitting(t) /\ arg[t] = o

\* A thread leaves a submission by publishing or rejecting its operation.
LEMMA SubmittedHaveThreadsStep ==
    ASSUME ExclusionInv, SubmittedHaveThreads, Next
    PROVE  SubmittedHaveThreads'
<1> SUFFICES ASSUME NEW o \in Op, opState'[o] = "Submitted"
             PROVE  \E t \in Thread : Submitting(t)' /\ arg'[t] = o
  BY DEF SubmittedHaveThreads
<1>i. TypeOK
  BY DEF ExclusionInv
<1>1. ASSUME NEW t \in Thread, Submit(t), o = nextOp
      PROVE  Submitting(t)' /\ arg'[t] = o
  BY <1>i, <1>1 DEF Submit, Goto, Submitting, TypeOK
<1>2. ASSUME NEW t \in Thread, Submitting(t), arg[t] = o
      PROVE  Submitting(t)' /\ arg'[t] = o
  <2>t. /\ opState = [p \in Op |-> opState[p]]
        /\ pc = [u \in Thread |-> pc[u]] /\ arg = [u \in Thread |-> arg[u]]
    BY <1>i DEF TypeOK
  <2>1. ASSUME NEW u \in Thread, u # t, Call(u) PROVE pc'[t] = pc[t] /\ arg'[t] = arg[t]
    <3>1. CASE Drop(u)
      BY <2>t, <2>1, <3>1 DEF Drop, Goto
    <3> QED BY <2>t, <2>1, <3>1 DEF Call, Submit, SubmitInvalidDependency, Observe,
       TakeUnobserved, StateCheck, HostRead, HostMutate, Goto, threadVars
  <2>2. ~Call(t)
    BY <1>2 DEF Call, Submit, SubmitInvalidDependency, Observe, Drop, TakeUnobserved,
       StateCheck, HostRead, HostMutate, Submitting, threadVars
  <2>3. ASSUME NEW u \in Thread, u # t, Running(u)
        PROVE  pc'[t] = pc[t] /\ arg'[t] = arg[t]
    <3>1. CASE SubmitBackend(u)
      BY <2>t, <2>3, <3>1 DEF SubmitBackend, Goto
    <3>2. CASE SubmitObserveDependency(u)
      BY <2>t, <2>3, <3>2 DEF SubmitObserveDependency, Goto
    <3>3. CASE SubmitStep(u) /\ ~SubmitBackend(u) /\ ~SubmitObserveDependency(u)
      BY <2>t, <2>3, <3>3 DEF SubmitStep, SubmitDependencySucceeded,
         SubmitDependencyFailed, AcquireRejected, Acquire, AcquireOutOfMemory, AbortBackend,
         SubmitUnwind, SubmitPublish, Reject, Return, Goto
    <3>4. CASE ~SubmitStep(u)
      BY <2>t, <2>3, <3>4 DEF Running, ObserveDone, DropDone, StatePoll, StateApply,
         HostAccessDone, Return, Goto
    <3> QED BY <3>1, <3>2, <3>3, <3>4
  <2>4. CASE Running(t)
    <3>1. CASE \/ SubmitObserveDependency(t) \/ SubmitDependencySucceeded(t) \/ Acquire(t)
               \/ AbortBackend(t)
      BY <1>2, <2>t, <3>1 DEF SubmitObserveDependency, SubmitDependencySucceeded, Acquire,
         AbortBackend, Goto, Submitting
    <3>2. CASE SubmitBackend(t)
      <4>1. UNCHANGED arg /\ \E l \in {"publish", "abort"} : pc' = [pc EXCEPT ![t] = l]
        BY <3>2 DEF SubmitBackend, Goto
      <4> QED BY <1>2, <2>t, <4>1 DEF Submitting
    <3>3. CASE \/ SubmitDependencyFailed(t) \/ AcquireRejected(t) \/ AcquireOutOfMemory(t)
               \/ SubmitUnwind(t) \/ SubmitPublish(t)
      <4>1. opState'[o] \in {"Rejected", "Pending"}
        BY <1>2, <2>t, <3>3 DEF SubmitDependencyFailed, AcquireRejected,
           AcquireOutOfMemory, SubmitUnwind, SubmitPublish, Reject
      <4> QED BY <4>1
    <3>4. ~ObserveDone(t) /\ ~DropDone(t) /\ ~StatePoll(t) /\ ~StateApply(t)
          /\ ~HostAccessDone(t)
      BY <1>2 DEF ObserveDone, DropDone, StatePoll, StateApply, HostAccessDone, Submitting
    <3> QED BY <2>4, <3>1, <3>2, <3>3, <3>4 DEF Running, SubmitStep
  <2>5. ASSUME NEW p \in Op, Activation(p) \/ BackendFinish(p)
        PROVE  pc'[t] = pc[t] /\ arg'[t] = arg[t]
    BY <2>5 DEF Activation, ObserveEnter, ObserveDependency, ObserveWait, ObserveRelease,
       ObservePublish, BackendFinish, threadVars
  <2> QED BY <1>2, <2>1, <2>2, <2>3, <2>4, <2>5 DEF Next, Submitting
<1> QED BY <1>1, <1>2, StateMoves DEF SubmittedHaveThreads

\* Only acquisition gives an operation a reservation.
LEMMA HoldingMoves ==
    ASSUME ~AllocMayFail, ExclusionInv, Next, NEW o \in Op, HoldsNothing(o),
           \A t \in Thread : Acquire(t) => arg[t] # o
    PROVE  HoldsNothing(o)'
<1>1. ASSUME NEW t \in Thread, Acquire(t) PROVE HoldsNothing(o)'
  <2>1. \A r \in Resource : \A e \in reservations'[r] :
            e \in reservations[r] \/ e[1] = arg[t]
    BY <1>1 DEF Acquire, Reserved
  <2> QED BY <1>1, <2>1 DEF HoldsNothing
<1>2. ASSUME NEW p \in Op, ReleaseReservations(p) PROVE HoldsNothing(o)'
  BY <1>2, ReleasedEntries DEF HoldsNothing
<1>3. ASSUME (\E t \in Thread : SubmitUnwind(t)) \/ (\E p \in Op : ObserveRelease(p))
      PROVE  \E p \in Op : ReleaseReservations(p)
  BY <1>3 DEF SubmitUnwind, ObserveRelease, ExclusionInv, TypeOK
<1>4. CASE UNCHANGED reservations
  BY <1>4 DEF HoldsNothing
<1>5. \A t \in Thread : ~AcquireOutOfMemory(t)
  BY DEF AcquireOutOfMemory
<1> QED BY <1>1, <1>2, <1>3, <1>4, <1>5, ReservationWriters

\* No step rejects an operation that still reserves something.
LEMMA NothingLeaksStep ==
    ASSUME ~AllocMayFail, ExclusionInv, NothingLeaks, Next
    PROVE  NothingLeaks'
<1>s. /\ nextOp \in 1..(MaxOp + 1)
      /\ \A t \in Thread : Submitting(t) => arg[t] \in Op /\ opState[arg[t]] = "Submitted"
      /\ \A t, u \in Thread : Submitting(t) /\ Submitting(u) /\ arg[t] = arg[u] => t = u
  BY DEF ExclusionInv, TypeOK, SubmissionsApart, Submitting
<1>a. ASSUME NEW t \in Thread, Acquire(t)
      PROVE  /\ arg[t] \in Op /\ pc[t] = "acquire" /\ pc'[t] = "start"
             /\ opState[arg[t]] = "Submitted" /\ UNCHANGED opState
  BY <1>a, <1>s DEF Acquire, Acquirable, Submitting, Goto, opVars, ExclusionInv, TypeOK
<1>1. ASSUME NEW o \in Op, opState'[o] \in {"Unborn", "Rejected"} PROVE HoldsNothing(o)'
  <2>1. \A t \in Thread : Acquire(t) => arg[t] # o
    BY <1>1, <1>a
  <2>2. CASE HoldsNothing(o)
    BY <2>1, <2>2, HoldingMoves
  <2>3. ASSUME NEW t \in Thread, SubmitUnwind(t), arg[t] = o PROVE HoldsNothing(o)'
    <3>1. ReleaseReservations(o)
      BY <2>3 DEF SubmitUnwind
    <3> QED BY <3>1, ReleasedEntries DEF HoldsNothing
  <2>4. HoldsNothing(o) \/ \E t \in Thread : SubmitUnwind(t) /\ arg[t] = o
    <3>1. ASSUME NEW t \in Thread, arg[t] = o,
                 \/ SubmitDependencyFailed(t) \/ AcquireRejected(t)
                 \/ AcquireOutOfMemory(t) \/ SubmitUnwind(t)
          PROVE  pc[t] \in {"deps", "acquire"} \/ SubmitUnwind(t)
      BY <3>1 DEF SubmitDependencyFailed, AcquireRejected, AcquireOutOfMemory
    <3> QED BY <1>1, <3>1, StateMoves DEF NothingLeaks
  <2> QED BY <2>2, <2>3, <2>4
<1>2. ASSUME NEW t \in Thread, pc'[t] \in {"deps", "acquire"}
      PROVE  HoldsNothing(arg[t])'
  <2>1. CASE Submit(t)
    <3>1. nextOp \in Op /\ opState[nextOp] = "Unborn"
      BY <1>s, <2>1 DEF Submit, ExclusionInv, SubmissionsApart, Op
    <3>2. arg'[t] = nextOp /\ UNCHANGED reservations
      BY <2>1 DEF Submit, ExclusionInv, TypeOK
    <3> QED BY <3>1, <3>2 DEF NothingLeaks, HoldsNothing
  <2>2. CASE (pc'[t] = pc[t] /\ arg'[t] = arg[t]) \/ SubmitObserveDependency(t)
    <3>1. pc[t] \in {"deps", "acquire"} /\ arg'[t] = arg[t]
      BY <1>2, <2>2 DEF SubmitObserveDependency
    <3>2. arg[t] \in Op /\ HoldsNothing(arg[t])
      BY <1>s, <3>1 DEF NothingLeaks, Submitting
    <3>3. \A u \in Thread : Acquire(u) => arg[u] # arg[t]
      BY <1>a, <1>s, <1>2, <3>1 DEF Submitting
    <3>4. ASSUME NEW o \in Op, o = arg[t] PROVE HoldsNothing(o)'
      BY <3>2, <3>3, <3>4, HoldingMoves
    <3> QED BY <3>1, <3>2, <3>4 DEF HoldsNothing
  <2> QED BY <1>2, <2>1, <2>2, SubmissionMoves DEF ExclusionInv, Submitting
<1> QED BY <1>1, <1>2 DEF NothingLeaks

-----------------------------------------------------------------------------
(***************************************************************************)
(* The invariant, and what follows from it for any number of threads.      *)
(***************************************************************************)
LifecycleInv ==
    /\ ExclusionInv /\ OneActivation /\ CallersStay /\ FailureSurfaces
    /\ BackendStages /\ WorkIsCovered /\ SubmissionsFollow /\ PredecessorsSucceeded

\* The invariant holds initially: nothing has been submitted.
LEMMA LifecycleInit == Init => LifecycleInv
<1> SUFFICES ASSUME Init PROVE LifecycleInv
  OBVIOUS
<1>1. ExclusionInv
  BY ExclusionInit
<1>2. OneActivation /\ CallersStay
  BY DEF Init, OneActivation, CallersStay, NoFrame
<1>3. FailureSurfaces /\ PredecessorsSucceeded
  BY DEF Init, FailureSurfaces, PredecessorsSucceeded
<1>4. BackendStages /\ WorkIsCovered /\ SubmissionsFollow
  BY DEF Init, BackendStages, WorkIsCovered, SubmissionsFollow, Published, NoFrame,
     Submitting
<1> QED BY <1>1, <1>2, <1>3, <1>4 DEF LifecycleInv

\* Every step keeps the invariant: the lemmas above, put together.
LEMMA LifecycleStep == LifecycleInv /\ [Next]_vars => LifecycleInv'
<1> SUFFICES ASSUME LifecycleInv, [Next]_vars PROVE LifecycleInv'
  OBVIOUS
<1>1. ExclusionInv'
  BY ExclusionStep DEF LifecycleInv
<1>2. CASE Next
  BY <1>1, <1>2, OneActivationStep, CallersStayStep, FailureSurfacesStep,
     BackendStagesStep, WorkIsCoveredStep, SubmissionsFollowStep, PredecessorsSucceededStep
  DEF LifecycleInv
<1>3. CASE UNCHANGED vars
  <2>1. OneActivation' /\ CallersStay'
    BY <1>3 DEF LifecycleInv, vars, OneActivation, CallersStay
  <2>2. FailureSurfaces' /\ PredecessorsSucceeded'
    BY <1>3 DEF LifecycleInv, vars, FailureSurfaces, PredecessorsSucceeded
  <2>3. BackendStages' /\ WorkIsCovered' /\ SubmissionsFollow'
    BY <1>3 DEF LifecycleInv, vars, BackendStages, WorkIsCovered, SubmissionsFollow,
       Covered, Succeeded, Published, Submitting
  <2> QED BY <1>1, <2>1, <2>2, <2>3 DEF LifecycleInv
<1> QED BY <1>2, <1>3

\* The invariant holds throughout.
LEMMA Lifecycle == Spec => []LifecycleInv
  BY LifecycleInit, LifecycleStep, PTL DEF Spec

\* The wait callback of an operation runs at most once, and has run once when its
\* outcome is out, however many threads observe it, drop its handle or depend on it.
THEOREM Waiting == Spec => []WaitOnce
<1>1. LifecycleInv => WaitOnce
  BY DEF LifecycleInv, OneActivation, WaitOnce
<1> QED BY <1>1, Lifecycle, PTL

\* While the backend works on an operation, the operation is not released and reserves
\* every resource it accesses.
THEOREM Coverage == Spec => []BackendCovered
<1>1. LifecycleInv => BackendCovered
  BY DEF LifecycleInv, WorkIsCovered, Covered, BackendStages, BackendCovered, ExclusionInv,
     TypeOK
<1> QED BY <1>1, Lifecycle, PTL

\* An operation's backend work starts after each declared predecessor was observed to
\* succeed.
THEOREM Ordering == Spec => []PredecessorsSucceeded
<1>1. LifecycleInv => PredecessorsSucceeded
  BY DEF LifecycleInv
<1> QED BY <1>1, Lifecycle, PTL

\* A published failure has been reported, or has a caller on its way to it.
THEOREM Surfacing == Spec => []FailureSurfaces
<1>1. LifecycleInv => FailureSurfaces
  BY DEF LifecycleInv
<1> QED BY <1>1, Lifecycle, PTL

\* No step revises an observed outcome, whatever polls and observations it interleaves.
THEOREM Finality == Spec => ObservationFinal
<1> DEFINE Final == \A o \in Op : observed[o] =>
                       observed'[o] /\ outcome'[o] = outcome[o] /\ opState'[o] = "Observed"
<1>1. LifecycleInv /\ [Next]_vars => [Final]_vars
  BY ObservedIsFinal DEF LifecycleInv
<1>2. Spec => [][Final]_vars
  BY <1>1, Lifecycle, PTL DEF Spec
<1> QED BY <1>2 DEF ObservationFinal

\* A rejected or observed operation reserves nothing, provided that entering a
\* reservation does not run out of memory.
THEOREM NoLeak ==
    ASSUME ~AllocMayFail
    PROVE  Spec => []FinishedHoldsNothing
<1>1. Init => NothingLeaks
  BY DEF Init, NothingLeaks, HoldsNothing
<1>2. LifecycleInv /\ NothingLeaks /\ [Next]_vars => NothingLeaks'
  <2>1. LifecycleInv /\ NothingLeaks /\ Next => NothingLeaks'
    BY NothingLeaksStep DEF LifecycleInv
  <2>2. NothingLeaks /\ UNCHANGED vars => NothingLeaks'
    BY DEF NothingLeaks, HoldsNothing, vars
  <2> QED BY <2>1, <2>2
<1>3. LifecycleInv /\ NothingLeaks => FinishedHoldsNothing
  <2> SUFFICES ASSUME LifecycleInv, NothingLeaks, NEW o \in Op,
                      opState[o] \in {"Rejected", "Observed"}
               PROVE  HoldsNothing(o)
    BY DEF FinishedHoldsNothing, HoldsNothing, Holds
  <2>1. CASE opState[o] = "Observed"
    BY <2>1 DEF LifecycleInv, OneActivation, ExclusionInv, ObservedAreReleased,
       ReleasedHoldsNothing, HoldsNothing
  <2> QED BY <2>1 DEF NothingLeaks
<1> QED BY <1>1, <1>2, <1>3, Lifecycle, PTL DEF Spec

\* Submission acquires all of its reservations or none, under the same proviso.
THEOREM Atomicity ==
    ASSUME ~AllocMayFail
    PROVE  Spec => []AcquisitionAtomic
<1>1. Init => NothingLeaks /\ SubmittedHaveThreads
  BY DEF Init, NothingLeaks, HoldsNothing, SubmittedHaveThreads
<1>2. LifecycleInv /\ NothingLeaks /\ SubmittedHaveThreads /\ [Next]_vars
        => NothingLeaks' /\ SubmittedHaveThreads'
  <2>1. LifecycleInv /\ NothingLeaks /\ SubmittedHaveThreads /\ Next
          => NothingLeaks' /\ SubmittedHaveThreads'
    BY NothingLeaksStep, SubmittedHaveThreadsStep DEF LifecycleInv
  <2>2. NothingLeaks /\ SubmittedHaveThreads /\ UNCHANGED vars
          => NothingLeaks' /\ SubmittedHaveThreads'
    BY DEF NothingLeaks, HoldsNothing, SubmittedHaveThreads, Submitting, vars
  <2> QED BY <2>1, <2>2
<1>3. LifecycleInv /\ NothingLeaks /\ SubmittedHaveThreads => AcquisitionAtomic
  <2> SUFFICES ASSUME LifecycleInv, NothingLeaks, SubmittedHaveThreads, NEW o \in Op,
                      ~HoldsNothing(o)
               PROVE  \A a \in accesses[o] : Holds(o, a[1])
    BY DEF AcquisitionAtomic, HoldsNothing, Holds
  <2>i. ExclusionInv /\ TypeOK
    BY DEF LifecycleInv, ExclusionInv
  <2>1. ~released[o] /\ opState[o] \notin {"Unborn", "Rejected"}
    BY <2>i DEF NothingLeaks, ExclusionInv, ReleasedHoldsNothing, HoldsNothing
  <2>2. ASSUME opState[o] = "Submitted" PROVE Covered(o)
    <3>1. PICK t \in Thread : Submitting(t) /\ arg[t] = o
      BY <2>2 DEF SubmittedHaveThreads
    <3>2. pc[t] \in {"start", "abort", "unwind", "publish"}
      BY <3>1 DEF NothingLeaks, Submitting
    <3> QED BY <3>1, <3>2 DEF LifecycleInv, WorkIsCovered
  <2>3. ASSUME opState[o] # "Submitted" PROVE Covered(o)
    <3>1. Published(o)
      BY <2>i, <2>1, <2>3 DEF Published, TypeOK
    <3> QED BY <2>1, <3>1 DEF LifecycleInv, WorkIsCovered
  <2>4. Covered(o)
    BY <2>2, <2>3
  <2>5. accesses[o] \subseteq (Resource \cup {InvalidResource}) \X Kind
    BY <2>i DEF TypeOK
  <2> QED BY <2>4, <2>5 DEF Covered, Holds
<1> QED BY <1>1, <1>2, <1>3, Lifecycle, PTL DEF Spec

-----------------------------------------------------------------------------
(***************************************************************************)
(* What holds for one host thread: between its checks and its accesses, and *)
(* between a poll and its application, no other thread runs.               *)
(***************************************************************************)
\* A failure that state() answered is kept by the activation that publishes the outcome.
PolledFailureKept ==
    \A o \in Op : opState[o] = "Failed" =>
        /\ frame[o].at \in {"deps", "wait"} => frame[o].known = "err"
        /\ frame[o].at \in {"release", "publish"} => frame[o].failure = "err"

\* What the guards of an AsyncResource let through stays unreserved.
HostGuards ==
    \A t \in Thread :
        /\ pc[t] = "reading" => Readable(arg[t])
        /\ pc[t] = "mutating" => Unreserved(arg[t])

\* No step of a lone thread, or of the backend, makes an activation forget a failure
\* that state() answered: a poll is never under way while an activation is.
LEMMA PolledFailureKeptStep ==
    ASSUME NEW s, Thread = {s}, LifecycleInv, PolledFailureKept, Next
    PROVE  PolledFailureKept'
<1>i. TypeOK /\ ExclusionInv /\ frame \in [Op -> Frame]
  BY DEF LifecycleInv, ExclusionInv, TypeOK
<1> SUFFICES ASSUME NEW o \in Op, opState'[o] = "Failed"
             PROVE  /\ frame'[o].at \in {"deps", "wait"} => frame'[o].known = "err"
                    /\ frame'[o].at \in {"release", "publish"} => frame'[o].failure = "err"
  BY DEF PolledFailureKept
<1>1. CASE opState[o] = "Failed"
  <2>1. CASE frame'[o] = frame[o]
    BY <1>1, <2>1 DEF PolledFailureKept
  <2>2. CASE ObserveEnter(o)
    <3>1. frame'[o].at = "deps" /\ frame'[o].known = outcome[o]
      BY <1>i, <1>1, <2>2 DEF ObserveEnter
    <3> QED BY <1>i, <1>1, <3>1 DEF TypeOK
  <2>3. CASE Activation(o) /\ ~ObserveEnter(o)
    BY <1>i, <1>1, <2>3, ActivationMoves DEF PolledFailureKept, NoFrame
  <2> QED BY <1>i, <2>1, <2>2, <2>3, Writers, ActivationMoves
<1>2. CASE opState[o] # "Failed"
  <2>1. PICK t \in Thread : StateApply(t)
    BY <1>i, <1>2, StateMoves
  <2>2. callee[t] = NoOp /\ UNCHANGED frame
    BY <2>1 DEF StateApply, LifecycleInv, CallersStay
  <2>3. frame[o].at = "none"
    BY <2>1, <2>2 DEF LifecycleInv, CallersStay, Op, NoOp
  <2> QED BY <2>2, <2>3
<1> QED BY <1>1, <1>2

\* How a thread gets to an access of its own.
LEMMA HostMoves ==
    ASSUME TypeOK, Next, NEW u \in Thread, pc'[u] \in {"reading", "mutating"}
    PROVE  \/ pc'[u] = pc[u] /\ arg'[u] = arg[u]
           \/ pc'[u] = "reading" /\ HostRead(u)
           \/ pc'[u] = "mutating" /\ HostMutate(u)
<1>s. pc = [t \in Thread |-> pc[t]] /\ arg = [t \in Thread |-> arg[t]]
  BY DEF TypeOK
<1>1. ASSUME NEW t \in Thread, t # u, Call(t)
      PROVE  pc'[u] = pc[u] /\ arg'[u] = arg[u]
  <2>1. CASE Drop(t)
    BY <1>s, <1>1, <2>1 DEF Drop, Goto
  <2> QED BY <1>s, <1>1, <2>1 DEF Call, Submit, SubmitInvalidDependency, Observe,
     TakeUnobserved, StateCheck, HostRead, HostMutate, Goto, threadVars
<1>2. ASSUME Call(u), ~HostRead(u), ~HostMutate(u)
      PROVE  pc'[u] = pc[u] /\ arg'[u] = arg[u]
  <2>1. CASE Drop(u)
    BY <1>s, <2>1 DEF Drop, Goto
  <2> QED BY <1>s, <1>2, <2>1 DEF Call, Submit, SubmitInvalidDependency, Observe,
     TakeUnobserved, StateCheck, Goto, threadVars
<1>3. ASSUME HostRead(u) \/ HostMutate(u)
      PROVE  (pc'[u] = "reading" /\ HostRead(u)) \/ (pc'[u] = "mutating" /\ HostMutate(u))
  BY <1>s, <1>3 DEF HostRead, HostMutate, Goto
<1>4. ASSUME NEW t \in Thread, Running(t)
      PROVE  pc'[u] = pc[u] /\ arg'[u] = arg[u]
  <2>1. CASE \/ SubmitDependencyFailed(t) \/ AcquireRejected(t) \/ AcquireOutOfMemory(t)
             \/ SubmitUnwind(t) \/ SubmitPublish(t) \/ ObserveDone(t) \/ DropDone(t)
             \/ StateApply(t) \/ HostAccessDone(t)
    BY <1>s, <2>1 DEF SubmitDependencyFailed, AcquireRejected, AcquireOutOfMemory,
       SubmitUnwind, SubmitPublish, ObserveDone, DropDone, StateApply, HostAccessDone,
       Reject, Return
  <2>2. CASE \/ SubmitObserveDependency(t) \/ SubmitDependencySucceeded(t) \/ Acquire(t)
             \/ SubmitBackend(t) \/ AbortBackend(t) \/ StatePoll(t)
    <3>1. UNCHANGED arg /\ (UNCHANGED pc \/ \E l \in {"acquire", "start", "publish",
              "abort", "unwind", "apply"} : pc' = [pc EXCEPT ![t] = l])
      BY <2>2 DEF SubmitObserveDependency, SubmitDependencySucceeded, Acquire,
         SubmitBackend, AbortBackend, StatePoll, Goto
    <3> QED BY <1>s, <3>1
  <2> QED BY <1>4, <2>1, <2>2 DEF Running, SubmitStep
<1>5. ASSUME NEW o \in Op, Activation(o) \/ BackendFinish(o)
      PROVE  pc'[u] = pc[u] /\ arg'[u] = arg[u]
  BY <1>5 DEF Activation, ObserveEnter, ObserveDependency, ObserveWait, ObserveRelease,
     ObservePublish, BackendFinish, threadVars
<1> QED BY <1>1, <1>2, <1>3, <1>4, <1>5 DEF Next

\* No step of a lone thread, or of the backend, reserves what the thread is accessing.
LEMMA HostGuardsStep ==
    ASSUME NEW s, Thread = {s}, LifecycleInv, HostGuards, Next
    PROVE  HostGuards'
<1>i. TypeOK /\ ExclusionInv
  BY DEF LifecycleInv, ExclusionInv
<1>1. ASSUME pc[s] \in {"reading", "mutating"}, pc'[s] = pc[s]
      PROVE  \A r \in Resource : reservations'[r] \subseteq reservations[r]
  <2>1. ~Acquire(s) /\ ~AcquireOutOfMemory(s) /\ ~SubmitUnwind(s)
    BY <1>1 DEF Acquire, AcquireOutOfMemory, Acquirable, SubmitUnwind
  <2>2. ASSUME NEW o \in Op, ObserveRelease(o)
        PROVE  \A r \in Resource : reservations'[r] \subseteq reservations[r]
    BY <1>i, <2>2, ReleasedEntries DEF ObserveRelease
  <2> QED BY <2>1, <2>2, ReservationWriters
<1>2. CASE pc'[s] = pc[s] /\ arg'[s] = arg[s] /\ pc[s] \in {"reading", "mutating"}
  <2>1. arg[s] \in Resource
    BY <1>i, <1>2 DEF TypeOK
  <2> QED BY <1>1, <1>2, <2>1 DEF HostGuards, Readable, Unreserved
<1>3. CASE HostRead(s) /\ pc'[s] = "reading"
  BY <1>i, <1>3 DEF HostRead, HostGuards, Readable, TypeOK
<1>4. CASE HostMutate(s) /\ pc'[s] = "mutating"
  BY <1>i, <1>4 DEF HostMutate, HostGuards, Unreserved, TypeOK
<1>5. CASE pc'[s] \notin {"reading", "mutating"}
  BY <1>5 DEF HostGuards
<1> QED BY <1>i, <1>2, <1>3, <1>4, <1>5, HostMoves

\* With one host thread, a failure that state() answered is the outcome observe() returns.
THEOREM PolledFailures ==
    ASSUME NEW s, Thread = {s}
    PROVE  Spec => FailedStateIsFinal
<1> DEFINE Final == \A o \in Op :
                       opState[o] = "Failed" /\ opState'[o] = "Observed" => outcome'[o] = "err"
<1>1. Init => PolledFailureKept
  BY DEF Init, PolledFailureKept, NoFrame
<1>2. LifecycleInv /\ PolledFailureKept /\ [Next]_vars => PolledFailureKept'
  <2>1. LifecycleInv /\ PolledFailureKept /\ Next => PolledFailureKept'
    BY PolledFailureKeptStep
  <2>2. PolledFailureKept /\ UNCHANGED vars => PolledFailureKept'
    BY DEF PolledFailureKept, vars
  <2> QED BY <2>1, <2>2
<1>3. LifecycleInv /\ PolledFailureKept /\ [Next]_vars => [Final]_vars
  <2> SUFFICES ASSUME LifecycleInv, PolledFailureKept, Next, NEW o \in Op,
                      opState[o] = "Failed", opState'[o] = "Observed"
               PROVE  outcome'[o] = "err"
    OBVIOUS
  <2>1. ObservePublish(o)
    BY StateMoves DEF LifecycleInv
  <2>2. frame[o].failure = "err"
    BY <2>1 DEF ObservePublish, PolledFailureKept
  <2> QED BY <2>1, <2>2 DEF ObservePublish, LifecycleInv, ExclusionInv, TypeOK
<1>4. Spec => [][Final]_vars
  BY <1>1, <1>2, <1>3, Lifecycle, PTL DEF Spec
<1> QED BY <1>4 DEF FailedStateIsFinal

\* With one host thread, an access that the guards let through never overlaps backend
\* work that conflicts with it.
THEOREM HostAccesses ==
    ASSUME NEW s, Thread = {s}
    PROVE  Spec => []HostAccessSafe
<1>1. Init => HostGuards
  BY DEF Init, HostGuards
<1>2. LifecycleInv /\ HostGuards /\ [Next]_vars => HostGuards'
  <2>1. LifecycleInv /\ HostGuards /\ Next => HostGuards'
    BY HostGuardsStep
  <2>2. HostGuards /\ UNCHANGED vars => HostGuards'
    BY DEF HostGuards, Readable, Unreserved, vars
  <2> QED BY <2>1, <2>2
<1>3. LifecycleInv /\ HostGuards => HostAccessSafe
  <2> SUFFICES ASSUME LifecycleInv, HostGuards, NEW t \in Thread, NEW o \in Op,
                      NEW a \in accesses[o], backend[o] = "running", arg[t] = a[1]
               PROVE  pc[t] # "mutating" /\ (pc[t] = "reading" => a[2] = "Read")
    BY DEF HostAccessSafe
  <2>0. <<o, a[2]>> \in reservations[arg[t]] /\ arg[t] \in Resource
    BY DEF LifecycleInv, WorkIsCovered, Covered
  <2>1. <<o, a[2]>> \in reservations[arg[t]] /\ a[2] \in {"Read", "Write"}
    <3>1. accesses[o] \in SUBSET ((Resource \cup {InvalidResource}) \X Kind)
      BY DEF LifecycleInv, ExclusionInv, TypeOK
    <3> QED BY <2>0, <3>1 DEF Kind
  <2>2. pc[t] # "mutating"
    BY <2>1 DEF HostGuards, Unreserved
  <2>3. pc[t] = "reading" => <<o, a[2]>>[2] # "Write"
    BY <2>1 DEF HostGuards, Readable
  <2> QED BY <2>1, <2>2, <2>3
<1> QED BY <1>1, <1>2, <1>3, Lifecycle, PTL DEF Spec
=============================================================================
