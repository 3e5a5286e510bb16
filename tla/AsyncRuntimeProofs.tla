------------------------- MODULE AsyncRuntimeProofs -------------------------
(***************************************************************************)
(* Proofs about AsyncRuntime, for any threads, resources, accesses and     *)
(* number of submissions.                                                  *)
(***************************************************************************)
EXTENDS AsyncRuntime, TLAPS

-----------------------------------------------------------------------------
(***************************************************************************)
(* Typing.                                                                 *)
(***************************************************************************)
\* Initially every variable has its type.
LEMMA InitTypeOK == Init => TypeOK
  BY BoundAssumption DEF Init, TypeOK, Op, NoOp, NoFrame, Frame

\* What releaseReservations leaves behind has its type.
LEMMA ReleaseTyped ==
    ASSUME TypeOK, NEW o \in Op, ReleaseReservations(o)
    PROVE  /\ released' \in [Op -> BOOLEAN]
           /\ reservations' \in [Resource -> SUBSET (Op \X Kind)]
           /\ accesses' \in [Op -> SUBSET ((Resource \cup {InvalidResource}) \X Kind)]
<1>1. CASE released[o]
  BY <1>1 DEF TypeOK, ReleaseReservations
<1>2. CASE ~released[o]
  <2>1. /\ released' = [released EXCEPT ![o] = TRUE]
        /\ reservations' = [r \in Resource |-> {e \in reservations[r] : e[1] # o}]
        /\ accesses' = [accesses EXCEPT ![o] = {}]
    BY <1>2 DEF ReleaseReservations, WithoutOp
  <2>2. \A r \in Resource : {e \in reservations[r] : e[1] # o} \in SUBSET (Op \X Kind)
    BY DEF TypeOK
  <2>3. reservations' \in [Resource -> SUBSET (Op \X Kind)]
    BY <2>1, <2>2
  <2> QED BY <2>1, <2>3 DEF TypeOK
<1> QED BY <1>1, <1>2

\* What acquireReservations enters has its type.
LEMMA ReservedTyped ==
    ASSUME TypeOK, NEW o \in Op, NEW acc,
           acc \subseteq (Resource \cup {InvalidResource}) \X Kind
    PROVE  Reserved(o, acc) \in [Resource -> SUBSET (Op \X Kind)]
<1>1. \A r \in Resource : {<<o, a[2]>> : a \in {x \in acc : x[1] = r}} \subseteq Op \X Kind
  OBVIOUS
<1>2. \A r \in Resource : reservations[r] \subseteq Op \X Kind
  BY DEF TypeOK
<1> QED BY <1>1, <1>2 DEF Reserved

\* A step of a submission keeps the types.
LEMMA SubmitStepTypeOK ==
    ASSUME TypeOK, NEW t \in Thread, SubmitStep(t)
    PROVE  TypeOK'
<1>1. CASE SubmitObserveDependency(t)
  <2>1. CASE \E d \in todo[t] :
            /\ callee' = [callee EXCEPT ![t] = d]
            /\ todo' = [todo EXCEPT ![t] = @ \ {d}]
            /\ UNCHANGED pc
    <3> PICK d \in todo[t] :
            /\ callee' = [callee EXCEPT ![t] = d]
            /\ todo' = [todo EXCEPT ![t] = @ \ {d}]
            /\ UNCHANGED pc
      BY <2>1
    <3>1. d \in Op
      BY DEF TypeOK
    <3> QED BY <1>1, <3>1 DEF TypeOK, SubmitObserveDependency, submitVars, opVars
  <2>2. CASE Goto(t, "acquire") /\ UNCHANGED <<callee, todo>>
    BY <1>1, <2>2 DEF TypeOK, SubmitObserveDependency, Goto, submitVars, opVars
  <2> QED BY <1>1, <2>1, <2>2 DEF SubmitObserveDependency
<1>2. CASE SubmitDependencySucceeded(t)
  BY <1>2 DEF TypeOK, SubmitDependencySucceeded, NoOp, submitVars, opVars
<1>3. CASE SubmitDependencyFailed(t)
  <2>1. reported' \in [Op -> SUBSET {"observe", "dependency", "unobserved"}]
    BY <1>3 DEF TypeOK, SubmitDependencyFailed
  <2> QED BY <1>3, <2>1
          DEF TypeOK, SubmitDependencyFailed, Reject, Return, NoOp, submitVars
<1>4. CASE AcquireRejected(t)
  BY <1>4 DEF TypeOK, AcquireRejected, Reject, Return, NoOp, submitVars
<1>5. CASE Acquire(t)
  <2>1. arg[t] \in Op /\ Normalized(accesses[arg[t]])
            \subseteq (Resource \cup {InvalidResource}) \X Kind
    BY <1>5 DEF TypeOK, Acquire, Acquirable, Normalized
  <2>2. reservations' \in [Resource -> SUBSET (Op \X Kind)]
    BY <1>5, <2>1, ReservedTyped DEF Acquire
  <2>3. accesses' \in [Op -> SUBSET ((Resource \cup {InvalidResource}) \X Kind)]
    BY <1>5, <2>1 DEF TypeOK, Acquire
  <2> QED BY <1>5, <2>1, <2>2, <2>3 DEF TypeOK, Acquire, Acquirable, Goto, opVars
<1>6. CASE AcquireOutOfMemory(t)
  <2>1. arg[t] \in Op /\ Normalized(accesses[arg[t]])
            \subseteq (Resource \cup {InvalidResource}) \X Kind
    BY <1>6 DEF TypeOK, AcquireOutOfMemory, Acquirable, Normalized
  <2>2. reservations' \in [Resource -> SUBSET (Op \X Kind)]
    BY <1>6, <2>1, ReservedTyped DEF AcquireOutOfMemory
  <2> QED BY <1>6, <2>1, <2>2
          DEF TypeOK, AcquireOutOfMemory, Reject, Return, NoOp, submitVars
<1>7. CASE SubmitBackend(t)
  <2>1. /\ backend' \in [Op -> {"idle", "running", "ok", "err"}]
        /\ \/ pc' = [pc EXCEPT ![t] = "publish"]
           \/ pc' = [pc EXCEPT ![t] = "abort"]
    BY <1>7 DEF TypeOK, SubmitBackend, Goto
  <2>2. arg[t] \in Op
    BY <1>7 DEF TypeOK, SubmitBackend
  <2>3. CASE pc' = [pc EXCEPT ![t] = "publish"]
    BY <1>7, <2>1, <2>2, <2>3 DEF TypeOK, SubmitBackend, submitVars, opVars
  <2>4. CASE pc' = [pc EXCEPT ![t] = "abort"]
    BY <1>7, <2>1, <2>2, <2>4 DEF TypeOK, SubmitBackend, submitVars, opVars
  <2> QED BY <2>1, <2>3, <2>4
<1>8. CASE AbortBackend(t)
  BY <1>8 DEF TypeOK, AbortBackend, Goto, submitVars, opVars
<1>9. CASE SubmitUnwind(t)
  <2>1. arg[t] \in Op
    BY <1>9 DEF TypeOK, SubmitUnwind
  <2> QED BY <1>9, <2>1, ReleaseTyped DEF TypeOK, SubmitUnwind, Reject, Return, NoOp
<1>10. CASE SubmitPublish(t)
  BY <1>10 DEF TypeOK, SubmitPublish, Return, NoOp, submitVars
<1> QED BY <1>1, <1>2, <1>3, <1>4, <1>5, <1>6, <1>7, <1>8, <1>9, <1>10 DEF SubmitStep

\* The other steps of a call under way keep the types.
LEMMA RunningTypeOK ==
    ASSUME TypeOK, NEW t \in Thread, Running(t)
    PROVE  TypeOK'
<1>1. CASE SubmitStep(t)
  BY <1>1, SubmitStepTypeOK
<1>2. CASE ObserveDone(t)
  <2>1. reported' \in [Op -> SUBSET {"observe", "dependency", "unobserved"}]
    BY <1>2 DEF TypeOK, ObserveDone, Report
  <2> QED BY <1>2, <2>1 DEF TypeOK, ObserveDone, Return, NoOp, submitVars, opVars
<1>3. CASE DropDone(t)
  <2>1. reported' \in [Op -> SUBSET {"observe", "dependency", "unobserved"}]
    BY <1>3 DEF TypeOK, DropDone, Report
  <2>2. unobserved' \in SUBSET Op
    BY <1>3 DEF TypeOK, DropDone
  <2> QED BY <1>3, <2>1, <2>2 DEF TypeOK, DropDone, Return, NoOp, submitVars, opVars
<1>4. CASE StatePoll(t)
  <2>1. polled' \in [Thread -> {"Pending", "Completed", "Failed"}]
    BY <1>4 DEF TypeOK, StatePoll, PollAnswer
  <2> QED BY <1>4, <2>1 DEF TypeOK, StatePoll, Goto, submitVars, opVars
<1>5. CASE StateApply(t)
  <2>1. /\ opState' \in [Op -> {"Unborn", "Submitted", "Rejected", "Pending", "Completed",
                                 "Failed", "Observed"}]
        /\ outcome' \in [Op -> {"none", "ok", "err"}]
        /\ \A o \in Op : opState'[o] = "Failed" => outcome'[o] = "err"
    <3>1. arg[t] \in Op /\ polled[t] \in {"Pending", "Completed", "Failed"}
      BY <1>5 DEF TypeOK, StateApply
    <3>2. CASE StillPending(arg[t]) /\ polled[t] # "Pending"
      <4>1. /\ opState' = [opState EXCEPT ![arg[t]] = polled[t]]
            /\ outcome' = IF polled[t] = "Failed" THEN [outcome EXCEPT ![arg[t]] = "err"]
                          ELSE outcome
        BY <1>5, <3>2 DEF StateApply, Answered
      <4>2. CASE polled[t] = "Failed"
        BY <3>1, <4>1, <4>2 DEF TypeOK
      <4>3. CASE polled[t] # "Failed"
        BY <3>1, <4>1, <4>3 DEF TypeOK
      <4> QED BY <4>2, <4>3
    <3>3. CASE ~(StillPending(arg[t]) /\ polled[t] # "Pending")
      BY <1>5, <3>3 DEF TypeOK, StateApply
    <3> QED BY <3>2, <3>3
  <2> QED BY <1>5, <2>1 DEF TypeOK, StateApply, Return, NoOp, submitVars
<1>6. CASE HostAccessDone(t)
  BY <1>6 DEF TypeOK, HostAccessDone, Return, NoOp, submitVars, opVars
<1> QED BY <1>1, <1>2, <1>3, <1>4, <1>5, <1>6 DEF Running

\* A new call keeps the types.
LEMMA CallTypeOK ==
    ASSUME TypeOK, NEW t \in Thread, Call(t)
    PROVE  TypeOK'
<1>1. CASE Submit(t)
  <2> PICK acc \in AccessInputs, ds \in SUBSET {d \in Op : Published(d)},
           lost \in SUBSET {d \in Op : frame[d].at = "publish"} :
        /\ accesses' = [accesses EXCEPT ![nextOp] = acc]
        /\ dependencies' = [dependencies EXCEPT ![nextOp] = ds]
        /\ closure' = [closure EXCEPT ![nextOp] = Reachable(ds, lost)]
        /\ todo' = [todo EXCEPT ![t] = ds]
    BY <1>1 DEF Submit
  <2>1. /\ acc \in SUBSET ((Resource \cup {InvalidResource}) \X Kind)
        /\ ds \in SUBSET Op /\ Reachable(ds, lost) \in SUBSET Op
    BY AccessAssumption DEF Reachable
  <2>2. nextOp \in Op /\ nextOp' \in 1..(MaxOp + 1)
    BY <1>1, BoundAssumption DEF Submit, Op
  <2> QED BY <1>1, <2>1, <2>2 DEF TypeOK, Submit, NoOp, Goto, opVars
<1>2. CASE SubmitInvalidDependency(t)
  BY <1>2, BoundAssumption DEF TypeOK, SubmitInvalidDependency, Op, threadVars
<1>3. CASE Observe(t)
  BY <1>3 DEF TypeOK, Observe, Goto, submitVars, opVars
<1>4. CASE Drop(t)
  <2> PICK o \in Op :
        /\ handle' = [handle EXCEPT ![o] = "dropped"]
        /\ IF NeedsDrain(o)
           THEN /\ Goto(t, "drain")
                /\ arg' = [arg EXCEPT ![t] = o]
                /\ callee' = [callee EXCEPT ![t] = o]
           ELSE UNCHANGED <<pc, arg, callee>>
    BY <1>4 DEF Drop
  <2>1. CASE NeedsDrain(o)
    <3>1. /\ pc' = [pc EXCEPT ![t] = "drain"]
          /\ arg' = [arg EXCEPT ![t] = o]
          /\ callee' = [callee EXCEPT ![t] = o]
      BY <2>1 DEF Goto
    <3> QED BY <1>4, <3>1 DEF TypeOK, Drop, submitVars, opVars
  <2>2. CASE ~NeedsDrain(o)
    BY <1>4, <2>2 DEF TypeOK, Drop, submitVars, opVars
  <2> QED BY <2>1, <2>2
<1>5. CASE TakeUnobserved(t)
  BY <1>5 DEF TypeOK, TakeUnobserved, submitVars, opVars, threadVars
<1>6. CASE StateCheck(t)
  BY <1>6 DEF TypeOK, StateCheck, Goto, submitVars, opVars
<1>7. CASE HostRead(t)
  BY <1>7 DEF TypeOK, HostRead, Goto, submitVars, opVars
<1>8. CASE HostMutate(t)
  BY <1>8 DEF TypeOK, HostMutate, Goto, submitVars, opVars
<1> QED BY <1>1, <1>2, <1>3, <1>4, <1>5, <1>6, <1>7, <1>8 DEF Call

\* A step of an activation of observeImpl keeps the types.
LEMMA ActivationTypeOK ==
    ASSUME TypeOK, NEW o \in Op, Activation(o)
    PROVE  TypeOK'
<1>f. frame \in [Op -> Frame] /\ frame[o] \in Frame
  BY DEF TypeOK
<1>1. CASE ObserveEnter(o)
  <2>1. (IF opState[o] = "Failed" THEN outcome[o] ELSE "none") \in {"none", "err"}
    BY DEF TypeOK
  <2>2. frame' \in [Op -> Frame]
    BY <1>1, <1>f, <2>1 DEF ObserveEnter, TypeOK, Frame, NoOp
  <2> QED BY <1>1, <2>2 DEF TypeOK, ObserveEnter, submitVars, threadVars
<1>2. CASE ObserveDependency(o)
  <2>f. frame' \in [Op -> Frame]
    <3>1. CASE \E e \in frame[o].todo :
                 frame' = [frame EXCEPT ![o].callee = e, ![o].todo = @ \ {e}]
      BY <1>f, <3>1 DEF Frame
    <3>2. CASE frame' = [frame EXCEPT ![o].callee = NoOp]
      BY <1>f, <3>2 DEF Frame
    <3>3. CASE frame' = [frame EXCEPT ![o].callee = NoOp, ![o].todo = {},
                                      ![o].failure = "err", ![o].at = "wait"]
      BY <1>f, <3>3 DEF Frame
    <3>4. CASE frame' = [frame EXCEPT ![o].at = "wait"]
      BY <1>f, <3>4 DEF Frame
    <3> QED BY <1>2, <3>1, <3>2, <3>3, <3>4 DEF ObserveDependency
  <2> QED BY <1>2, <2>f DEF TypeOK, ObserveDependency, submitVars, opVars, threadVars
<1>3. CASE ObserveWait(o)
  <2>1. FirstFailure(frame[o], IF backend[o] = "err" THEN "err" ELSE "none")
            \in {"none", "err"}
    BY <1>f DEF FirstFailure, Frame
  <2>2. frame' \in [Op -> Frame]
    BY <1>3, <1>f, <2>1 DEF ObserveWait, Frame
  <2>3. waits' \in [Op -> Nat]
    BY <1>3 DEF ObserveWait, TypeOK
  <2> QED BY <1>3, <2>2, <2>3 DEF TypeOK, ObserveWait, submitVars, opVars, threadVars
<1>4. CASE ObserveRelease(o)
  <2>1. frame' \in [Op -> Frame]
    BY <1>4, <1>f DEF ObserveRelease, Frame
  <2> QED BY <1>4, <2>1, ReleaseTyped DEF TypeOK, ObserveRelease, threadVars
<1>5. CASE ObservePublish(o)
  BY <1>5, <1>f DEF TypeOK, ObservePublish, Unlatched, NoFrame, Frame, NoOp, threadVars
<1> QED BY <1>1, <1>2, <1>3, <1>4, <1>5 DEF Activation

\* The backend finishing an operation keeps the types.
LEMMA BackendFinishTypeOK ==
    ASSUME TypeOK, NEW o \in Op, BackendFinish(o)
    PROVE  TypeOK'
  BY DEF TypeOK, BackendFinish, submitVars, opVars, threadVars

\* A step that changes nothing keeps the types.
LEMMA StutterTypeOK == TypeOK /\ UNCHANGED vars => TypeOK'
  BY DEF TypeOK, vars

\* Every step keeps the types: the cases above, put together.
LEMMA TypingStep == TypeOK /\ [Next]_vars => TypeOK'
  BY CallTypeOK, RunningTypeOK, ActivationTypeOK, BackendFinishTypeOK, StutterTypeOK
  DEF Next

\* Every variable of the runtime keeps its type.
THEOREM Typing == Spec => []TypeOK
  BY InitTypeOK, TypingStep, PTL DEF Spec

-----------------------------------------------------------------------------
(***************************************************************************)
(* The inductive invariant.                                                *)
(***************************************************************************)
Submitting(t) == pc[t] \in {"deps", "acquire", "start", "abort", "unwind", "publish"}

\* A submission under way has an operation of its own, drawn before nextOp.
SubmissionsApart ==
    /\ \A o \in Op : o >= nextOp => opState[o] = "Unborn"
    /\ \A t \in Thread : Submitting(t) => opState[arg[t]] = "Submitted"
    /\ \A t, u \in Thread : Submitting(t) /\ Submitting(u) /\ t # u => arg[t] # arg[u]

\* Whatever can be observed has been published by its submission.
NamedArePublished ==
    /\ \A o \in Op : \A d \in dependencies[o] : Published(d)
    /\ \A t \in Thread : \A d \in todo[t] : Published(d)
    /\ \A t \in Thread : callee[t] # NoOp => Published(callee[t])
    /\ \A o \in Op : \A d \in frame[o].todo : Published(d)
    /\ \A o \in Op : frame[o].callee # NoOp => Published(frame[o].callee)
    /\ \A o \in Op : handle[o] = "live" => Published(o)
    /\ \A o \in Op : frame[o].at # "none" => Published(o)

\* An outcome is published after the release, and ends the operation.
ObservedAreReleased ==
    /\ \A o \in Op : opState[o] \in {"Unborn", "Submitted"} => ~released[o]
    /\ \A o \in Op : frame[o].at = "publish" => released[o]
    /\ \A o \in Op : observed[o] =>
            released[o] /\ dependencies[o] = {} /\ opState[o] = "Observed"

\* An operation is published after all of its dependencies were observed, and while it
\* is being submitted its closure holds nothing else.
ClosureIsObserved ==
    /\ \A o \in Op : Published(o) => \A d \in dependencies[o] : observed[d]
    /\ \A t \in Thread : pc[t] = "deps" =>
            \A d \in dependencies[arg[t]] : d \in todo[t] \/ d = callee[t] \/ observed[d]
    /\ \A t \in Thread : Submitting(t) /\ pc[t] # "deps" =>
            \A d \in dependencies[arg[t]] : observed[d]
    /\ \A o \in Op : opState[o] = "Submitted" =>
            \A d \in closure[o] : d \in dependencies[o] \/ observed[d]

\* A released operation reserves nothing.
ReleasedHoldsNothing ==
    \A o \in Op : released[o] => \A r \in Resource : \A e \in reservations[r] : e[1] # o

ExclusionInv ==
    /\ TypeOK /\ SubmissionsApart /\ NamedArePublished /\ ObservedAreReleased
    /\ ClosureIsObserved /\ ReleasedHoldsNothing /\ ReservationExclusion

\* No step lets two threads submit one operation: an id is drawn once, under
\* nextOperation, and only the thread that drew it carries it through submission.
LEMMA SubmissionsApartStep ==
    ASSUME ExclusionInv, Next
    PROVE  SubmissionsApart'
<1> USE DEF ExclusionInv, TypeOK, SubmissionsApart, Submitting
<1>1. CASE UNCHANGED <<nextOp, opState, pc, arg>>
  BY <1>1
<1>Submit. ASSUME NEW t \in Thread, Submit(t) PROVE SubmissionsApart'
  BY <1>Submit DEF Submit, Goto, Op, opVars
<1>SubmitInvalidDependency. ASSUME NEW t \in Thread, SubmitInvalidDependency(t)
                            PROVE SubmissionsApart'
  BY <1>SubmitInvalidDependency DEF SubmitInvalidDependency, Op, threadVars
<1>Observe. ASSUME NEW t \in Thread, Observe(t) PROVE SubmissionsApart'
  BY <1>Observe DEF Observe, Goto, submitVars, opVars
<1>StateCheck. ASSUME NEW t \in Thread, StateCheck(t) PROVE SubmissionsApart'
  BY <1>StateCheck DEF StateCheck, Goto, submitVars, opVars
<1>HostRead. ASSUME NEW t \in Thread, HostRead(t) PROVE SubmissionsApart'
  BY <1>HostRead DEF HostRead, Goto, submitVars, opVars
<1>HostMutate. ASSUME NEW t \in Thread, HostMutate(t) PROVE SubmissionsApart'
  BY <1>HostMutate DEF HostMutate, Goto, submitVars, opVars
<1>Drop. ASSUME NEW t \in Thread, Drop(t) PROVE SubmissionsApart'
  <2>1. CASE Goto(t, "drain")
    BY <1>Drop, <2>1 DEF Drop, Goto, submitVars, opVars
  <2> QED BY <1>1, <1>Drop, <2>1 DEF Drop, submitVars, opVars
<1>StatePoll. ASSUME NEW t \in Thread, StatePoll(t) PROVE SubmissionsApart'
  BY <1>StatePoll DEF StatePoll, Goto, submitVars, opVars
<1>ObserveDone. ASSUME NEW t \in Thread, ObserveDone(t) PROVE SubmissionsApart'
  BY <1>ObserveDone DEF ObserveDone, Return, submitVars, opVars
<1>DropDone. ASSUME NEW t \in Thread, DropDone(t) PROVE SubmissionsApart'
  BY <1>DropDone DEF DropDone, Return, submitVars, opVars
<1>HostAccessDone. ASSUME NEW t \in Thread, HostAccessDone(t) PROVE SubmissionsApart'
  BY <1>HostAccessDone DEF HostAccessDone, Return, submitVars, opVars
<1>SubmitObserveDependency. ASSUME NEW t \in Thread, SubmitObserveDependency(t)
                            PROVE SubmissionsApart'
  BY <1>SubmitObserveDependency DEF SubmitObserveDependency, Goto, submitVars, opVars
<1>Acquire. ASSUME NEW t \in Thread, Acquire(t) PROVE SubmissionsApart'
  BY <1>Acquire DEF Acquire, Acquirable, Goto, submitVars, opVars
<1>AbortBackend. ASSUME NEW t \in Thread, AbortBackend(t) PROVE SubmissionsApart'
  BY <1>AbortBackend DEF AbortBackend, Goto, submitVars, opVars
<1>SubmitBackend. ASSUME NEW t \in Thread, SubmitBackend(t) PROVE SubmissionsApart'
  <2>1. CASE pc' = [pc EXCEPT ![t] = "publish"]
    BY <1>SubmitBackend, <2>1 DEF SubmitBackend, submitVars, opVars
  <2>2. CASE pc' = [pc EXCEPT ![t] = "abort"]
    BY <1>SubmitBackend, <2>2 DEF SubmitBackend, submitVars, opVars
  <2> QED BY <1>SubmitBackend, <2>1, <2>2 DEF SubmitBackend, Goto
<1>7. ASSUME NEW t \in Thread,
             \/ SubmitDependencyFailed(t) \/ AcquireRejected(t) \/ AcquireOutOfMemory(t)
             \/ SubmitUnwind(t) \/ SubmitPublish(t)
      PROVE  SubmissionsApart'
  <2>1. /\ Submitting(t) /\ UNCHANGED nextOp
        /\ pc' = [pc EXCEPT ![t] = "idle"] /\ arg' = [arg EXCEPT ![t] = NoOp]
        /\ \E s \in {"Rejected", "Pending"} : opState' = [opState EXCEPT ![arg[t]] = s]
    BY <1>7 DEF SubmitDependencyFailed, AcquireRejected, AcquireOutOfMemory, Acquirable,
                SubmitUnwind, SubmitPublish, Reject, Return, submitVars
  <2>2. arg[t] \in Op /\ arg[t] < nextOp
    BY <2>1 DEF Op
  <2> QED BY <2>1, <2>2
<1>8. ASSUME NEW t \in Thread, StateApply(t)
      PROVE  SubmissionsApart'
  <2>1. /\ UNCHANGED nextOp /\ pc[t] = "apply" /\ pc' = [pc EXCEPT ![t] = "idle"]
        /\ arg' = [arg EXCEPT ![t] = NoOp]
        /\ \/ UNCHANGED opState
           \/ opState[arg[t]] = "Pending" /\ \E s \in {"Completed", "Failed"} :
                opState' = [opState EXCEPT ![arg[t]] = s]
    BY <1>8 DEF StateApply, StillPending, Return, submitVars
  <2> QED BY <2>1
<1>9. ASSUME NEW o \in Op, ObservePublish(o)
      PROVE  SubmissionsApart'
  <2>1. opState[o] \notin {"Unborn",
          "Submitted"} /\ opState' = [opState EXCEPT ![o] = "Observed"]
    BY <1>9 DEF ObservePublish, NamedArePublished, Published
  <2> QED BY <1>9, <2>1 DEF ObservePublish, threadVars
<1>10. ASSUME NEW t \in Thread, TakeUnobserved(t) \/ SubmitDependencySucceeded(t)
       PROVE  UNCHANGED <<nextOp, opState, pc, arg>>
  BY <1>10 DEF TakeUnobserved, SubmitDependencySucceeded, submitVars, opVars, threadVars
<1>11. ASSUME NEW o \in Op, \/ ObserveEnter(o) \/ ObserveDependency(o) \/ ObserveWait(o)
                            \/ ObserveRelease(o) \/ BackendFinish(o)
       PROVE  UNCHANGED <<nextOp, opState, pc, arg>>
  BY <1>11 DEF ObserveEnter, ObserveDependency, ObserveWait, ObserveRelease, BackendFinish,
               submitVars, opVars, threadVars
<1> QED
  BY <1>1, <1>Submit, <1>SubmitInvalidDependency, <1>Observe, <1>StateCheck, <1>HostRead,
     <1>HostMutate, <1>Drop, <1>StatePoll, <1>ObserveDone, <1>DropDone, <1>HostAccessDone,
     <1>SubmitObserveDependency, <1>Acquire, <1>AbortBackend, <1>SubmitBackend,
     <1>7, <1>8, <1>9, <1>10, <1>11
  DEF Next, Call, Running, SubmitStep, Activation

\* A published operation stays published: no step moves it back to submission.
LEMMA PublishedStays ==
    ASSUME ExclusionInv, Next
    PROVE  \A d \in Op : Published(d) => Published(d)'
<1> USE DEF ExclusionInv, TypeOK, SubmissionsApart, Submitting, Published
<1>Submit. ASSUME NEW t \in Thread, Submit(t)
           PROVE \A d \in Op : Published(d) => Published(d)'
  BY <1>Submit DEF Submit, Goto, Op, submitVars, opVars, threadVars
<1>SubmitInvalidDependency. ASSUME NEW t \in Thread, SubmitInvalidDependency(t)
                            PROVE \A d \in Op : Published(d) => Published(d)'
  BY <1>SubmitInvalidDependency DEF SubmitInvalidDependency, submitVars, opVars, threadVars
<1>SubmitDependencyFailed. ASSUME NEW t \in Thread, SubmitDependencyFailed(t)
                           PROVE \A d \in Op : Published(d) => Published(d)'
  BY <1>SubmitDependencyFailed DEF SubmitDependencyFailed, Reject, Return, submitVars,
     opVars, threadVars
<1>AcquireRejected. ASSUME NEW t \in Thread, AcquireRejected(t)
                    PROVE \A d \in Op : Published(d) => Published(d)'
  BY <1>AcquireRejected DEF AcquireRejected, Reject, Return, submitVars, opVars, threadVars
<1>AcquireOutOfMemory. ASSUME NEW t \in Thread, AcquireOutOfMemory(t)
                       PROVE \A d \in Op : Published(d) => Published(d)'
  BY <1>AcquireOutOfMemory DEF AcquireOutOfMemory, Reject, Return, Acquirable, submitVars,
     opVars, threadVars
<1>SubmitUnwind. ASSUME NEW t \in Thread, SubmitUnwind(t)
                 PROVE \A d \in Op : Published(d) => Published(d)'
  BY <1>SubmitUnwind DEF SubmitUnwind, Reject, Return, submitVars, opVars, threadVars
<1>SubmitPublish. ASSUME NEW t \in Thread, SubmitPublish(t)
                  PROVE \A d \in Op : Published(d) => Published(d)'
  BY <1>SubmitPublish DEF SubmitPublish, Return, submitVars, opVars, threadVars
<1>StateApply. ASSUME NEW t \in Thread, StateApply(t)
               PROVE \A d \in Op : Published(d) => Published(d)'
  BY <1>StateApply DEF StateApply, Return, StillPending, submitVars, opVars, threadVars
<1>ObservePublish. ASSUME NEW o \in Op, ObservePublish(o)
                   PROVE \A d \in Op : Published(d) => Published(d)'
  BY <1>ObservePublish DEF ObservePublish, NoFrame, Unlatched, submitVars, opVars,
     threadVars
<1>quiet. ASSUME UNCHANGED opState PROVE \A d \in Op : Published(d) => Published(d)'
  BY <1>quiet
<1>qt0. ASSUME NEW t \in Thread, Observe(t) \/ Drop(t) \/ TakeUnobserved(t) \/ StateCheck(t)
        \/ HostRead(t)
      PROVE  UNCHANGED opState
  BY <1>qt0 DEF Observe, Drop, TakeUnobserved, StateCheck, HostRead, submitVars, opVars,
     threadVars
<1>qt1. ASSUME NEW t \in Thread, HostMutate(t) \/ SubmitObserveDependency(t)
        \/ SubmitDependencySucceeded(t) \/ Acquire(t) \/ SubmitBackend(t)
      PROVE  UNCHANGED opState
  BY <1>qt1 DEF HostMutate, SubmitObserveDependency, SubmitDependencySucceeded, Acquire,
     Acquirable, SubmitBackend, submitVars, opVars, threadVars
<1>qt2. ASSUME NEW t \in Thread, AbortBackend(t) \/ ObserveDone(t) \/ DropDone(t)
        \/ StatePoll(t) \/ HostAccessDone(t)
      PROVE  UNCHANGED opState
  BY <1>qt2 DEF AbortBackend, ObserveDone, DropDone, StatePoll, HostAccessDone, submitVars,
     opVars, threadVars
<1>qo0. ASSUME NEW o \in Op, ObserveEnter(o) \/ ObserveDependency(o) \/ ObserveWait(o)
        \/ ObserveRelease(o) \/ BackendFinish(o)
      PROVE  UNCHANGED opState
  BY <1>qo0 DEF ObserveEnter, ObserveDependency, ObserveWait, ObserveRelease, BackendFinish,
     submitVars, opVars, threadVars
<1> QED BY <1>Submit, <1>SubmitInvalidDependency, <1>SubmitDependencyFailed,
   <1>AcquireRejected, <1>AcquireOutOfMemory, <1>SubmitUnwind, <1>SubmitPublish,
   <1>StateApply, <1>ObservePublish, <1>quiet, <1>qt0, <1>qt1, <1>qt2, <1>qo0 DEF Next,
   Call, Running, SubmitStep, Activation

\* An observed operation stays observed.
LEMMA ObservedStays ==
    ASSUME ExclusionInv, Next
    PROVE  \A d \in Op : observed[d] => observed'[d]
<1> USE DEF ExclusionInv, TypeOK
<1>ObservePublish. ASSUME NEW o \in Op, ObservePublish(o)
                   PROVE \A d \in Op : observed[d] => observed'[d]
  BY <1>ObservePublish DEF ObservePublish, NoFrame, Unlatched, submitVars, opVars,
     threadVars
<1>quiet. ASSUME UNCHANGED observed PROVE \A d \in Op : observed[d] => observed'[d]
  BY <1>quiet
<1>qt0. ASSUME NEW t \in Thread, Submit(t) \/ SubmitInvalidDependency(t) \/ Observe(t)
        \/ Drop(t) \/ TakeUnobserved(t)
      PROVE  UNCHANGED observed
  BY <1>qt0 DEF Submit, SubmitInvalidDependency, Observe, Drop, TakeUnobserved, submitVars,
     opVars, threadVars
<1>qt1. ASSUME NEW t \in Thread, StateCheck(t) \/ HostRead(t) \/ HostMutate(t)
        \/ SubmitObserveDependency(t) \/ SubmitDependencySucceeded(t)
      PROVE  UNCHANGED observed
  BY <1>qt1 DEF StateCheck, HostRead, HostMutate, SubmitObserveDependency,
     SubmitDependencySucceeded, submitVars, opVars, threadVars
<1>qt2. ASSUME NEW t \in Thread, SubmitDependencyFailed(t) \/ AcquireRejected(t)
        \/ Acquire(t) \/ AcquireOutOfMemory(t) \/ SubmitBackend(t)
      PROVE  UNCHANGED observed
  BY <1>qt2 DEF SubmitDependencyFailed, AcquireRejected, Acquire, Acquirable,
     AcquireOutOfMemory, SubmitBackend, submitVars, opVars, threadVars
<1>qt3. ASSUME NEW t \in Thread, AbortBackend(t) \/ SubmitUnwind(t) \/ SubmitPublish(t)
        \/ ObserveDone(t) \/ DropDone(t)
      PROVE  UNCHANGED observed
  BY <1>qt3 DEF AbortBackend, SubmitUnwind, SubmitPublish, ObserveDone, DropDone,
     submitVars, opVars, threadVars
<1>qt4. ASSUME NEW t \in Thread, StatePoll(t) \/ StateApply(t) \/ HostAccessDone(t)
      PROVE  UNCHANGED observed
  BY <1>qt4 DEF StatePoll, StateApply, HostAccessDone, submitVars, opVars, threadVars
<1>qo0. ASSUME NEW o \in Op, ObserveEnter(o) \/ ObserveDependency(o) \/ ObserveWait(o)
        \/ ObserveRelease(o) \/ BackendFinish(o)
      PROVE  UNCHANGED observed
  BY <1>qo0 DEF ObserveEnter, ObserveDependency, ObserveWait, ObserveRelease, BackendFinish,
     submitVars, opVars, threadVars
<1> QED BY <1>ObservePublish, <1>quiet, <1>qt0, <1>qt1, <1>qt2, <1>qt3, <1>qt4, <1>qo0
   DEF Next, Call, Running, SubmitStep, Activation

\* The types that NamedArePublished relies on.
LEMMA NamedTyped ==
    ASSUME TypeOK
    PROVE  /\ \A o \in Op : /\ dependencies[o] \subseteq Op
                            /\ frame[o].todo \subseteq Op
                            /\ frame[o].callee \in Op \cup {NoOp}
           /\ \A t \in Thread : todo[t] \subseteq Op /\ callee[t] \in Op \cup {NoOp}
           /\ frame \in [Op -> Frame]
  BY DEF TypeOK, Frame

\* No step lets a caller, an activation or a dependency list name an operation that
\* submitAsyncOperation has not handed out.
LEMMA NamedArePublishedStep ==
    ASSUME ExclusionInv, Next
    PROVE  NamedArePublished'
<1>p. \A d \in Op : Published(d) => Published(d)'
  BY PublishedStays
<1>t. /\ \A o \in Op : /\ dependencies[o] \subseteq Op
                       /\ frame[o].todo \subseteq Op
                       /\ frame[o].callee \in Op \cup {NoOp}
      /\ \A t \in Thread : todo[t] \subseteq Op /\ callee[t] \in Op \cup {NoOp}
      /\ frame \in [Op -> Frame]
  BY NamedTyped DEF ExclusionInv
<1>n. NamedArePublished
  BY DEF ExclusionInv
<1>StateApply. ASSUME NEW t \in Thread, StateApply(t) PROVE NamedArePublished'
  <2>1. /\ UNCHANGED <<dependencies, handle, frame>>
        /\ callee' = [callee EXCEPT ![t] = NoOp] /\ todo' = [todo EXCEPT ![t] = {}]
    BY <1>StateApply DEF StateApply, Return, submitVars
  <2>2. callee \in [Thread -> Op \cup {NoOp}] /\ todo \in [Thread -> SUBSET Op]
    BY DEF ExclusionInv, TypeOK
  <2> QED BY <1>p, <1>t, <1>n, <2>1, <2>2 DEF NamedArePublished, Published
<1>SubmitObserveDependency. ASSUME NEW t \in Thread, SubmitObserveDependency(t)
                            PROVE  NamedArePublished'
  <2>1. UNCHANGED <<dependencies, handle, frame>>
    BY <1>SubmitObserveDependency DEF SubmitObserveDependency, submitVars
  <2>2. \/ UNCHANGED <<callee, todo>>
        \/ \E d \in todo[t] : /\ callee' = [callee EXCEPT ![t] = d]
                              /\ todo' = [todo EXCEPT ![t] = @ \ {d}]
    BY <1>SubmitObserveDependency DEF SubmitObserveDependency
  <2>3. callee \in [Thread -> Op \cup {NoOp}] /\ todo \in [Thread -> SUBSET Op]
    BY DEF ExclusionInv, TypeOK
  <2> QED BY <1>p, <1>t, <1>n, <2>1, <2>2, <2>3 DEF NamedArePublished, Published
<1>Drop. ASSUME NEW t \in Thread, Drop(t) PROVE NamedArePublished'
  <2>1. UNCHANGED <<dependencies, todo, frame>>
    BY <1>Drop DEF Drop, submitVars
  <2>2. \E o \in Op : /\ handle[o] = "live" /\ handle' = [handle EXCEPT ![o] = "dropped"]
                      /\ UNCHANGED callee \/ callee' = [callee EXCEPT ![t] = o]
    BY <1>Drop DEF Drop
  <2>3. callee \in [Thread -> Op \cup {NoOp}] /\ handle \in [Op -> {"none", "live",
          "dropped"}]
    BY DEF ExclusionInv, TypeOK
  <2> QED BY <1>p, <1>t, <1>n, <2>1, <2>2, <2>3 DEF NamedArePublished, Published
<1>ObserveEnter. ASSUME NEW o \in Op, ObserveEnter(o) PROVE NamedArePublished'
  <2> DEFINE known == IF opState[o] = "Failed" THEN outcome[o] ELSE "none"
  <2>1. /\ UNCHANGED <<dependencies, todo, callee, handle>>
        /\ frame' = [frame EXCEPT ![o] = [at |-> "deps", todo |-> dependencies[o],
                                         callee |-> NoOp, failure |-> "none",
                                            known |-> known]]
    BY <1>ObserveEnter DEF ObserveEnter, submitVars, threadVars
  <2>2. Published(o)
    BY <1>ObserveEnter, <1>n DEF ObserveEnter, Called, NamedArePublished, NoOp, Op
  <2> HIDE DEF known
  <2> QED BY <1>p, <1>t, <1>n, <2>1, <2>2 DEF NamedArePublished, Published
<1>ObserveDependency. ASSUME NEW o \in Op, ObserveDependency(o) PROVE NamedArePublished'
  <2>1. UNCHANGED <<dependencies, todo, callee, handle>>
    BY <1>ObserveDependency DEF ObserveDependency, submitVars, threadVars
  <2>2. frame[o].at = "deps" /\ Published(o)
    BY <1>ObserveDependency, <1>n DEF ObserveDependency, NamedArePublished
  <2>3. CASE \E e \in frame[o].todo :
               frame' = [frame EXCEPT ![o].callee = e, ![o].todo = @ \ {e}]
    BY <1>p, <1>t, <1>n, <2>1, <2>2, <2>3 DEF NamedArePublished, Published, Frame
  <2>4. CASE frame' = [frame EXCEPT ![o].callee = NoOp]
    BY <1>p, <1>t, <1>n, <2>1, <2>2, <2>4 DEF NamedArePublished, Published, Frame
  <2>5. CASE frame' = [frame EXCEPT ![o].callee = NoOp, ![o].todo = {},
                                    ![o].failure = "err", ![o].at = "wait"]
    BY <1>p, <1>t, <1>n, <2>1, <2>2, <2>5 DEF NamedArePublished, Published, Frame
  <2>6. CASE frame' = [frame EXCEPT ![o].at = "wait"]
    BY <1>p, <1>t, <1>n, <2>1, <2>2, <2>6 DEF NamedArePublished, Published, Frame
  <2> QED BY <1>ObserveDependency, <2>3, <2>4, <2>5, <2>6 DEF ObserveDependency
<1>quiet. ASSUME UNCHANGED <<dependencies, todo, callee, frame, handle>>
          PROVE  NamedArePublished'
  BY <1>quiet, <1>p, <1>t, <1>n DEF NamedArePublished, Published
<1> USE DEF ExclusionInv, TypeOK, NamedArePublished, Published
<1>Submit. ASSUME NEW t \in Thread, Submit(t) PROVE NamedArePublished'
  BY <1>Submit, <1>p DEF Submit, Goto, submitVars, opVars, threadVars
<1>Observe. ASSUME NEW t \in Thread, Observe(t) PROVE NamedArePublished'
  BY <1>Observe, <1>p DEF Observe, Goto, submitVars, opVars, threadVars
<1>SubmitDependencySucceeded. ASSUME NEW t \in Thread, SubmitDependencySucceeded(t)
                              PROVE NamedArePublished'
  BY <1>SubmitDependencySucceeded, <1>p DEF SubmitDependencySucceeded, submitVars, opVars,
     threadVars
<1>SubmitDependencyFailed. ASSUME NEW t \in Thread, SubmitDependencyFailed(t)
                           PROVE NamedArePublished'
  BY <1>SubmitDependencyFailed, <1>p DEF SubmitDependencyFailed, Reject, Return, submitVars,
     opVars, threadVars
<1>AcquireRejected. ASSUME NEW t \in Thread, AcquireRejected(t) PROVE NamedArePublished'
  BY <1>AcquireRejected, <1>p DEF AcquireRejected, Reject, Return, submitVars, opVars,
     threadVars
<1>AcquireOutOfMemory. ASSUME NEW t \in Thread, AcquireOutOfMemory(t)
                       PROVE NamedArePublished'
  BY <1>AcquireOutOfMemory, <1>p DEF AcquireOutOfMemory, Reject, Return, Acquirable,
     submitVars, opVars, threadVars
<1>SubmitUnwind. ASSUME NEW t \in Thread, SubmitUnwind(t) PROVE NamedArePublished'
  BY <1>SubmitUnwind, <1>p DEF SubmitUnwind, Reject, Return, submitVars, opVars, threadVars
<1>SubmitPublish. ASSUME NEW t \in Thread, SubmitPublish(t) PROVE NamedArePublished'
  BY <1>SubmitPublish, <1>p DEF SubmitPublish, Return, submitVars, opVars, threadVars
<1>ObserveDone. ASSUME NEW t \in Thread, ObserveDone(t) PROVE NamedArePublished'
  BY <1>ObserveDone, <1>p DEF ObserveDone, Return, submitVars, opVars, threadVars
<1>DropDone. ASSUME NEW t \in Thread, DropDone(t) PROVE NamedArePublished'
  BY <1>DropDone, <1>p DEF DropDone, Return, submitVars, opVars, threadVars
<1>HostAccessDone. ASSUME NEW t \in Thread, HostAccessDone(t) PROVE NamedArePublished'
  BY <1>HostAccessDone, <1>p DEF HostAccessDone, Return, submitVars, opVars, threadVars
<1>ObserveWait. ASSUME NEW o \in Op, ObserveWait(o) PROVE NamedArePublished'
  BY <1>ObserveWait, <1>p DEF ObserveWait, submitVars, opVars, threadVars
<1>ObserveRelease. ASSUME NEW o \in Op, ObserveRelease(o) PROVE NamedArePublished'
  BY <1>ObserveRelease, <1>p DEF ObserveRelease, ReleaseReservations, submitVars, opVars,
     threadVars
<1>ObservePublish. ASSUME NEW o \in Op, ObservePublish(o) PROVE NamedArePublished'
  BY <1>ObservePublish, <1>p DEF ObservePublish, NoFrame, Unlatched, submitVars, opVars,
     threadVars
<1>qt0. ASSUME NEW t \in Thread, SubmitInvalidDependency(t) \/ TakeUnobserved(t)
        \/ StateCheck(t) \/ HostRead(t) \/ HostMutate(t)
      PROVE  UNCHANGED <<dependencies, todo, callee, frame, handle>>
  BY <1>qt0 DEF SubmitInvalidDependency, TakeUnobserved, StateCheck, HostRead, HostMutate,
     submitVars, opVars, threadVars
<1>qt1. ASSUME NEW t \in Thread, Acquire(t) \/ SubmitBackend(t) \/ AbortBackend(t)
        \/ StatePoll(t)
      PROVE  UNCHANGED <<dependencies, todo, callee, frame, handle>>
  BY <1>qt1 DEF Acquire, Acquirable, SubmitBackend, AbortBackend, StatePoll, submitVars,
     opVars, threadVars
<1>qo0. ASSUME NEW o \in Op, BackendFinish(o)
      PROVE  UNCHANGED <<dependencies, todo, callee, frame, handle>>
  BY <1>qo0 DEF BackendFinish, submitVars, opVars, threadVars
<1> QED BY <1>Submit, <1>Observe, <1>Drop, <1>SubmitObserveDependency,
   <1>SubmitDependencySucceeded, <1>SubmitDependencyFailed, <1>AcquireRejected,
   <1>AcquireOutOfMemory, <1>SubmitUnwind, <1>SubmitPublish, <1>ObserveDone, <1>DropDone,
   <1>StateApply, <1>HostAccessDone, <1>ObserveEnter, <1>ObserveDependency, <1>ObserveWait,
   <1>ObserveRelease, <1>ObservePublish, <1>quiet, <1>qt0, <1>qt1, <1>qo0 DEF Next, Call,
   Running, SubmitStep, Activation

\* No step publishes an outcome before the reservations are released.
LEMMA ObservedAreReleasedStep ==
    ASSUME ExclusionInv, Next
    PROVE  ObservedAreReleased'
<1>o. ObservedAreReleased
  BY DEF ExclusionInv
<1>r. /\ released \in [Op -> BOOLEAN] /\ frame \in [Op -> Frame]
      /\ opState \in [Op -> {"Unborn", "Submitted", "Rejected", "Pending", "Completed",
                             "Failed", "Observed"}]
  BY DEF ExclusionInv, TypeOK
<1>SubmitUnwind. ASSUME NEW t \in Thread, SubmitUnwind(t) PROVE ObservedAreReleased'
  <2>1. arg[t] \in Op /\ opState[arg[t]] = "Submitted"
    BY <1>SubmitUnwind DEF SubmitUnwind, ExclusionInv, TypeOK, SubmissionsApart, Submitting
  <2>2. /\ opState' = [opState EXCEPT ![arg[t]] = "Rejected"]
        /\ UNCHANGED <<frame, observed, dependencies>>
        /\ released' = released \/ released' = [released EXCEPT ![arg[t]] = TRUE]
    BY <1>SubmitUnwind DEF SubmitUnwind, Reject, ReleaseReservations
  <2> QED BY <1>o, <1>r, <2>1, <2>2 DEF ObservedAreReleased
<1>ObserveDependency. ASSUME NEW o \in Op, ObserveDependency(o) PROVE ObservedAreReleased'
  <2>1. UNCHANGED <<opState, released, observed, dependencies>>
    BY <1>ObserveDependency DEF ObserveDependency, submitVars, opVars
  <2>2. \A p \in Op : frame'[p].at = "publish" => frame[p].at = "publish"
    <3>1. ASSUME NEW e, frame' = [frame EXCEPT ![o].callee = e, ![o].todo = @ \ {e}]
          PROVE  \A p \in Op : frame'[p].at = "publish" => frame[p].at = "publish"
      BY <1>r, <3>1 DEF Frame
    <3>2. CASE frame' = [frame EXCEPT ![o].callee = NoOp]
      BY <1>r, <3>2 DEF Frame
    <3>3. CASE frame' = [frame EXCEPT ![o].callee = NoOp, ![o].todo = {},
                                      ![o].failure = "err", ![o].at = "wait"]
      BY <1>r, <3>3 DEF Frame
    <3>4. CASE frame' = [frame EXCEPT ![o].at = "wait"]
      BY <1>r, <3>4 DEF Frame
    <3> QED BY <1>ObserveDependency, <3>1, <3>2, <3>3, <3>4 DEF ObserveDependency
  <2> QED BY <1>o, <2>1, <2>2 DEF ObservedAreReleased
<1>ObserveRelease. ASSUME NEW o \in Op, ObserveRelease(o) PROVE ObservedAreReleased'
  <2>1. Published(o)
    BY <1>ObserveRelease DEF ObserveRelease, ExclusionInv, NamedArePublished
  <2>2. /\ frame' = [frame EXCEPT ![o].at = "publish"]
        /\ UNCHANGED <<opState, observed, dependencies>>
        /\ released' = [released EXCEPT ![o] = TRUE]
    BY <1>ObserveRelease, <1>r DEF ObserveRelease, ReleaseReservations
  <2> QED BY <1>o, <1>r, <2>1, <2>2 DEF ObservedAreReleased, Published, Frame
<1>StateApply. ASSUME NEW t \in Thread, StateApply(t) PROVE ObservedAreReleased'
  <2>1. UNCHANGED <<dependencies, observed, released, frame>>
    BY <1>StateApply DEF StateApply, submitVars
  <2>2. \A o \in Op : \/ opState'[o] = opState[o]
                      \/ /\ opState[o] = "Pending"
                         /\ opState'[o] \in {"Completed", "Failed"}
    <3>1. polled[t] \in {"Pending", "Completed", "Failed"}
      BY DEF ExclusionInv, TypeOK
    <3> QED BY <1>StateApply, <1>r, <3>1 DEF StateApply, StillPending
  <2> QED BY <1>o, <2>1, <2>2 DEF ObservedAreReleased
<1> USE DEF ExclusionInv, TypeOK, ObservedAreReleased, Published, SubmissionsApart,
   NamedArePublished, Submitting
<1>Submit. ASSUME NEW t \in Thread, Submit(t) PROVE ObservedAreReleased'
  BY <1>Submit DEF Submit, Goto, Op, submitVars, opVars, threadVars
<1>SubmitInvalidDependency. ASSUME NEW t \in Thread, SubmitInvalidDependency(t)
                            PROVE ObservedAreReleased'
  BY <1>SubmitInvalidDependency DEF SubmitInvalidDependency, submitVars, opVars, threadVars
<1>SubmitDependencyFailed. ASSUME NEW t \in Thread, SubmitDependencyFailed(t)
                           PROVE ObservedAreReleased'
  BY <1>SubmitDependencyFailed DEF SubmitDependencyFailed, Reject, Return, submitVars,
     opVars, threadVars
<1>AcquireRejected. ASSUME NEW t \in Thread, AcquireRejected(t) PROVE ObservedAreReleased'
  BY <1>AcquireRejected DEF AcquireRejected, Reject, Return, submitVars, opVars, threadVars
<1>AcquireOutOfMemory. ASSUME NEW t \in Thread, AcquireOutOfMemory(t)
                       PROVE ObservedAreReleased'
  BY <1>AcquireOutOfMemory DEF AcquireOutOfMemory, Reject, Return, Acquirable, submitVars,
     opVars, threadVars
<1>SubmitPublish. ASSUME NEW t \in Thread, SubmitPublish(t) PROVE ObservedAreReleased'
  BY <1>SubmitPublish DEF SubmitPublish, Return, submitVars, opVars, threadVars
<1>ObserveEnter. ASSUME NEW o \in Op, ObserveEnter(o) PROVE ObservedAreReleased'
  BY <1>ObserveEnter DEF ObserveEnter, submitVars, opVars, threadVars
<1>ObserveWait. ASSUME NEW o \in Op, ObserveWait(o) PROVE ObservedAreReleased'
  BY <1>ObserveWait DEF ObserveWait, submitVars, opVars, threadVars
<1>ObservePublish. ASSUME NEW o \in Op, ObservePublish(o) PROVE ObservedAreReleased'
  BY <1>ObservePublish DEF ObservePublish, NoFrame, Unlatched, submitVars, opVars,
     threadVars
<1>quiet. ASSUME UNCHANGED <<opState, released, frame, observed, dependencies>>
          PROVE ObservedAreReleased'
  BY <1>quiet
<1>qt0. ASSUME NEW t \in Thread, Observe(t) \/ Drop(t) \/ TakeUnobserved(t) \/ StateCheck(t)
        \/ HostRead(t)
      PROVE  UNCHANGED <<opState, released, frame, observed, dependencies>>
  BY <1>qt0 DEF Observe, Drop, TakeUnobserved, StateCheck, HostRead, submitVars, opVars,
     threadVars
<1>qt1. ASSUME NEW t \in Thread, HostMutate(t) \/ SubmitObserveDependency(t)
        \/ SubmitDependencySucceeded(t) \/ Acquire(t) \/ SubmitBackend(t)
      PROVE  UNCHANGED <<opState, released, frame, observed, dependencies>>
  BY <1>qt1 DEF HostMutate, SubmitObserveDependency, SubmitDependencySucceeded, Acquire,
     Acquirable, SubmitBackend, submitVars, opVars, threadVars
<1>qt2. ASSUME NEW t \in Thread, AbortBackend(t) \/ ObserveDone(t) \/ DropDone(t)
        \/ StatePoll(t) \/ HostAccessDone(t)
      PROVE  UNCHANGED <<opState, released, frame, observed, dependencies>>
  BY <1>qt2 DEF AbortBackend, ObserveDone, DropDone, StatePoll, HostAccessDone, submitVars,
     opVars, threadVars
<1>qo0. ASSUME NEW o \in Op, BackendFinish(o)
      PROVE  UNCHANGED <<opState, released, frame, observed, dependencies>>
  BY <1>qo0 DEF BackendFinish, submitVars, opVars, threadVars
<1> QED BY <1>Submit, <1>SubmitInvalidDependency, <1>SubmitDependencyFailed,
   <1>AcquireRejected, <1>AcquireOutOfMemory, <1>SubmitUnwind, <1>SubmitPublish,
   <1>StateApply, <1>ObserveEnter, <1>ObserveDependency, <1>ObserveWait, <1>ObserveRelease,
   <1>ObservePublish, <1>quiet, <1>qt0, <1>qt1, <1>qt2, <1>qo0 DEF Next, Call, Running,
   SubmitStep, Activation

\* The closure of published dependencies holds only them and observed operations:
\* those are closed under `dependencies`, since observed operations have none left.
LEMMA ReachableObserved ==
    ASSUME ExclusionInv, NEW ds \in SUBSET {d \in Op : Published(d)}, NEW lost
    PROVE  \A x \in Reachable(ds, lost) : x \in ds \/ observed[x]
<1> DEFINE S == ds \cup {x \in Op : observed[x]}
<1>1. S \in SUBSET Op /\ ds \subseteq S
  OBVIOUS
<1>2. \A y \in S \ lost : dependencies[y] \subseteq S
  <2>1. \A y \in ds : dependencies[y] \subseteq {x \in Op : observed[x]}
    BY DEF ExclusionInv, ClosureIsObserved, TypeOK
  <2>2. \A y \in Op : observed[y] => dependencies[y] = {}
    BY DEF ExclusionInv, ObservedAreReleased
  <2> QED BY <2>1, <2>2
<1>3. Reachable(ds, lost) \subseteq S
  BY <1>1, <1>2 DEF Reachable
<1> QED BY <1>3

\* No step starts backend work, or reaches acquisition, while an operation that the
\* closure exempts is unobserved.
LEMMA ClosureIsObservedStep ==
    ASSUME ExclusionInv, Next
    PROVE  ClosureIsObserved'
<1>b. \A d \in Op : observed[d] => observed'[d]
  BY ObservedStays
<1>c. ClosureIsObserved
  BY DEF ExclusionInv
<1>t. /\ opState \in [Op -> {"Unborn", "Submitted", "Rejected", "Pending", "Completed",
                             "Failed", "Observed"}]
      /\ dependencies \in [Op -> SUBSET Op] /\ closure \in [Op -> SUBSET Op]
      /\ pc \in [Thread -> {"idle", "deps", "acquire", "start", "abort", "unwind",
         "publish",
                            "observe", "drain", "poll", "apply", "reading", "mutating"}]
      /\ arg \in [Thread -> Op \cup {NoOp} \cup Resource]
      /\ callee \in [Thread -> Op \cup {NoOp}] /\ todo \in [Thread -> SUBSET Op]
  BY DEF ExclusionInv, TypeOK
<1>Submit. ASSUME NEW t \in Thread, Submit(t) PROVE ClosureIsObserved'
  <2> PICK acc \in AccessInputs, ds \in SUBSET {d \in Op : Published(d)},
           lost \in SUBSET {d \in Op : frame[d].at = "publish"} :
        /\ dependencies' = [dependencies EXCEPT ![nextOp] = ds]
        /\ closure' = [closure EXCEPT ![nextOp] = Reachable(ds, lost)]
        /\ todo' = [todo EXCEPT ![t] = ds]
    BY <1>Submit DEF Submit
  <2>1. /\ nextOp \in Op /\ pc[t] = "idle" /\ pc' = [pc EXCEPT ![t] = "deps"]
        /\ arg' = [arg EXCEPT ![t] = nextOp]
        /\ opState' = [opState EXCEPT ![nextOp] = "Submitted"]
        /\ UNCHANGED <<observed, callee>>
    BY <1>Submit DEF Submit, Goto
  <2>2. \A u \in Thread : Submitting(u) => arg[u] \in Op /\ arg[u] # nextOp
    BY <2>1 DEF ExclusionInv, SubmissionsApart, Submitting, TypeOK, Op
  <2>3. \A x \in Reachable(ds, lost) : x \in ds \/ observed[x]
    BY ReachableObserved
  <2> QED BY <1>c, <1>t, <2>1, <2>2, <2>3 DEF ClosureIsObserved, Submitting, Published
<1>Drop. ASSUME NEW t \in Thread, Drop(t) PROVE ClosureIsObserved'
  <2>1. UNCHANGED <<opState, observed, dependencies, closure, todo>>
    BY <1>Drop DEF Drop, submitVars, opVars
  <2>2. CASE UNCHANGED <<pc, arg, callee>>
    BY <1>c, <2>1, <2>2 DEF ClosureIsObserved, Submitting, Published
  <2>3. CASE \E o \in Op : /\ pc' = [pc EXCEPT ![t] = "drain"]
                           /\ arg' = [arg EXCEPT ![t] = o]
                           /\ callee' = [callee EXCEPT ![t] = o]
    BY <1>c, <1>t, <2>1, <2>3 DEF ClosureIsObserved, Submitting, Published
  <2> QED BY <1>Drop, <2>2, <2>3 DEF Drop, Goto
<1>SubmitObserveDependency. ASSUME NEW t \in Thread, SubmitObserveDependency(t)
                            PROVE  ClosureIsObserved'
  <2>1. /\ UNCHANGED <<opState, observed, dependencies, closure, arg>>
        /\ pc[t] = "deps" /\ callee[t] = NoOp
    BY <1>SubmitObserveDependency DEF SubmitObserveDependency, submitVars, opVars
  <2>2. ASSUME NEW d \in todo[t], callee' = [callee EXCEPT ![t] = d],
               todo' = [todo EXCEPT ![t] = @ \ {d}], UNCHANGED pc
        PROVE  ClosureIsObserved'
    <3>1. \A e \in dependencies[arg[t]] : e \in todo'[t] \/ e = callee'[t] \/ observed[e]
      <4>1. dependencies[arg[t]] \subseteq Op
        BY <1>t, <2>1 DEF ExclusionInv, TypeOK
      <4>2. \A e \in dependencies[arg[t]] : e \in todo[t] \/ observed[e]
        BY <1>c, <2>1, <4>1 DEF ClosureIsObserved, Op, NoOp
      <4> QED BY <1>t, <2>2, <4>2
    <3>2. \A u \in Thread \ {t} : todo'[u] = todo[u] /\ callee'[u] = callee[u]
      BY <1>t, <2>2
    <3> QED BY <1>c, <2>1, <2>2, <3>1, <3>2 DEF ClosureIsObserved, Submitting, Published
  <2>3. ASSUME todo[t] = {}, pc' = [pc EXCEPT ![t] = "acquire"], UNCHANGED <<callee, todo>>
        PROVE  ClosureIsObserved'
    <3>1. dependencies[arg[t]] \subseteq Op
      BY <1>t, <2>1 DEF ExclusionInv, TypeOK
    <3> QED BY <1>c, <1>t, <2>1, <2>3, <3>1 DEF ClosureIsObserved, Submitting, Published,
       Op, NoOp
  <2> QED BY <1>SubmitObserveDependency, <2>2, <2>3 DEF SubmitObserveDependency, Goto
<1>StateApply. ASSUME NEW t \in Thread, StateApply(t) PROVE ClosureIsObserved'
  <2>1. /\ UNCHANGED <<observed, dependencies, closure>>
        /\ pc' = [pc EXCEPT ![t] = "idle"] /\ arg' = [arg EXCEPT ![t] = NoOp]
        /\ callee' = [callee EXCEPT ![t] = NoOp] /\ todo' = [todo EXCEPT ![t] = {}]
    BY <1>StateApply DEF StateApply, Return, submitVars
  <2>2. \A o \in Op : \/ opState'[o] = opState[o]
                      \/ /\ opState[o] = "Pending"
                         /\ opState'[o] \in {"Completed", "Failed"}
    <3>1. polled[t] \in {"Pending", "Completed", "Failed"}
      BY DEF ExclusionInv, TypeOK
    <3> QED BY <1>StateApply, <1>t, <3>1 DEF StateApply, StillPending
  <2> QED BY <1>c, <1>t, <2>1, <2>2 DEF ClosureIsObserved, Submitting, Published
<1> USE DEF ExclusionInv, TypeOK, ClosureIsObserved, Published, SubmissionsApart, Submitting
<1>SubmitInvalidDependency. ASSUME NEW t \in Thread, SubmitInvalidDependency(t)
                            PROVE ClosureIsObserved'
  BY <1>SubmitInvalidDependency, <1>b DEF SubmitInvalidDependency, submitVars, opVars,
     threadVars
<1>Observe. ASSUME NEW t \in Thread, Observe(t) PROVE ClosureIsObserved'
  BY <1>Observe, <1>b DEF Observe, Goto, submitVars, opVars, threadVars
<1>StateCheck. ASSUME NEW t \in Thread, StateCheck(t) PROVE ClosureIsObserved'
  BY <1>StateCheck, <1>b DEF StateCheck, Goto, submitVars, opVars, threadVars
<1>HostRead. ASSUME NEW t \in Thread, HostRead(t) PROVE ClosureIsObserved'
  BY <1>HostRead, <1>b DEF HostRead, Goto, submitVars, opVars, threadVars
<1>HostMutate. ASSUME NEW t \in Thread, HostMutate(t) PROVE ClosureIsObserved'
  BY <1>HostMutate, <1>b DEF HostMutate, Goto, submitVars, opVars, threadVars
<1>SubmitDependencySucceeded. ASSUME NEW t \in Thread, SubmitDependencySucceeded(t)
                              PROVE ClosureIsObserved'
  BY <1>SubmitDependencySucceeded, <1>b DEF SubmitDependencySucceeded, ObserveReturns,
     submitVars, opVars, threadVars
<1>SubmitDependencyFailed. ASSUME NEW t \in Thread, SubmitDependencyFailed(t)
                           PROVE ClosureIsObserved'
  BY <1>SubmitDependencyFailed, <1>b DEF SubmitDependencyFailed, Reject, Return, submitVars,
     opVars, threadVars
<1>AcquireRejected. ASSUME NEW t \in Thread, AcquireRejected(t) PROVE ClosureIsObserved'
  BY <1>AcquireRejected, <1>b DEF AcquireRejected, Reject, Return, submitVars, opVars,
     threadVars
<1>Acquire. ASSUME NEW t \in Thread, Acquire(t) PROVE ClosureIsObserved'
  BY <1>Acquire, <1>b DEF Acquire, Goto, Acquirable, submitVars, opVars, threadVars
<1>AcquireOutOfMemory. ASSUME NEW t \in Thread, AcquireOutOfMemory(t)
                       PROVE ClosureIsObserved'
  BY <1>AcquireOutOfMemory, <1>b DEF AcquireOutOfMemory, Reject, Return, Acquirable,
     submitVars, opVars, threadVars
<1>SubmitBackend. ASSUME NEW t \in Thread, SubmitBackend(t) PROVE ClosureIsObserved'
  BY <1>SubmitBackend, <1>b DEF SubmitBackend, Goto, submitVars, opVars, threadVars
<1>AbortBackend. ASSUME NEW t \in Thread, AbortBackend(t) PROVE ClosureIsObserved'
  BY <1>AbortBackend, <1>b DEF AbortBackend, Goto, submitVars, opVars, threadVars
<1>SubmitUnwind. ASSUME NEW t \in Thread, SubmitUnwind(t) PROVE ClosureIsObserved'
  BY <1>SubmitUnwind, <1>b DEF SubmitUnwind, Reject, Return, submitVars, opVars, threadVars
<1>SubmitPublish. ASSUME NEW t \in Thread, SubmitPublish(t) PROVE ClosureIsObserved'
  BY <1>SubmitPublish, <1>b DEF SubmitPublish, Return, submitVars, opVars, threadVars
<1>ObserveDone. ASSUME NEW t \in Thread, ObserveDone(t) PROVE ClosureIsObserved'
  BY <1>ObserveDone, <1>b DEF ObserveDone, Return, submitVars, opVars, threadVars
<1>DropDone. ASSUME NEW t \in Thread, DropDone(t) PROVE ClosureIsObserved'
  BY <1>DropDone, <1>b DEF DropDone, Return, submitVars, opVars, threadVars
<1>StatePoll. ASSUME NEW t \in Thread, StatePoll(t) PROVE ClosureIsObserved'
  BY <1>StatePoll, <1>b DEF StatePoll, Goto, submitVars, opVars, threadVars
<1>HostAccessDone. ASSUME NEW t \in Thread, HostAccessDone(t) PROVE ClosureIsObserved'
  BY <1>HostAccessDone, <1>b DEF HostAccessDone, Return, submitVars, opVars, threadVars
<1>ObservePublish. ASSUME NEW o \in Op, ObservePublish(o) PROVE ClosureIsObserved'
  BY <1>ObservePublish, <1>b DEF ObservePublish, NoFrame, Unlatched, submitVars, opVars,
     threadVars
<1>quiet. ASSUME UNCHANGED <<opState, observed, dependencies, closure, pc, arg, todo,
          callee>> PROVE ClosureIsObserved'
  BY <1>quiet
<1>qt0. ASSUME NEW t \in Thread, TakeUnobserved(t)
      PROVE  UNCHANGED <<opState, observed, dependencies, closure, pc, arg, todo, callee>>
  BY <1>qt0 DEF TakeUnobserved, submitVars, opVars, threadVars
<1>qo0. ASSUME NEW o \in Op, ObserveEnter(o) \/ ObserveDependency(o) \/ ObserveWait(o)
        \/ ObserveRelease(o) \/ BackendFinish(o)
      PROVE  UNCHANGED <<opState, observed, dependencies, closure, pc, arg, todo, callee>>
  BY <1>qo0 DEF ObserveEnter, ObserveDependency, ObserveWait, ObserveRelease, BackendFinish,
     submitVars, opVars, threadVars
<1> QED BY <1>Submit, <1>SubmitInvalidDependency, <1>Observe, <1>Drop, <1>StateCheck,
   <1>HostRead, <1>HostMutate, <1>SubmitObserveDependency, <1>SubmitDependencySucceeded,
   <1>SubmitDependencyFailed, <1>AcquireRejected, <1>Acquire, <1>AcquireOutOfMemory,
   <1>SubmitBackend, <1>AbortBackend, <1>SubmitUnwind, <1>SubmitPublish, <1>ObserveDone,
   <1>DropDone, <1>StatePoll, <1>StateApply, <1>HostAccessDone, <1>ObservePublish, <1>quiet,
   <1>qt0, <1>qo0 DEF Next, Call, Running, SubmitStep, Activation

\* What a submission enters belongs to it, and conflicts with nothing: every operation
\* its closure exempts has been observed, hence released.
LEMMA AcquiredEntries ==
    ASSUME ExclusionInv, NEW t \in Thread, Acquirable(t),
           NEW part, part \subseteq Normalized(accesses[arg[t]])
    PROVE  /\ ~released[arg[t]]
           /\ \A r \in Resource : \A e \in Reserved(arg[t], part)[r] :
                \/ e \in reservations[r]
                \/ /\ e[1] = arg[t]
                   /\ \A f \in reservations[r] :
                        f[1] = arg[t] \/ (e[2] # "Write" /\ f[2] # "Write")
<1>1. arg[t] \in Op /\ opState[arg[t]] = "Submitted"
  BY DEF Acquirable, ExclusionInv, TypeOK, SubmissionsApart, Submitting
<1>2. ~released[arg[t]]
  BY <1>1 DEF ExclusionInv, ObservedAreReleased
<1>3. \A p \in closure[arg[t]] : p \in Op /\ released[p]
  <2>1. closure[arg[t]] \subseteq Op
    BY <1>1 DEF ExclusionInv, TypeOK
  <2>2. \A d \in dependencies[arg[t]] : observed[d]
    BY DEF Acquirable, ExclusionInv, ClosureIsObserved, Submitting
  <2>3. \A d \in closure[arg[t]] : observed[d]
    BY <1>1, <2>2 DEF ExclusionInv, ClosureIsObserved
  <2> QED BY <2>1, <2>3 DEF ExclusionInv, ObservedAreReleased
<1>4. \A r \in Resource : \A f \in reservations[r] : f[1] \notin closure[arg[t]]
  BY <1>3 DEF ExclusionInv, ReleasedHoldsNothing
<1>5. ASSUME NEW r \in Resource, NEW e \in Reserved(arg[t], part)[r],
      e \notin reservations[r]
      PROVE  /\ e[1] = arg[t]
             /\ \A f \in reservations[r] :
                    f[1] = arg[t] \/ (e[2] # "Write" /\ f[2] # "Write")
  <2>1. PICK a \in part : a[1] = r /\ e = <<arg[t], a[2]>>
    BY <1>5 DEF Reserved
  <2>2. a \in Normalized(accesses[arg[t]])
    BY <2>1
  <2>3. \A f \in reservations[r] : ~Conflicts(a[2], f[2])
    BY <1>4, <2>1, <2>2 DEF Acquirable, Conflicting, Exempt
  <2> QED BY <2>1, <2>3 DEF Conflicts
<1> QED BY <1>2, <1>5

\* The entries that a release leaves are old, and none is of the released operation.
LEMMA ReleasedEntries ==
    ASSUME NEW o \in Op, ExclusionInv, ReleaseReservations(o)
    PROVE  /\ \A r \in Resource : /\ reservations'[r] \subseteq reservations[r]
                                  /\ \A e \in reservations'[r] : e[1] # o
           /\ \A p \in Op : released'[p] => released[p] \/ p = o
<1>1. CASE released[o]
  BY <1>1 DEF ReleaseReservations, ExclusionInv, ReleasedHoldsNothing
<1>2. CASE ~released[o]
  BY <1>2 DEF ReleaseReservations, WithoutOp, ExclusionInv, TypeOK
<1> QED BY <1>1, <1>2

\* No step gives a released operation a reservation back.
LEMMA ReleasedHoldsNothingStep ==
    ASSUME ExclusionInv, Next
    PROVE  ReleasedHoldsNothing'
<1>Acquired. ASSUME NEW t \in Thread, Acquirable(t), UNCHANGED released,
                    NEW part, part \subseteq Normalized(accesses[arg[t]]),
                    reservations' = Reserved(arg[t], part)
             PROVE  ReleasedHoldsNothing'
  <2>1. /\ ~released[arg[t]]
        /\ \A r \in Resource : \A e \in reservations'[r] :
                e \in reservations[r] \/ e[1] = arg[t]
    BY <1>Acquired, AcquiredEntries
  <2>2. \A o \in Op : released[o] => \A r \in Resource : \A e \in reservations[r] : e[1] # o
    BY DEF ExclusionInv, ReleasedHoldsNothing
  <2>3. ASSUME NEW o \in Op, released'[o], NEW r \in Resource, NEW e \in reservations'[r]
        PROVE  e[1] # o
    BY <1>Acquired, <2>1, <2>2, <2>3
  <2> QED BY <2>3 DEF ReleasedHoldsNothing
<1>Acquire. ASSUME NEW t \in Thread, Acquire(t) PROVE ReleasedHoldsNothing'
  BY <1>Acquired, <1>Acquire DEF Acquire, opVars
<1>AcquireOutOfMemory. ASSUME NEW t \in Thread, AcquireOutOfMemory(t)
                       PROVE ReleasedHoldsNothing'
  BY <1>Acquired, <1>AcquireOutOfMemory DEF AcquireOutOfMemory
<1>Released. ASSUME NEW o \in Op, ReleaseReservations(o) PROVE ReleasedHoldsNothing'
  BY <1>Released, ReleasedEntries DEF ExclusionInv, ReleasedHoldsNothing
<1>SubmitUnwind. ASSUME NEW t \in Thread, SubmitUnwind(t) PROVE ReleasedHoldsNothing'
  <2>1. arg[t] \in Op
    BY <1>SubmitUnwind DEF SubmitUnwind, ExclusionInv, TypeOK
  <2> QED BY <1>Released, <1>SubmitUnwind, <2>1 DEF SubmitUnwind
<1>ObserveRelease. ASSUME NEW o \in Op, ObserveRelease(o) PROVE ReleasedHoldsNothing'
  BY <1>Released, <1>ObserveRelease DEF ObserveRelease
<1>quiet. ASSUME UNCHANGED <<released, reservations>> PROVE ReleasedHoldsNothing'
  BY <1>quiet DEF ExclusionInv, ReleasedHoldsNothing
<1>qt0. ASSUME NEW t \in Thread, Submit(t) \/ SubmitInvalidDependency(t) \/ Observe(t)
        \/ Drop(t) \/ TakeUnobserved(t)
      PROVE  UNCHANGED <<released, reservations>>
  BY <1>qt0 DEF Submit, SubmitInvalidDependency, Observe, Drop, TakeUnobserved, submitVars,
     opVars, threadVars
<1>qt1. ASSUME NEW t \in Thread, StateCheck(t) \/ HostRead(t) \/ HostMutate(t)
        \/ SubmitObserveDependency(t) \/ SubmitDependencySucceeded(t)
      PROVE  UNCHANGED <<released, reservations>>
  BY <1>qt1 DEF StateCheck, HostRead, HostMutate, SubmitObserveDependency,
     SubmitDependencySucceeded, submitVars, opVars, threadVars
<1>qt2. ASSUME NEW t \in Thread, SubmitDependencyFailed(t) \/ AcquireRejected(t)
        \/ SubmitBackend(t) \/ AbortBackend(t) \/ SubmitPublish(t)
      PROVE  UNCHANGED <<released, reservations>>
  BY <1>qt2 DEF SubmitDependencyFailed, AcquireRejected, SubmitBackend, AbortBackend,
     SubmitPublish, submitVars, opVars, threadVars
<1>qt3. ASSUME NEW t \in Thread, ObserveDone(t) \/ DropDone(t) \/ StatePoll(t)
        \/ StateApply(t) \/ HostAccessDone(t)
      PROVE  UNCHANGED <<released, reservations>>
  BY <1>qt3 DEF ObserveDone, DropDone, StatePoll, StateApply, HostAccessDone, submitVars,
     opVars, threadVars
<1>qo0. ASSUME NEW o \in Op, ObserveEnter(o) \/ ObserveDependency(o) \/ ObserveWait(o)
        \/ ObservePublish(o) \/ BackendFinish(o)
      PROVE  UNCHANGED <<released, reservations>>
  BY <1>qo0 DEF ObserveEnter, ObserveDependency, ObserveWait, ObservePublish, BackendFinish,
     submitVars, opVars, threadVars
<1> QED BY <1>Acquire, <1>AcquireOutOfMemory, <1>SubmitUnwind, <1>ObserveRelease, <1>quiet,
   <1>qt0, <1>qt1, <1>qt2, <1>qt3, <1>qo0 DEF Next, Call, Running, SubmitStep, Activation

\* No step lets conflicting operations reserve one resource together.
LEMMA ReservationExclusionStep ==
    ASSUME ExclusionInv, Next
    PROVE  ReservationExclusion'
<1>Acquired. ASSUME NEW t \in Thread, Acquirable(t), UNCHANGED released,
                    NEW part, part \subseteq Normalized(accesses[arg[t]]),
                    reservations' = Reserved(arg[t], part)
             PROVE  ReservationExclusion'
  <2>1. \A r \in Resource : \A e \in reservations[r] : e[2] \in Kind
    BY DEF ExclusionInv, TypeOK
  <2>2. \A r \in Resource : reservations'[r] \subseteq Op \X Kind
    <3>1. arg[t] \in Op /\ part \subseteq (Resource \cup {InvalidResource}) \X Kind
      BY <1>Acquired DEF Acquirable, Normalized, ExclusionInv, TypeOK
    <3> QED BY <1>Acquired, <3>1, ReservedTyped DEF ExclusionInv
  <2> QED BY <1>Acquired, <2>1, <2>2, AcquiredEntries DEF ExclusionInv,
     ReservationExclusion, Kind
<1>Acquire. ASSUME NEW t \in Thread, Acquire(t) PROVE ReservationExclusion'
  BY <1>Acquired, <1>Acquire DEF Acquire, opVars
<1>AcquireOutOfMemory. ASSUME NEW t \in Thread, AcquireOutOfMemory(t)
                       PROVE ReservationExclusion'
  BY <1>Acquired, <1>AcquireOutOfMemory DEF AcquireOutOfMemory
<1>Released. ASSUME NEW o \in Op, ReleaseReservations(o) PROVE ReservationExclusion'
  BY <1>Released, ReleasedEntries DEF ExclusionInv, ReservationExclusion
<1>SubmitUnwind. ASSUME NEW t \in Thread, SubmitUnwind(t) PROVE ReservationExclusion'
  <2>1. arg[t] \in Op
    BY <1>SubmitUnwind DEF SubmitUnwind, ExclusionInv, TypeOK
  <2> QED BY <1>Released, <1>SubmitUnwind, <2>1 DEF SubmitUnwind
<1>ObserveRelease. ASSUME NEW o \in Op, ObserveRelease(o) PROVE ReservationExclusion'
  BY <1>Released, <1>ObserveRelease DEF ObserveRelease
<1>quiet. ASSUME UNCHANGED <<released, reservations>> PROVE ReservationExclusion'
  BY <1>quiet DEF ExclusionInv, ReservationExclusion
<1>qt0. ASSUME NEW t \in Thread, Submit(t) \/ SubmitInvalidDependency(t) \/ Observe(t)
        \/ Drop(t) \/ TakeUnobserved(t)
      PROVE  UNCHANGED <<released, reservations>>
  BY <1>qt0 DEF Submit, SubmitInvalidDependency, Observe, Drop, TakeUnobserved, submitVars,
     opVars, threadVars
<1>qt1. ASSUME NEW t \in Thread, StateCheck(t) \/ HostRead(t) \/ HostMutate(t)
        \/ SubmitObserveDependency(t) \/ SubmitDependencySucceeded(t)
      PROVE  UNCHANGED <<released, reservations>>
  BY <1>qt1 DEF StateCheck, HostRead, HostMutate, SubmitObserveDependency,
     SubmitDependencySucceeded, submitVars, opVars, threadVars
<1>qt2. ASSUME NEW t \in Thread, SubmitDependencyFailed(t) \/ AcquireRejected(t)
        \/ SubmitBackend(t) \/ AbortBackend(t) \/ SubmitPublish(t)
      PROVE  UNCHANGED <<released, reservations>>
  BY <1>qt2 DEF SubmitDependencyFailed, AcquireRejected, SubmitBackend, AbortBackend,
     SubmitPublish, submitVars, opVars, threadVars
<1>qt3. ASSUME NEW t \in Thread, ObserveDone(t) \/ DropDone(t) \/ StatePoll(t)
        \/ StateApply(t) \/ HostAccessDone(t)
      PROVE  UNCHANGED <<released, reservations>>
  BY <1>qt3 DEF ObserveDone, DropDone, StatePoll, StateApply, HostAccessDone, submitVars,
     opVars, threadVars
<1>qo0. ASSUME NEW o \in Op, ObserveEnter(o) \/ ObserveDependency(o) \/ ObserveWait(o)
        \/ ObservePublish(o) \/ BackendFinish(o)
      PROVE  UNCHANGED <<released, reservations>>
  BY <1>qo0 DEF ObserveEnter, ObserveDependency, ObserveWait, ObservePublish, BackendFinish,
     submitVars, opVars, threadVars
<1> QED BY <1>Acquire, <1>AcquireOutOfMemory, <1>SubmitUnwind, <1>ObserveRelease, <1>quiet,
   <1>qt0, <1>qt1, <1>qt2, <1>qt3, <1>qo0 DEF Next, Call, Running, SubmitStep, Activation

\* The inductive invariant holds initially.
LEMMA ExclusionInit == Init => ExclusionInv
  BY InitTypeOK DEF Init, ExclusionInv, SubmissionsApart, Submitting, NamedArePublished,
     Published, ObservedAreReleased, ClosureIsObserved, ReleasedHoldsNothing,
     ReservationExclusion, NoFrame

\* Every step keeps the inductive invariant: the lemmas above, put together.
LEMMA ExclusionStep == ExclusionInv /\ [Next]_vars => ExclusionInv'
<1> SUFFICES ASSUME ExclusionInv, [Next]_vars PROVE ExclusionInv'
  OBVIOUS
<1>1. CASE Next
  BY <1>1, TypingStep, SubmissionsApartStep, NamedArePublishedStep,
     ObservedAreReleasedStep, ClosureIsObservedStep, ReleasedHoldsNothingStep,
     ReservationExclusionStep
  DEF ExclusionInv
<1>2. CASE UNCHANGED vars
  BY <1>2, StutterTypeOK DEF ExclusionInv, vars, SubmissionsApart, Submitting,
     NamedArePublished, Published, ObservedAreReleased, ClosureIsObserved,
     ReleasedHoldsNothing, ReservationExclusion
<1> QED BY <1>1, <1>2

\* Conflicting operations never reserve a resource together.
THEOREM Exclusion == Spec => []ReservationExclusion
<1>1. ExclusionInv => ReservationExclusion
  BY DEF ExclusionInv
<1> QED BY <1>1, ExclusionInit, ExclusionStep, PTL DEF Spec
=============================================================================
