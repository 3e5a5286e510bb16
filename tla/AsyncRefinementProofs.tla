----------------------- MODULE AsyncRefinementProofs -----------------------
(***************************************************************************)
(* The runtime implements the reservation contract of AsyncContract,       *)
(* provided that entering a reservation does not run out of memory: every  *)
(* step of the runtime is one step of the contract for one operation, or   *)
(* none.                                                                   *)
(***************************************************************************)
EXTENDS AsyncLifecycleProofs

\* What the caller asked for is what acquisition will normalize.
RequestsKept ==
    \A t \in Thread : pc[t] \in {"deps", "acquire"} => accesses[arg[t]] \in AccessInputs

RefinementInv == LifecycleInv /\ NothingLeaks /\ RequestsKept

\* No step before acquisition changes a request.
LEMMA RequestsKeptStep ==
    ASSUME ExclusionInv, RequestsKept, Next
    PROVE  RequestsKept'
<1>s. /\ accesses = [o \in Op |-> accesses[o]] /\ nextOp \in 1..(MaxOp + 1)
      /\ \A t \in Thread : Submitting(t) => arg[t] \in Op /\ opState[arg[t]] = "Submitted"
      /\ \A t, u \in Thread : Submitting(t) /\ Submitting(u) /\ arg[t] = arg[u] => t = u
      /\ \A o \in Op : frame[o].at # "none" => Published(o)
  BY DEF ExclusionInv, TypeOK, SubmissionsApart, Submitting, NamedArePublished
<1> SUFFICES ASSUME NEW t \in Thread, pc'[t] \in {"deps", "acquire"}
             PROVE  accesses'[arg'[t]] \in AccessInputs
  BY DEF RequestsKept
<1>1. CASE Submit(t)
  BY <1>s, <1>1 DEF Submit, ExclusionInv, TypeOK
<1>2. CASE (pc'[t] = pc[t] /\ arg'[t] = arg[t]) \/ SubmitObserveDependency(t)
  <2>1. pc[t] \in {"deps", "acquire"} /\ arg'[t] = arg[t]
    BY <1>2 DEF SubmitObserveDependency
  <2>2. accesses[arg[t]] \in AccessInputs /\ arg[t] \in Op
    BY <1>s, <2>1 DEF RequestsKept, Submitting
  <2>3. ASSUME NEW u \in Thread, Submit(u) PROVE accesses'[arg[t]] = accesses[arg[t]]
    <3>1. nextOp # arg[t]
      BY <1>s, <2>1 DEF Submitting, ExclusionInv, SubmissionsApart, Op
    <3> QED BY <1>s, <2>2, <2>3, <3>1 DEF Submit
  <2>4. ASSUME NEW u \in Thread, Acquire(u) PROVE accesses'[arg[t]] = accesses[arg[t]]
    <3>1. pc'[u] = "start" /\ pc[u] = "acquire"
      BY <2>4 DEF Acquire, Acquirable, Goto, ExclusionInv, TypeOK
    <3>2. arg[u] # arg[t]
      BY <1>s, <2>1, <3>1 DEF Submitting
    <3> QED BY <1>s, <2>2, <2>4, <3>2 DEF Acquire
  <2>5. ASSUME NEW p \in Op, p # arg[t], ReleaseReservations(p)
        PROVE  accesses'[arg[t]] = accesses[arg[t]]
    BY <1>s, <2>2, <2>5 DEF ReleaseReservations
  <2>6. ASSUME NEW u \in Thread, SubmitUnwind(u) PROVE accesses'[arg[t]] = accesses[arg[t]]
    <3>1. arg[u] \in Op /\ ReleaseReservations(arg[u]) /\ pc[u] = "unwind"
      BY <1>s, <2>6 DEF SubmitUnwind, Submitting
    <3>2. arg[u] # arg[t]
      BY <1>s, <2>1, <3>1 DEF Submitting
    <3> QED BY <2>5, <3>1, <3>2
  <2>7. ASSUME NEW p \in Op, ObserveRelease(p) PROVE accesses'[arg[t]] = accesses[arg[t]]
    BY <1>s, <2>1, <2>5, <2>7 DEF ObserveRelease, Published, Submitting
  <2> QED BY <2>1, <2>2, <2>3, <2>4, <2>6, <2>7, ReservationWriters
<1> QED BY <1>1, <1>2, SubmissionMoves DEF ExclusionInv, Submitting

\* The invariant that the refinement needs holds throughout.
LEMMA RefinementInvariant ==
    ASSUME ~AllocMayFail
    PROVE  Spec => []RefinementInv
<1>1. Init => NothingLeaks /\ RequestsKept
  BY DEF Init, NothingLeaks, HoldsNothing, RequestsKept
<1>2. LifecycleInv /\ NothingLeaks /\ RequestsKept /\ [Next]_vars
        => NothingLeaks' /\ RequestsKept'
  <2>1. LifecycleInv /\ NothingLeaks /\ RequestsKept /\ Next => NothingLeaks' /\ RequestsKept'
    BY NothingLeaksStep, RequestsKeptStep DEF LifecycleInv
  <2>2. NothingLeaks /\ RequestsKept /\ UNCHANGED vars => NothingLeaks' /\ RequestsKept'
    BY DEF NothingLeaks, HoldsNothing, RequestsKept, vars
  <2> QED BY <2>1, <2>2
<1> QED BY <1>1, <1>2, Lifecycle, PTL DEF Spec, RefinementInv

-----------------------------------------------------------------------------
(***************************************************************************)
(* The mapped state.                                                       *)
(***************************************************************************)
Phases == [o \in Op |-> PhaseOf(o)]
Held == [o \in Op |-> HeldBy(o)]

Same(o) == PhaseOf(o)' = PhaseOf(o) /\ HeldBy(o)' = HeldBy(o)

\* An operation whose release, rejection, work and reservations a step leaves alone
\* keeps its phase.
LEMMA SameUnless ==
    ASSUME NEW o \in Op, released'[o] = released[o], backend'[o] = backend[o],
           opState'[o] = "Rejected" <=> opState[o] = "Rejected",
           HeldBy(o)' = HeldBy(o)
    PROVE  Same(o)
  BY DEF PhaseOf, Same

\* An operation holds what a step does not enter or remove.
LEMMA HeldSame ==
    ASSUME NEW o \in Op,
           \A r \in Resource : \A k \in Kind :
                <<o, k>> \in reservations'[r] <=> <<o, k>> \in reservations[r]
    PROVE  HeldBy(o)' = HeldBy(o)
  BY DEF HeldBy

\* A step that moves one operation, seen in the mapped state.
LEMMA OneMoves ==
    ASSUME NEW o \in Op, \A p \in Op \ {o} : Same(p)
    PROVE  /\ Phases' = [Phases EXCEPT ![o] = PhaseOf(o)']
           /\ Held' = [Held EXCEPT ![o] = HeldBy(o)']
  BY DEF Same, Phases, Held

\* A step that moves no operation.
LEMMA NoneMoves ==
    ASSUME \A p \in Op : Same(p)
    PROVE  UNCHANGED <<Phases, Held>>
  BY DEF Same, Phases, Held

\* An operation that holds no reservation holds nothing in the mapped state.
LEMMA HoldsNothingIsEmpty ==
    ASSUME NEW o \in Op, HoldsNothing(o)
    PROVE  HeldBy(o) = {}
  BY DEF HoldsNothing, HeldBy

\* An operation with a reservation that covers one of its accesses holds something.
LEMMA CoveredIsHeld ==
    ASSUME TypeOK, NEW o \in Op, Covered(o)
    PROVE  HeldBy(o) # {}
<1>1. PICK a \in accesses[o] : a[1] \in Resource /\ <<o, a[2]>> \in reservations[a[1]]
  BY DEF Covered
<1>2. a \in Resource \X Kind
  <2>1. a \in (Resource \cup {InvalidResource}) \X Kind
    BY DEF TypeOK
  <2> QED BY <1>1, <2>1
<1> QED BY <1>1, <1>2 DEF HeldBy

-----------------------------------------------------------------------------
(***************************************************************************)
(* The steps.                                                              *)
(***************************************************************************)
\* The steps that the contract does not see.
LEMMA QuietSteps ==
    ASSUME ExclusionInv,
           \/ \E t \in Thread :
                \/ Submit(t) \/ Observe(t) \/ Drop(t) \/ TakeUnobserved(t) \/ StateCheck(t)
                \/ HostRead(t) \/ HostMutate(t) \/ SubmitObserveDependency(t)
                \/ SubmitDependencySucceeded(t) \/ AbortBackend(t) \/ SubmitPublish(t)
                \/ ObserveDone(t) \/ DropDone(t) \/ StatePoll(t) \/ StateApply(t)
                \/ HostAccessDone(t)
           \/ \E o \in Op : \/ ObserveEnter(o) \/ ObserveDependency(o) \/ ObserveWait(o)
                            \/ ObservePublish(o)
    PROVE  \A p \in Op : Same(p)
<1>s. /\ opState = [o \in Op |-> opState[o]] /\ nextOp \in 1..(MaxOp + 1)
      /\ nextOp \in Op => opState[nextOp] = "Unborn"
      /\ \A t \in Thread : Submitting(t) => opState[arg[t]] = "Submitted"
      /\ \A t \in Thread : polled[t] \in {"Pending", "Completed", "Failed"}
      /\ \A o \in Op : frame[o].at # "none" => Published(o)
  BY DEF ExclusionInv, TypeOK, SubmissionsApart, NamedArePublished, Op
<1>1. UNCHANGED <<released, reservations, backend>>
  BY DEF Submit, Observe, Drop, TakeUnobserved, StateCheck, HostRead, HostMutate,
     SubmitObserveDependency, SubmitDependencySucceeded, AbortBackend, SubmitPublish,
     ObserveDone, DropDone, StatePoll, StateApply, HostAccessDone, ObserveEnter,
     ObserveDependency, ObserveWait, ObservePublish, opVars
<1>2. ASSUME NEW p \in Op PROVE opState'[p] = "Rejected" <=> opState[p] = "Rejected"
  <2>1. ASSUME NEW t \in Thread, Submit(t)
        PROVE  opState'[p] = "Rejected" <=> opState[p] = "Rejected"
    BY <1>s, <2>1 DEF Submit
  <2>2. ASSUME NEW t \in Thread, SubmitPublish(t)
        PROVE  opState'[p] = "Rejected" <=> opState[p] = "Rejected"
    BY <1>s, <2>2 DEF SubmitPublish, Submitting
  <2>3. ASSUME NEW t \in Thread, StateApply(t)
        PROVE  opState'[p] = "Rejected" <=> opState[p] = "Rejected"
    BY <1>s, <2>3 DEF StateApply, StillPending
  <2>4. ASSUME NEW o \in Op, ObservePublish(o)
        PROVE  opState'[p] = "Rejected" <=> opState[p] = "Rejected"
    BY <1>s, <2>4 DEF ObservePublish, Published
  <2>5. \/ UNCHANGED opState \/ (\E t \in Thread : Submit(t) \/ SubmitPublish(t))
        \/ (\E t \in Thread : StateApply(t)) \/ (\E o \in Op : ObservePublish(o))
    BY DEF Observe, Drop, TakeUnobserved, StateCheck, HostRead, HostMutate,
       SubmitObserveDependency, SubmitDependencySucceeded, AbortBackend, ObserveDone,
       DropDone, StatePoll, HostAccessDone, ObserveEnter, ObserveDependency, ObserveWait,
       opVars
  <2> QED BY <2>1, <2>2, <2>3, <2>4, <2>5
<1>3. ASSUME NEW p \in Op PROVE HeldBy(p)' = HeldBy(p)
  BY <1>1 DEF HeldBy
<1> QED BY <1>1, <1>2, <1>3, SameUnless

\* A refusal: the operation had reserved nothing, and never will.
LEMMA Refusal ==
    ASSUME RefinementInv, NEW o \in Op, ~released[o], opState[o] # "Rejected",
           backend[o] = "idle", HoldsNothing(o), UNCHANGED <<released, reservations, backend>>,
           opState' = [opState EXCEPT ![o] = "Rejected"]
    PROVE  Contract!Refuse(o)
<1>s. opState = [p \in Op |-> opState[p]]
  BY DEF RefinementInv, LifecycleInv, ExclusionInv, TypeOK
<1>1. ASSUME NEW p \in Op PROVE HeldBy(p)' = HeldBy(p)
  BY DEF HeldBy
<1>2. ASSUME NEW p \in Op \ {o} PROVE Same(p)
  BY <1>s, <1>1, SameUnless
<1>3. PhaseOf(o) = "new" /\ PhaseOf(o)' = "closed"
  BY <1>s, HoldsNothingIsEmpty DEF PhaseOf
<1>4. Phases' = [Phases EXCEPT ![o] = "closed"] /\ Held' = [Held EXCEPT ![o] = HeldBy(o)]
  BY <1>1, <1>2, <1>3, OneMoves
<1>5. Held' = Held
  BY <1>4 DEF Held
<1> QED BY <1>3, <1>4, <1>5 DEF Phases, Held, Contract!Refuse, Contract!Step

\* Acquisition reserves the whole normalized request, next to nothing it conflicts with.
LEMMA Acquisition ==
    ASSUME RefinementInv, NEW t \in Thread, Acquire(t)
    PROVE  \E acc \in {Normalized(a) : a \in AccessInputs} : Contract!Reserve(arg[t], acc)
<1> DEFINE acc == Normalized(accesses[arg[t]])
<1>i. ExclusionInv /\ LifecycleInv /\ NothingLeaks /\ TypeOK
  BY DEF RefinementInv, LifecycleInv, ExclusionInv
<1>o. /\ arg[t] \in Op /\ opState[arg[t]] = "Submitted" /\ ~released[arg[t]]
      /\ backend[arg[t]] = "idle" /\ HoldsNothing(arg[t]) /\ Acquirable(t)
      /\ accesses[arg[t]] \in AccessInputs
  <2>1. pc[t] = "acquire" /\ Acquirable(t)
    BY DEF Acquire, Acquirable
  <2>2. arg[t] \in Op /\ opState[arg[t]] = "Submitted"
    BY <1>i, <2>1 DEF ExclusionInv, TypeOK, SubmissionsApart, Submitting
  <2>3. ~released[arg[t]]
    BY <1>i, <2>2 DEF ExclusionInv, ObservedAreReleased
  <2>4. backend[arg[t]] = "idle" /\ HoldsNothing(arg[t])
    BY <1>i, <2>1 DEF LifecycleInv, BackendStages, NothingLeaks
  <2>5. accesses[arg[t]] \in AccessInputs
    BY <2>1 DEF RefinementInv, RequestsKept
  <2> QED BY <2>1, <2>2, <2>3, <2>4, <2>5
<1>u. UNCHANGED <<released, backend, opState, arg>> /\ reservations' = Reserved(arg[t], acc)
  BY DEF Acquire, opVars
<1>1. acc \subseteq Resource \X Kind /\ acc # {}
  <2>1. accesses[arg[t]] \subseteq (Resource \cup {InvalidResource}) \X Kind
    BY <1>i, <1>o DEF TypeOK
  <2>2. WellFormed(accesses[arg[t]])
    BY <1>o DEF Acquirable
  <2>3. /\ acc \subseteq accesses[arg[t]]
        /\ \A a \in accesses[arg[t]] : \E b \in acc : b[1] = a[1]
    BY <2>1, NormalizedKeepsResources
  <2> QED BY <2>1, <2>2, <2>3 DEF WellFormed
<1>2. ASSUME NEW p \in Op, NEW a \in acc, NEW b \in HeldBy(p), a[1] = b[1]
      PROVE  a[2] # "Write" /\ b[2] # "Write"
  <2>1. a[1] \in Resource /\ <<p, b[2]>> \in reservations[a[1]]
    BY <1>1, <1>2 DEF HeldBy
  <2>2. p # arg[t]
    BY <1>o, <2>1 DEF HoldsNothing
  <2>3. <<arg[t], a[2]>> \in Reserved(arg[t], acc)[a[1]]
    BY <2>1 DEF Reserved
  <2>4. <<arg[t], a[2]>> \notin reservations[a[1]]
    BY <1>o, <2>1 DEF HoldsNothing
  <2>5. \A e \in Reserved(arg[t], acc)[a[1]] :
            \/ e \in reservations[a[1]]
            \/ /\ e[1] = arg[t]
               /\ \A f \in reservations[a[1]] :
                    f[1] = arg[t] \/ (e[2] # "Write" /\ f[2] # "Write")
    BY <1>i, <1>o, <2>1, AcquiredEntries
  <2> QED BY <2>1, <2>2, <2>3, <2>4, <2>5
<1>3. ASSUME NEW p \in Op \ {arg[t]} PROVE Same(p)
  <2>1. \A r \in Resource : \A k \in Kind :
            <<p, k>> \in reservations'[r] <=> <<p, k>> \in reservations[r]
    BY <1>u, <1>3 DEF Reserved
  <2> QED BY <1>u, <2>1, HeldSame, SameUnless
<1>4. HeldBy(arg[t])' = acc
  <2>1. \A r \in Resource : \A k \in Kind :
            <<arg[t], k>> \in reservations'[r] <=> <<r, k>> \in acc
    <3>1. ASSUME NEW r \in Resource, NEW k \in Kind, <<arg[t], k>> \in reservations'[r]
          PROVE  <<r, k>> \in acc
      <4>1. <<arg[t], k>> \notin reservations[r]
        BY <1>o DEF HoldsNothing
      <4>2. PICK a \in acc : a[1] = r /\ <<arg[t], k>> = <<arg[t], a[2]>>
        BY <1>u, <3>1, <4>1 DEF Reserved
      <4>3. a = <<r, k>>
        BY <1>1, <4>2
      <4> QED BY <4>2, <4>3
    <3>2. ASSUME NEW r \in Resource, NEW k \in Kind, <<r, k>> \in acc
          PROVE  <<arg[t], k>> \in reservations'[r]
      <4>1. <<r, k>>[1] = r /\ <<r, k>>[2] = k
        OBVIOUS
      <4> QED BY <1>u, <3>2, <4>1 DEF Reserved
    <3> QED BY <3>1, <3>2
  <2>2. HeldBy(arg[t])' = {a \in Resource \X Kind : <<arg[t], a[2]>> \in reservations'[a[1]]}
    BY <1>u DEF HeldBy
  <2>3. \A a \in Resource \X Kind : <<arg[t], a[2]>> \in reservations'[a[1]] <=> a \in acc
    BY <2>1
  <2> QED BY <1>1, <2>2, <2>3
<1>5. PhaseOf(arg[t]) = "new" /\ PhaseOf(arg[t])' = "reserved"
  BY <1>o, <1>u, <1>1, <1>4, HoldsNothingIsEmpty DEF PhaseOf
<1>6. Phases' = [Phases EXCEPT ![arg[t]] = "reserved"] /\ Held' = [Held EXCEPT ![arg[t]] = acc]
  <2>1. ASSUME NEW o \in Op, o = arg[t]
        PROVE  Phases' = [Phases EXCEPT ![o] = "reserved"] /\ Held' = [Held EXCEPT ![o] = acc]
    <3>1. PhaseOf(o)' = "reserved" /\ HeldBy(o)' = acc
      BY <1>u, <1>4, <1>5, <2>1 DEF PhaseOf, HeldBy
    <3> QED BY <1>3, <2>1, <3>1, OneMoves
  <2> QED BY <1>o, <2>1
<1>7. Contract!Reserve(arg[t], acc)
  BY <1>o, <1>1, <1>2, <1>5, <1>6
  DEF Phases, Held, Contract!Reserve, Contract!Exclusive
<1> QED BY <1>o, <1>7

\* A submit callback that enqueues work begins an operation that holds its resources.
LEMMA Beginning ==
    ASSUME RefinementInv, NEW t \in Thread, SubmitBackend(t)
    PROVE  (\A p \in Op : Same(p)) \/ Contract!Begin(arg[t])
<1>i. ExclusionInv /\ LifecycleInv /\ TypeOK
  BY DEF RefinementInv, LifecycleInv, ExclusionInv
<1>1. /\ arg[t] \in Op /\ opState[arg[t]] = "Submitted" /\ ~released[arg[t]]
      /\ backend[arg[t]] = "idle" /\ Covered(arg[t])
  <2>1. pc[t] = "start"
    BY DEF SubmitBackend
  <2>2. arg[t] \in Op /\ opState[arg[t]] = "Submitted"
    BY <1>i, <2>1 DEF ExclusionInv, TypeOK, SubmissionsApart, Submitting
  <2> QED BY <1>i, <2>1, <2>2 DEF ExclusionInv, ObservedAreReleased, LifecycleInv,
     BackendStages, WorkIsCovered
<1>2. /\ UNCHANGED <<released, reservations, opState>>
      /\ UNCHANGED backend \/ backend' = [backend EXCEPT ![arg[t]] = "running"]
  BY DEF SubmitBackend, opVars
<1>3. ASSUME NEW p \in Op PROVE HeldBy(p)' = HeldBy(p)
  BY <1>2 DEF HeldBy
<1>4. CASE UNCHANGED backend
  BY <1>2, <1>3, <1>4, SameUnless
<1>5. CASE backend' = [backend EXCEPT ![arg[t]] = "running"]
  <2> SUFFICES ASSUME NEW o \in Op, o = arg[t] PROVE Contract!Begin(o)
    BY <1>1
  <2>1. ASSUME NEW p \in Op \ {o} PROVE Same(p)
    BY <1>i, <1>2, <1>3, <1>5, <2>1, SameUnless DEF TypeOK
  <2>2. PhaseOf(o) = "reserved"
    BY <1>i, <1>1, CoveredIsHeld DEF PhaseOf
  <2>3. PhaseOf(o)' = "running"
    BY <1>i, <1>1, <1>2, <1>5 DEF PhaseOf, TypeOK
  <2>4. Phases' = [Phases EXCEPT ![o] = "running"] /\ Held' = [Held EXCEPT ![o] = HeldBy(o)]
    BY <1>3, <2>1, <2>3, OneMoves
  <2>5. Held' = Held
    BY <2>4 DEF Held
  <2> QED BY <2>2, <2>4, <2>5 DEF Phases, Held, Contract!Begin, Contract!Step
<1> QED BY <1>2, <1>4, <1>5

\* The backend finishing ends an operation that is running.
LEMMA Ending ==
    ASSUME RefinementInv, NEW o \in Op, BackendFinish(o)
    PROVE  Contract!End(o)
<1>i. ExclusionInv /\ LifecycleInv /\ TypeOK
  BY DEF RefinementInv, LifecycleInv, ExclusionInv
<1>1. backend[o] = "running" /\ ~released[o] /\ opState[o] # "Rejected"
  BY <1>i DEF BackendFinish, LifecycleInv, BackendStages
<1>2. /\ UNCHANGED <<released, reservations, opState>>
      /\ \E result \in {"ok", "err"} : backend' = [backend EXCEPT ![o] = result]
  BY DEF BackendFinish, opVars
<1>3. ASSUME NEW p \in Op PROVE HeldBy(p)' = HeldBy(p)
  BY <1>2 DEF HeldBy
<1>4. ASSUME NEW p \in Op \ {o} PROVE Same(p)
  BY <1>i, <1>2, <1>3, SameUnless DEF TypeOK
<1>5. PhaseOf(o) = "running" /\ PhaseOf(o)' = "finished"
  BY <1>i, <1>1, <1>2 DEF PhaseOf, TypeOK
<1>6. Phases' = [Phases EXCEPT ![o] = "finished"] /\ Held' = [Held EXCEPT ![o] = HeldBy(o)]
  BY <1>3, <1>4, <1>5, OneMoves
<1>7. Held' = Held
  BY <1>6 DEF Held
<1> QED BY <1>5, <1>6, <1>7 DEF Phases, Held, Contract!End, Contract!Step

\* A release gives everything back, of an operation that never began or is finished.
LEMMA Release ==
    ASSUME RefinementInv, NEW o \in Op, ReleaseReservations(o), ~released[o],
           PhaseOf(o) \in {"reserved", "finished"}, UNCHANGED backend,
           \A p \in Op \ {o} : opState'[p] = opState[p]
    PROVE  Contract!Close(o)
<1>i. ExclusionInv /\ TypeOK
  BY DEF RefinementInv, LifecycleInv, ExclusionInv
<1>1. /\ released' = [released EXCEPT ![o] = TRUE]
      /\ reservations' = [r \in Resource |-> {e \in reservations[r] : e[1] # o}]
  BY DEF ReleaseReservations, WithoutOp
<1>2. ASSUME NEW p \in Op \ {o} PROVE Same(p)
  <2>1. \A r \in Resource : \A k \in Kind :
            <<p, k>> \in reservations'[r] <=> <<p, k>> \in reservations[r]
    BY <1>1, <1>2
  <2>2. released'[p] = released[p]
    BY <1>i, <1>1, <1>2 DEF TypeOK
  <2> QED BY <1>2, <2>1, <2>2, HeldSame, SameUnless
<1>3. PhaseOf(o)' = "closed"
  BY <1>i, <1>1 DEF PhaseOf, TypeOK
<1>4. HeldBy(o)' = {}
  BY <1>1 DEF HeldBy
<1>5. Phases' = [Phases EXCEPT ![o] = "closed"] /\ Held' = [Held EXCEPT ![o] = {}]
  BY <1>2, <1>3, <1>4, OneMoves
<1> QED BY <1>5 DEF Phases, Held, Contract!Close

\* The abort path closes an operation that is not running.
LEMMA Unwinding ==
    ASSUME RefinementInv, NEW t \in Thread, SubmitUnwind(t)
    PROVE  Contract!Close(arg[t])
<1>i. ExclusionInv /\ LifecycleInv /\ TypeOK
  BY DEF RefinementInv, LifecycleInv, ExclusionInv
<1>1. pc[t] = "unwind" /\ ReleaseReservations(arg[t]) /\ UNCHANGED backend
      /\ opState' = [opState EXCEPT ![arg[t]] = "Rejected"]
  BY DEF SubmitUnwind, Reject
<1>2. arg[t] \in Op /\ opState[arg[t]] = "Submitted"
  BY <1>i, <1>1 DEF ExclusionInv, TypeOK, SubmissionsApart, Submitting
<1>3. ~released[arg[t]] /\ backend[arg[t]] # "running" /\ Covered(arg[t])
  BY <1>i, <1>1, <1>2 DEF ExclusionInv, ObservedAreReleased, LifecycleInv, BackendStages,
     WorkIsCovered
<1>4. PhaseOf(arg[t]) \in {"reserved", "finished"}
  BY <1>i, <1>2, <1>3, CoveredIsHeld DEF PhaseOf
<1>5. \A p \in Op \ {arg[t]} : opState'[p] = opState[p]
  BY <1>i, <1>1 DEF TypeOK
<1>6. ASSUME NEW o \in Op, o = arg[t] PROVE Contract!Close(o)
  BY <1>1, <1>3, <1>4, <1>5, <1>6, Release
<1> QED BY <1>2, <1>6

\* Observation closes an operation whose backend work is over.
LEMMA Observing ==
    ASSUME RefinementInv, NEW o \in Op, ObserveRelease(o)
    PROVE  (\A p \in Op : Same(p)) \/ Contract!Close(o)
<1>i. ExclusionInv /\ LifecycleInv
  BY DEF RefinementInv, LifecycleInv
<1>1. /\ frame[o].at = "release" /\ ReleaseReservations(o) /\ UNCHANGED <<backend, opState>>
  BY DEF ObserveRelease
<1>2. backend[o] \in {"ok", "err"} /\ opState[o] # "Rejected"
  BY <1>i, <1>1 DEF LifecycleInv, BackendStages, ExclusionInv, NamedArePublished, Published
<1>3. CASE released[o]
  <2>1. UNCHANGED <<released, reservations>>
    BY <1>1, <1>3 DEF ReleaseReservations
  <2>2. ASSUME NEW p \in Op PROVE HeldBy(p)' = HeldBy(p)
    BY <2>1 DEF HeldBy
  <2> QED BY <1>1, <2>1, <2>2, SameUnless
<1>4. CASE ~released[o]
  <2>1. PhaseOf(o) \in {"reserved", "finished"}
    BY <1>2, <1>4 DEF PhaseOf
  <2> QED BY <1>1, <1>4, <2>1, Release
<1> QED BY <1>3, <1>4

\* A submission that is rejected before it has reserved anything is a refusal.
LEMMA Rejection ==
    ASSUME RefinementInv, NEW t \in Thread,
           SubmitInvalidDependency(t) \/ SubmitDependencyFailed(t) \/ AcquireRejected(t)
    PROVE  \E o \in Op : Contract!Refuse(o)
<1>i. ExclusionInv /\ LifecycleInv /\ TypeOK /\ NothingLeaks
  BY DEF RefinementInv, LifecycleInv, ExclusionInv
<1>1. CASE SubmitInvalidDependency(t)
  <2>1. /\ nextOp \in Op /\ opState' = [opState EXCEPT ![nextOp] = "Rejected"]
        /\ UNCHANGED <<released, reservations, backend>>
    BY <1>1 DEF SubmitInvalidDependency
  <2>2. opState[nextOp] = "Unborn"
    BY <1>i, <2>1 DEF ExclusionInv, SubmissionsApart, TypeOK, Op
  <2>3. ~released[nextOp] /\ backend[nextOp] = "idle" /\ HoldsNothing(nextOp)
    BY <1>i, <2>1, <2>2 DEF ExclusionInv, ObservedAreReleased, LifecycleInv, BackendStages,
       NothingLeaks
  <2>4. ASSUME NEW o \in Op, o = nextOp PROVE Contract!Refuse(o)
    BY <2>1, <2>2, <2>3, <2>4, Refusal
  <2> QED BY <2>1, <2>4
<1>2. CASE SubmitDependencyFailed(t) \/ AcquireRejected(t)
  <2>1. /\ pc[t] \in {"deps", "acquire"}
        /\ opState' = [opState EXCEPT ![arg[t]] = "Rejected"]
        /\ UNCHANGED <<released, reservations, backend>>
    BY <1>2 DEF SubmitDependencyFailed, AcquireRejected, Reject
  <2>2. arg[t] \in Op /\ opState[arg[t]] = "Submitted"
    BY <1>i, <2>1 DEF ExclusionInv, TypeOK, SubmissionsApart, Submitting
  <2>3. ~released[arg[t]] /\ backend[arg[t]] = "idle" /\ HoldsNothing(arg[t])
    BY <1>i, <2>1, <2>2 DEF ExclusionInv, ObservedAreReleased, LifecycleInv, BackendStages,
       NothingLeaks
  <2>4. ASSUME NEW o \in Op, o = arg[t] PROVE Contract!Refuse(o)
    BY <2>1, <2>2, <2>3, <2>4, Refusal
  <2> QED BY <2>2, <2>4
<1> QED BY <1>1, <1>2

\* Every step of the runtime is a step of the contract, or changes nothing it sees.
LEMMA StepRefines ==
    ASSUME ~AllocMayFail, RefinementInv, Next
    PROVE  Contract!ContractNext \/ UNCHANGED <<Phases, Held>>
<1>i. ExclusionInv
  BY DEF RefinementInv, LifecycleInv
<1>o. \A t \in Thread : pc[t] \in {"acquire", "start", "unwind"} => arg[t] \in Op
  BY <1>i DEF ExclusionInv, TypeOK
<1>1. ASSUME NEW t \in Thread, Acquire(t) PROVE Contract!ContractNext
  BY <1>o, <1>1, Acquisition DEF Contract!ContractNext, Acquire, Acquirable
<1>2. ASSUME NEW t \in Thread, SubmitBackend(t)
      PROVE  Contract!ContractNext \/ UNCHANGED <<Phases, Held>>
  BY <1>o, <1>2, Beginning, NoneMoves DEF Contract!ContractNext, SubmitBackend
<1>3. ASSUME NEW t \in Thread, SubmitUnwind(t) PROVE Contract!ContractNext
  BY <1>o, <1>3, Unwinding DEF Contract!ContractNext, SubmitUnwind
<1>4. ASSUME NEW t \in Thread,
             SubmitInvalidDependency(t) \/ SubmitDependencyFailed(t) \/ AcquireRejected(t)
      PROVE  Contract!ContractNext
  BY <1>4, Rejection DEF Contract!ContractNext
<1>5. ASSUME NEW o \in Op, ObserveRelease(o)
      PROVE  Contract!ContractNext \/ UNCHANGED <<Phases, Held>>
  BY <1>5, Observing, NoneMoves DEF Contract!ContractNext
<1>6. ASSUME NEW o \in Op, BackendFinish(o) PROVE Contract!ContractNext
  BY <1>6, Ending DEF Contract!ContractNext
<1>7. ASSUME \/ \E t \in Thread :
                \/ Submit(t) \/ Observe(t) \/ Drop(t) \/ TakeUnobserved(t) \/ StateCheck(t)
                \/ HostRead(t) \/ HostMutate(t) \/ SubmitObserveDependency(t)
                \/ SubmitDependencySucceeded(t) \/ AbortBackend(t) \/ SubmitPublish(t)
                \/ ObserveDone(t) \/ DropDone(t) \/ StatePoll(t) \/ StateApply(t)
                \/ HostAccessDone(t)
             \/ \E o \in Op : \/ ObserveEnter(o) \/ ObserveDependency(o) \/ ObserveWait(o)
                              \/ ObservePublish(o)
      PROVE  UNCHANGED <<Phases, Held>>
  BY <1>i, <1>7, QuietSteps, NoneMoves
<1>8. \A t \in Thread : ~AcquireOutOfMemory(t)
  BY DEF AcquireOutOfMemory
<1> QED
  BY <1>1, <1>2, <1>3, <1>4, <1>5, <1>6, <1>7, <1>8
  DEF Next, Call, Running, SubmitStep, Activation

\* The runtime implements the reservation contract: acquisition and release are atomic,
\* work runs between them, and the exemption that predecessors get never admits a
\* conflicting operation.
THEOREM Refinement ==
    ASSUME ~AllocMayFail
    PROVE  Spec => ImplementsContract
<1>1. Init => Contract!ContractInit
  <2> SUFFICES ASSUME Init, NEW o \in Op PROVE PhaseOf(o) = "new" /\ HeldBy(o) = {}
    BY DEF Contract!ContractInit
  <2> QED BY DEF Init, PhaseOf, HeldBy
<1>2. RefinementInv /\ [Next]_vars => [Contract!ContractNext]_(Contract!contractVars)
  <2> SUFFICES ASSUME RefinementInv, [Next]_vars
               PROVE  Contract!ContractNext \/ UNCHANGED Contract!contractVars
    OBVIOUS
  <2>1. CASE Next
    BY <2>1, StepRefines DEF Phases, Held, Contract!contractVars
  <2>2. CASE UNCHANGED vars
    BY <2>2 DEF vars, Contract!contractVars, PhaseOf, HeldBy
  <2> QED BY <2>1, <2>2
<1> QED BY <1>1, <1>2, RefinementInvariant, PTL
        DEF Spec, ImplementsContract, Contract!ContractSpec
=============================================================================
