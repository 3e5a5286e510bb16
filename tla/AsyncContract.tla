--------------------------- MODULE AsyncContract ---------------------------
(***************************************************************************)
(* What asynchronous submission promises, with no threads, dependency      *)
(* closures or polling: one-shot operations that reserve all their         *)
(* resources in one step, run while they hold them, and give everything    *)
(* back in one step when the backend is through.  No operation is ever     *)
(* admitted next to one it conflicts with: the exemption the runtime makes *)
(* for declared predecessors is not visible at this level.                 *)
(***************************************************************************)
EXTENDS Integers

CONSTANTS Operation, Root, AccessKind, Requests

VARIABLES phase, held

contractVars == <<phase, held>>

Exclusive(a, b) == a[1] = b[1] /\ (a[2] = "Write" \/ b[2] = "Write")

ContractInit ==
    /\ phase = [o \in Operation |-> "new"]
    /\ held = [o \in Operation |-> {}]

Reserve(o, acc) ==
    /\ phase[o] = "new" /\ acc # {} /\ acc \subseteq Root \X AccessKind
    /\ \A p \in Operation : \A a \in acc, b \in held[p] : ~Exclusive(a, b)
    /\ phase' = [phase EXCEPT ![o] = "reserved"]
    /\ held' = [held EXCEPT ![o] = acc]

Step(o, from, to) ==
    /\ phase[o] \in from
    /\ phase' = [phase EXCEPT ![o] = to]
    /\ UNCHANGED held

Refuse(o) == Step(o, {"new"}, "closed")
Begin(o) == Step(o, {"reserved"}, "running")
End(o) == Step(o, {"running"}, "finished")

\* A reserved operation that never began is given up; a running one is not.
Close(o) ==
    /\ phase[o] \in {"reserved", "finished"}
    /\ phase' = [phase EXCEPT ![o] = "closed"]
    /\ held' = [held EXCEPT ![o] = {}]

ContractNext ==
    \E o \in Operation :
        \/ \E acc \in Requests : Reserve(o, acc)
        \/ Refuse(o) \/ Begin(o) \/ End(o) \/ Close(o)

ContractSpec == ContractInit /\ [][ContractNext]_contractVars
=============================================================================
