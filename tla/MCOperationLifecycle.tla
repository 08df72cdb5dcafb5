------------------------ MODULE MCOperationLifecycle ------------------------
(* Small instances of OperationLifecycle for TLC.                           *)
EXTENDS OperationLifecycle, TLC

Symmetry == Permutations(Operations) \cup Permutations(Tasks) \cup Permutations(Requests)

\* One family; its revisions are only followed until they can be reopened,
\* their course being the root's, and officers are only assigned on its root.
OneFamily ==
  /\ Cardinality({o \in Operations : InTable(o) /\ op[o].root = NoOperation}) <= 1
  /\ \A o \in Operations : op[o].root # NoOperation =>
       /\ ~op[o].paused /\ \A t \in Tasks : task[t].on # o
       /\ op[o].type = "vessel_only"
       /\ op[o].status \in {"tasks_assigned", "cancelled"}
=============================================================================
