---------------------------- MODULE MCTaskQueue ----------------------------
(***************************************************************************)
(* Small instances of TaskQueue for TLC: one namespace, and the sets of    *)
(* endpoints whose clients each run lets loose.                            *)
(***************************************************************************)
EXTENDS TaskQueueProps, TLC

CONSTANTS t1, n1, w1

EveryFunction == [w \in Workers |-> Tasks]
\* One worker polls for the function of t1, the others for the rest.
OwnFunction == [w \in Workers |-> {t \in Tasks : t = t1 <=> w = w1}]
OneNamespace == [t \in Tasks |-> n1]
\* A limit of 0 gives the same LimitedNamespaces, and so the same behaviours.
LimitOne == [n \in Namespaces |-> 1]
LimitTwo == [n \in Namespaces |-> 2]
AllTasks == {Tasks}

NoClients     == {}
Conditional   == {"bulk_cancel", "rerun", "delete"}
OnlyAccounts  == {"delete_account"}
Unconditional == {"cancel", "start", "delete_account"}

Symmetric == Permutations(Workers) \cup Permutations(Handlers)
AllSymmetric == Permutations(Tasks) \cup Symmetric
============================================================================
