------------------------- MODULE MCExecutionGateway -------------------------
(* Instances of ExecutionGateway for TLC.                                  *)
EXTENDS ExecutionGateway, MCOrderIntents

CONSTANT i4

GatewayUsers == {"ann", "bob", "ann:root"}

(* The file of an earlier process life: authorized intents of ann and bob  *)
(* with the same idempotency key, a canonical one of ann, and a second one *)
(* of ann with the key, as two creations at the same time make it.         *)
GatewayFile ==
  [intents |-> [i \in Ids |-> IF i \in {i1, i4} THEN Staged("ann", "k", None, None)
                              ELSE IF i = i2 THEN Staged("bob", "k", None, None)
                              ELSE Staged("ann", "p", "p", "buy")],
   order |-> <<i1, i2, i3, i4>>]

TwoTenantsFile ==
  [intents |-> [i \in Ids |-> IF i = i1 THEN Staged("ann", "k", None, None)
                              ELSE IF i = i2 THEN Staged("bob", "k", None, None)
                              ELSE None],
   order |-> <<i1, i2>>]

ExecCalls(ops, us, is) == [op : ops, user : us, id : is]

(* Ann executes every intent, bob hers and his with the key, and root his; *)
(* hers is reconciled, by bob in vain.                                     *)
EveryExecCall ==
  ExecCalls({"execute"}, {"ann"}, Ids)
    \cup ExecCalls({"execute"}, {"bob"}, {i1, i2}) \cup ExecCalls({"execute"}, {"ann:root"}, {i2})
    \cup ExecCalls({"reconcile"}, {"ann", "bob"}, {i1}) \cup ExecCalls({"record"}, {"ann"}, {i1})

(* Root executes ann's intent and bob's, which have the same key.          *)
RootExecutes == ExecCalls({"execute"}, {"ann:root"}, {i1, i2})

Cancels == Transitions({"ann"}, {"CANCELLED"})

MCPortStatuses == {"ACCEPTED_AT_BOUNDARY"}
MCEvidence == {"missing", "STAGED"}
EverySymmetry == Permutations(Requests) \cup Permutations(Executions)
=============================================================================
