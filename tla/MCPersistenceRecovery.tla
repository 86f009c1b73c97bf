----------------------- MODULE MCPersistenceRecovery -----------------------
(* Instances of PersistenceRecovery for TLC.                               *)
EXTENDS PersistenceRecovery, TLC

CONSTANT j0

MCStores == {"users", "project1", "intents"}
MCCached == {"users", "intents"}
MCLenient == {"intents"}

(* There is no intents file yet, but one of an earlier build in data/.     *)
MCFirstFiles == [users |-> {"u"}, project1 |-> {"u"}, intents |-> None]
MCFallback == [users |-> None, project1 |-> {"o"}, intents |-> {"o"}]

(* One backup of before, with an intents file.                             *)
MCFirstBackups ==
  [j \in Jobs |-> IF j = j0 THEN [users |-> {"o"}, project1 |-> None, intents |-> {"o"}] ELSE None]

MCCalls ==
  [op : {"backup"}, admin : {TRUE}] \cup [op : {"restore"}, admin : {TRUE}, of : Jobs]
    \cup [op : {"restore"}, admin : {FALSE}, of : {j0}]

Symmetry == Permutations(Jobs \ {j0})
=============================================================================
