------------------------ MODULE MCProject1Repository ------------------------
(* Instances of Project1Repository for TLC.                                *)
EXTENDS Project1Repository, TLC

MCUsers == {"ann", "bob"}
MCNames == {"p", "e", "s", "t"}
MCStates == {"STAGED", "CANCELLED"}
MCContents == {"buy", "sell"}
MCIntId == [u \in MCUsers |-> [n \in MCNames |-> u \o ":" \o n]]
MCIntegrationIds == {MCIntId[u][n] : u \in MCUsers, n \in MCNames}

Ids(p, e, s) == [pub |-> p, event |-> e, sig |-> s]

Full == Ids("p", "e", "s")
OtherSignal == Ids("p", "e", "t")      \* same publication, another signal
SignalOnly == Ids(None, None, "s")     \* found by Full, and finds it
Apart == Ids(None, None, "t")          \* meets none but OtherSignal

Rec(u, ids, x) ==
  [user |-> u, int |-> MCIntId[u][FirstId(ids)], ids |-> ids, content |-> x, state |-> "STAGED"]

Ingests(us, lineages, xs) ==
  [op : {"ingest"}, user : us, ids : lineages, content : xs, state : {"STAGED"}]

Updates(us, ns) == [op : {"update"}, user : us, name : ns, state : {"CANCELLED"}]

Saves(records) == [op : {"save"}, record : records]

Resolves(us) == [op : {"resolve"}, user : us, pub : {"p"}]

(* Two tenants, conflicting contents and colliding lineages; saves of the  *)
(* same record again, and of one that meets OtherSignal or is new.         *)
IngestAndSave ==
  Ingests({"ann"}, {Full}, {"buy", "sell"}) \cup Ingests({"bob"}, {Full}, {"buy"})
    \cup Ingests({"ann"}, {OtherSignal, SignalOnly}, {"buy"})
    \cup Saves({Rec("ann", Full, "buy"), Rec("ann", Apart, "buy")})

EveryCall ==
  IngestAndSave \cup Updates({None}, {"p"}) \cup Updates({"bob"}, {"s"}) \cup Resolves({None})

(* A file of an older version: ann's publication twice, bob's records of   *)
(* the same publication and of another one, with the first one's id as its *)
(* signal, and a record that has no tenant.                                *)
OldFile ==
  <<Rec("ann", Full, "buy"), [Rec("ann", OtherSignal, "sell") EXCEPT !.int = "ann:t"],
    Rec("bob", Full, "sell"), Rec("bob", Ids("t", None, "p"), "buy"),
    [Rec("bob", SignalOnly, "buy") EXCEPT !.user = None]>>

EveryFile == {None, OldFile}

LiveCalls == Ingests({"ann"}, {Full}, {"buy"}) \cup Updates({"ann"}, {"s"})

RetryCalls == Ingests({"ann"}, {Full}, {"buy"})

NoFile == {None}

(* The hypothesis of the proofs holds of every instance.                   *)
ASSUME InstancesAgree == SavesAgree

CallsAndProcs == Permutations(Calls) \cup Permutations(Procs)
=============================================================================
