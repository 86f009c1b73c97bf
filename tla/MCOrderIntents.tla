--------------------------- MODULE MCOrderIntents ---------------------------
(* Instances of OrderIntents for TLC.                                      *)
EXTENDS OrderIntents, TLC

CONSTANTS i1, i2, i3

(* The admin's id and key "k" join to the string of ann's and "root:k".    *)
MCUsers == {"ann", "ann:root"}
MCAdmins == {"ann:root"}
(* "hold" has no actionable direction.                                     *)
MCContents == {"buy", "sell", "hold"}
MCUsable == {"buy", "sell"}

(* Where OnlyBuy is Sound, the price of "sell" is not positive.            *)
OnlyBuy == {"buy"}
OnlyAnn == {"ann"}
MCKeys == {"k", "root:k"} \cup Pubs

(* A default key names its publication.                                    *)
MCDefaultKey == [u \in Users |-> [p \in Pubs |-> p]]

(* Nothing keeps a colon out of a user id or a key.                        *)
MCJoin == [u \in Users |-> [k \in Keys |-> u \o ":" \o k]]
MCJoinedKeys == {MCJoin[u][k] : u \in Users, k \in Keys}

Canonicals(us, ps, ks) == [op : {"canonical"}, user : us, pub : ps, key : ks]
Creates(us, ks, gs) == [op : {"create"}, user : us, key : ks, granted : gs]
Transitions(us, ts) == [op : {"transition"}, user : us, id : Ids, target : ts]

(* Canonical and plain creations and transitions, by the owner or an       *)
(* admin; the admin uses the same idempotency key as the owner, and one    *)
(* that the owner's id and another key of his join to.                     *)
MixedCalls ==
  Canonicals({"ann"}, Pubs, {"k"})
    \cup Creates({"ann"}, {"k", "root:k"}, {TRUE})
    \cup Creates({"ann:root"}, {"k"}, {TRUE})
    \cup Transitions({"ann", "ann:root"}, {"CANCELLED"})

(* The same publication id for two tenants, and ann's that the file holds  *)
(* twice; a creation that has q's default key and no authorization.        *)
TenantCalls ==
  Canonicals({"ann", "ann:root"}, {"q"}, {None}) \cup Canonicals({"ann"}, {"p"}, {None})
    \cup Creates({"ann"}, {"q"}, {FALSE})
    \cup {c \in Transitions({"ann"}, {"CANCELLED", "STAGED"}) : c.id # i2}

(* Canonical creations that succeed or fail at each check, racing          *)
(* plain ones with the same key.                                           *)
LiveRequests == Canonicals({"ann"}, {"p"}, {"k"}) \cup Creates({"ann"}, {"k"}, {TRUE})

(* Plain creations with one key, and transitions to two terminal states.   *)
RaceCalls == Creates({"ann"}, {"k"}, {TRUE}) \cup Transitions({"ann"}, {"CANCELLED", "EXPIRED"})

Staged(u, k, p, c) == [user |-> u, key |-> k, pub |-> p, content |-> c, state |-> "STAGED"]

(* A file of an earlier build, with two intents for ann's publication.     *)
LegacyFile ==
  [intents |-> [i \in Ids |-> IF i = i1 THEN Staged("ann", "p", "p", "buy")
                              ELSE IF i = i2 THEN Staged("ann", "k", "p", "buy")
                              ELSE None],
   order |-> <<i1, i2>>]

LegacySymmetry == Permutations(Requests) \cup Permutations(Ids \ {i1, i2})
Symmetry == Permutations(Requests) \cup Permutations(Ids)
=============================================================================
