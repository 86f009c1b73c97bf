-------------------------- MODULE AuthoritativeLog --------------------------
(***************************************************************************)
(* What the repository of Project 1 records promises, with neither         *)
(* processes nor locks nor files: a log of authoritative records, in which *)
(* a tenant's publication, event and signal ids each name one record,      *)
(* whose content never changes.  Only its lifecycle state does.  A power   *)
(* failure may fall back to an earlier log that is not yet superseded.     *)
(***************************************************************************)
EXTENDS Naturals, Sequences

CONSTANTS
  Users,
  Names,            \* publication, event and signal ids
  IntegrationIds,
  Contents,         \* the authoritative content apart from the three ids
  States,           \* lifecycle states
  Arrivals,         \* the records that may arrive, a set of Record
  InitialLogs,      \* what the log can be at first
  None

Ids3 == [pub: Names \cup {None}, event: Names \cup {None}, sig: Names \cup {None}]

Record ==
  [user: Users \cup {None}, int: IntegrationIds, ids: Ids3, content: Contents, state: States]

Spaces == {"pub", "event", "sig"}

(* Two lineages have an id in common.                                      *)
Meet(a, b) == \E s \in Spaces : a[s] # None /\ a[s] = b[s]

VARIABLES
  log,        \* the records, in the order of their arrival
  kept        \* the logs that a power failure can leave

logVars == <<log, kept>>

LogInit == log \in InitialLogs /\ kept = {log}

(* A record whose ids and integration id are new to its tenant.            *)
Arrive(x) ==
  /\ \A n \in 1..Len(log) :
       log[n].user = x.user => ~Meet(log[n].ids, x.ids) /\ log[n].int # x.int
  /\ log' = Append(log, x)
  /\ kept' = kept \cup {log'}

(* The records of one lineage, of one tenant or (None) of all, change      *)
(* their state.                                                            *)
Relabel(u, lineage, st) ==
  /\ log' = [n \in 1..Len(log) |->
       IF log[n].ids = lineage /\ (u = None \/ log[n].user = u)
         THEN [log[n] EXCEPT !.state = st] ELSE log[n]]
  /\ kept' = kept \cup {log'}

(* The log is made durable.                                                *)
Settle == kept' = {log} /\ UNCHANGED log

(* A log that was not yet superseded durably is found instead.             *)
PowerFailure == log' \in kept /\ kept' = {log'}

LogNext ==
  \/ \E x \in Arrivals : Arrive(x)
  \/ \E u \in Users \cup {None}, n \in 1..Len(log), st \in States : Relabel(u, log[n].ids, st)
  \/ Settle
  \/ PowerFailure

LogSpec == LogInit /\ [][LogNext]_logVars
=============================================================================
