---------------------------- MODULE MCWorkspaces ----------------------------
(* Instances of Workspaces for TLC.                                        *)
EXTENDS Workspaces, TLC

MCUsers == {"ann", "bob", "root"}
MCLists == {"default", "old", "one", "two"}

(* Ann's workspace is of an earlier build: its active watchlist is gone.   *)
MCFile ==
  [u \in Users |->
     IF u = "ann"
       THEN [active |-> "old", symbol |-> "gold",
             lists |-> [l \in Lists |->
                IF l \in {"default", "one"} THEN [name |-> "main", symbols |-> {"gold"}] ELSE None],
             chart |-> {}, layout |-> {},
             notify |-> [inApp |-> TRUE, categories |-> Categories, floor |-> 3]]
       ELSE None]

Quiet == [inApp |-> FALSE, categories |-> {}, floor |-> 1]

Change1(by, user, parts) == [op |-> "workspace", by |-> by, user |-> user, parts |-> parts]
Get == [kind |-> "get"]
Symbol(s) == [kind |-> "symbol", symbol |-> s]
Activate(l) == [kind |-> "activate", list |-> l]
NotifyOnly(p) == [kind |-> "prefs", chart |-> {}, layout |-> {}, notify |-> p]

WorkspaceCalls ==
  {Change1("ann", "ann", <<Get, Symbol("oil"), Activate("one"), NotifyOnly(Quiet)>>),
   Change1("root", "ann", <<Get, [kind |-> "prefs", chart |-> {"k"}, layout |-> {"k"}, notify |-> None]>>),
   Change1("ann", "ann", <<[kind |-> "remove", list |-> "one"]>>),
   Change1("ann", "ann", <<[kind |-> "remove", list |-> "default"]>>),
   Change1("ann", "ann", <<[kind |-> "add", name |-> "mine", symbols |-> {"oil"}]>>),
   Change1("ann", "ann", <<[kind |-> "rename", list |-> "one", name |-> "mine"]>>),
   Change1("ann", "ann", <<[kind |-> "include", list |-> "one", symbol |-> "oil"]>>),
   Change1("ann", "ann", <<[kind |-> "exclude", list |-> "default", symbol |-> "gold"]>>),
   Change1("root", "root", <<NotifyOnly(Quiet), Symbol("oil")>>),
   Change1("bob", "ann", <<Symbol("oil")>>)}

InboxCalls ==
  [op : {"read", "archive", "delete"}, by : {"ann"}, user : {"ann"}, note : {"evt"}]
    \cup [op : {"read"}, by : {"bob"}, user : {"ann"}, note : {"evt"}]
    \cup [op : {"readall"}, by : {"ann"}, user : {"ann"}]
    \cup [op : {"create"}, by : {"ann"}, user : {"ann"}, category : {"system"}, severity : {1}]
    \cup [op : {"events"}, by : {None}, user : {"ann"},
          events : {<<[id |-> "evt", category |-> "security", severity |-> s]>> : s \in {1, 3}}]
    \cup [op : {"events"}, by : {"root"}, user : {"root"},
          events : {<<[id |-> "evt", category |-> "security", severity |-> 1],
                      [id |-> "evt2", category |-> "system", severity |-> 3]>>}]

Alarm(s) == [id |-> "evt2", category |-> "system", severity |-> s]

DeliveryCalls ==
  [op : {"deliver"}, by : {None}, user : {"ann"}, events : {<<Alarm(4)>>}, alert : BOOLEAN,
   channel : {"in_process"}]
    \cup [op : {"deliver"}, by : {"bob"}, user : {"ann", "bob"}, events : {<<Alarm(1)>>},
          alert : {FALSE}, channel : {"in_process"}]
    \cup [op : {"channel"}, by : {None}, user : {None}, channel : {"in_process"}, enabled : BOOLEAN]
    \cup [op : {"list"}, by : {"ann"}, user : {"ann"}, unread : {TRUE}, archived : {FALSE}]

MCOffered == DeliveryCalls \cup WorkspaceCalls \cup InboxCalls

Symmetry == Permutations(Requests)
=============================================================================
