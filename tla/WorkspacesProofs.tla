-------------------------- MODULE WorkspacesProofs --------------------------
(***************************************************************************)
(* Proofs about Workspaces, for every value of its constants.              *)
(***************************************************************************)
EXTENDS Workspaces, TLAPS

-----------------------------------------------------------------------------
(***************************************************************************)
(* The inductive invariant: what a request is for, and what it holds.      *)
(***************************************************************************)
In(x, s) == \E i \in 1..Len(s) : s[i] = x

PartsLeft(r) ==
  /\ call[r].op = "workspace" /\ call[r].parts # <<>>
  /\ todo[r] \in Seq(Part)
  /\ \A i \in 1..Len(todo[r]) : In(todo[r][i], call[r].parts)

EventsLeft(r) ==
  /\ call[r].op \in {"events", "deliver"}
  /\ todo[r] \in Seq(Event) /\ todo[r] # <<>>
  /\ \A i \in 1..Len(todo[r]) : In(todo[r][i], call[r].events)

Asks(r) ==
  /\ pc[r] \notin {"idle", "done"} => call[r] \in granted /\ Allowed(call[r])
  /\ pc[r] \in {"fetch", "make", "change", "open", "write", "replace"} => PartsLeft(r)
  /\ pc[r] \in {"fetch", "make", "change"} => todo[r] # <<>>
  /\ pc[r] \in {"deliver", "prefs", "post"} => EventsLeft(r)
  /\ pc[r] \in {"read", "archive", "delete", "readall", "create", "list", "deliver", "channel"} =>
       call[r].op = pc[r]
  /\ pc[r] = "mail" => call[r].op = "deliver"
  /\ pc[r] \in {"prefs", "post", "mail"} /\ call[r].op = "deliver" => call[r].user \in Reachable
  /\ pc[r] = "keep" => call[r].op \in {"read", "archive", "delete"}
  /\ pc[r] = "mark" => call[r].op = "readall"

(* Every workspace that was there at first is there, and is the user's own.*)
OwnTable(table) ==
  \A u \in Users : /\ table[u] = None => FirstOf(u) = None
                   /\ table[u] # None => IsOwn(u, table[u])

Right(u, w) == w.active \in Listed(w) /\ IsOwn(u, w)

NoteEarned(u, n, note) ==
  /\ IF n \in Events
       THEN /\ \E c \in Entitled(u) :
                 /\ c.op \in {"events", "deliver"}
                 /\ In([id |-> n, category |-> note.category, severity |-> note.severity], c.events)
            /\ FirstOf(u) = None \/ \E p \in shown[u] : Passes(p, note)
       ELSE [id |-> n, user |-> u] \in drawn
  /\ note.read => Asked(u, "read", n) \/ Asked(u, "readall", n)
  /\ note.archived => Asked(u, "archive", n)

AllEarned(u, box) == \A n \in Notes : box[n] # None => NoteEarned(u, n, box[n])

Holds(r) ==
  /\ pc[r] \in {"change", "open", "write", "replace"} =>
       ws[r] \in Workspace /\ Right(call[r].user, ws[r])
  /\ pc[r] = "write" => snap[r] \in Table /\ OwnTable(snap[r])
  /\ pc[r] = "post" => IF ws[r] = None THEN FirstOf(call[r].user) = None
                       ELSE ws[r].notify \in shown[call[r].user]
  /\ pc[r] \in {"keep", "mark"} => AllEarned(call[r].user, notes[r])
  /\ pc[r] = "keep" => notes[r][call[r].note] # None
  /\ pc[r] = "mark" => \A n \in left[r] : notes[r][n] # None

Local(r) == Asks(r) /\ Holds(r)

Memory ==
  /\ OwnTable(mem)
  /\ \A u \in Users : mem[u] # None => mem[u].active \in Listed(mem[u]) /\ mem[u].notify \in shown[u]

Files ==
  /\ disk = None => InitialFile = None
  /\ disk \notin {None, Empty, Torn} => OwnTable(disk)
  /\ temp \notin {None, Empty, Torn} => OwnTable(temp)

Inboxes == \A u \in Users : AllEarned(u, inbox[u])

Mails ==
  \A m \in mailed : /\ m.user \in Reachable \cap Mailable
                    /\ \E c \in Entitled(m.user) : c.op = "deliver" /\ c.events[1] = m.event

Safe ==
  TypeOK /\ (\A r \in Requests : Local(r)) /\ Memory /\ Files /\ Inboxes /\ Mails

-----------------------------------------------------------------------------
(***************************************************************************)
(* Workspaces and parts.                                                   *)
(***************************************************************************)
LEMMA PartFields ==
  ASSUME NEW p \in Part
  PROVE  /\ p.kind \in {"get", "symbol", "activate", "remove", "add", "rename", "include",
                        "exclude", "prefs"}
         /\ p.kind = "symbol" => p.symbol \in Symbols
         /\ p.kind = "add" => p.name \in Names /\ p.symbols \in SUBSET Symbols
         /\ p.kind = "rename" => p.name \in Names
         /\ p.kind \in {"include", "exclude"} => p.symbol \in Symbols
         /\ p.kind \in {"activate", "remove", "rename", "include", "exclude"} => p.list \in Lists
         /\ p.kind = "prefs" => /\ p.chart \in SUBSET Keys /\ p.layout \in SUBSET Keys
                                /\ p.notify \in Prefs \cup {None}
BY DEF Part

LEMMA DefaultsType ==
  /\ DefaultPrefs \in Prefs
  /\ DefaultWatchlist \in Watchlist /\ OnlyDefault \in [Lists -> Watchlist \cup {None}]
  /\ DefaultWorkspace \in Workspace
  /\ Listed(DefaultWorkspace) = {DefaultList}
<1>1. DefaultPrefs \in Prefs
  BY DEF DefaultPrefs, Prefs, Severities
<1>2. DefaultWatchlist \in Watchlist
  BY WorkspaceAssumption DEF DefaultWatchlist, Watchlist
<1>3. OnlyDefault \in [Lists -> Watchlist \cup {None}]
  BY <1>2 DEF OnlyDefault
<1>4. DefaultWorkspace \in Workspace
  BY <1>1, <1>3, WorkspaceAssumption DEF DefaultWorkspace, Workspace
<1>5. Listed(DefaultWorkspace) = {DefaultList}
  BY <1>2, WorkspaceAssumption DEF Listed, DefaultWorkspace, OnlyDefault
<1> QED
  BY <1>1, <1>2, <1>3, <1>4, <1>5

LEMMA RebuiltType ==
  ASSUME NEW w \in Workspace
  PROVE  /\ Rebuilt(w) \in Workspace /\ Rebuilt(w).active = w.active
         /\ Rebuilt(w).symbol = w.symbol /\ Rebuilt(w).lists = w.lists
         /\ Rebuilt(w).notify = DefaultPrefs
BY DefaultsType DEF Rebuilt, Workspace

LEMMA WithActiveType ==
  ASSUME NEW w \in Workspace, NEW l \in Lists
  PROVE  /\ WithActive(w, l) \in Workspace /\ WithActive(w, l).active = l
         /\ WithActive(w, l).symbol = w.symbol /\ WithActive(w, l).lists = w.lists
         /\ WithActive(w, l).notify \in {w.notify, DefaultPrefs}
<1>1. [w EXCEPT !.active = l] \in Workspace
  BY DEF Workspace
<1> QED
  BY <1>1, RebuiltType DEF WithActive, Workspace

LEMMA WithSymbolType ==
  ASSUME NEW w \in Workspace, NEW s \in Symbols
  PROVE  /\ WithSymbol(w, s) \in Workspace /\ WithSymbol(w, s).active = w.active
         /\ WithSymbol(w, s).symbol = s /\ WithSymbol(w, s).lists = w.lists
         /\ WithSymbol(w, s).notify \in {w.notify, DefaultPrefs}
<1>1. [w EXCEPT !.symbol = s] \in Workspace
  BY DEF Workspace
<1> QED
  BY <1>1, RebuiltType DEF WithSymbol, Workspace

LEMMA WithListType ==
  ASSUME NEW w \in Workspace, NEW l \in Lists, NEW list \in Watchlist \cup {None}
  PROVE  /\ WithList(w, l, list) \in Workspace /\ WithList(w, l, list).active = w.active
         /\ WithList(w, l, list).symbol = w.symbol
         /\ WithList(w, l, list).lists = [w.lists EXCEPT ![l] = list]
         /\ WithList(w, l, list).notify = DefaultPrefs
<1>1. [w EXCEPT !.lists[l] = list] \in Workspace
  BY DEF Workspace
<1> QED
  BY <1>1, RebuiltType DEF WithList, Workspace

LEMMA WithPrefsType ==
  ASSUME NEW w \in Workspace, NEW p \in Part, p.kind = "prefs"
  PROVE  /\ WithPrefs(w, p) \in Workspace /\ WithPrefs(w, p).active = w.active
         /\ WithPrefs(w, p).symbol = w.symbol /\ WithPrefs(w, p).lists = w.lists
         /\ WithPrefs(w, p).notify \in {w.notify, DefaultPrefs}
              \/ (p.notify # None /\ WithPrefs(w, p).notify = p.notify)
<1> DEFINE drawnOver == [w EXCEPT !.chart = @ \cup p.chart]
           charted == IF p.chart = {} THEN w ELSE Rebuilt(drawnOver)
           laid == [charted EXCEPT !.layout = @ \cup p.layout]
<1>1. p.chart \in SUBSET Keys /\ p.layout \in SUBSET Keys /\ p.notify \in Prefs \cup {None}
  BY PartFields
<1>2. /\ drawnOver \in Workspace /\ drawnOver.active = w.active
      /\ drawnOver.symbol = w.symbol /\ drawnOver.lists = w.lists
  BY <1>1 DEF Workspace
<1>3. /\ charted \in Workspace /\ charted.active = w.active
      /\ charted.symbol = w.symbol /\ charted.lists = w.lists
      /\ charted.notify \in {w.notify, DefaultPrefs}
  BY <1>2, RebuiltType
<1> HIDE DEF charted
<1>4. /\ laid \in Workspace /\ laid.active = w.active
      /\ laid.symbol = w.symbol /\ laid.lists = w.lists
      /\ laid.notify \in {w.notify, DefaultPrefs}
  BY <1>1, <1>3 DEF Workspace
<1>5. WithPrefs(w, p) = IF p.notify = None THEN laid ELSE [laid EXCEPT !.notify = p.notify]
  BY DEF WithPrefs, charted
<1> HIDE DEF laid
<1> QED
  BY <1>1, <1>4, <1>5 DEF Workspace

(* What changes of a workspace: the active watchlist stays a listed one,   *)
(* and every list, symbol and preference is kept or is what the part says. *)
Follows(w, p, v) ==
  /\ v \in Workspace /\ v.active \in Listed(v)
  /\ v.symbol = w.symbol \/ p = [kind |-> "symbol", symbol |-> v.symbol]
  /\ \/ v.notify \in {w.notify, DefaultPrefs}
     \/ p.kind = "prefs" /\ v.notify = p.notify
  /\ \A l \in Listed(v) :
       \/ l \in Listed(w) /\ v.lists[l].symbols \subseteq w.lists[l].symbols
       \/ p.kind = "add" /\ l = v.active /\ v.lists[l].symbols = p.symbols
       \/ /\ l \in Listed(w) /\ p.kind = "include" /\ p.list = l
          /\ p = [kind |-> "include", list |-> l, symbol |-> p.symbol]
          /\ v.lists[l].symbols \subseteq w.lists[l].symbols \cup {p.symbol}

LEMMA ChangedFollows ==
  ASSUME NEW w \in Workspace, w.active \in Listed(w), NEW p \in Part,
         NEW v \in Changed(w, p)
  PROVE  Follows(w, p, v)
<1>1. \A l \in Listed(w) : l \in Lists /\ w.lists[l] \in Watchlist
  BY DEF Listed, Workspace
<1>2. w.active \in Lists /\ w.lists \in [Lists -> Watchlist \cup {None}]
  BY DEF Workspace
<1>3. CASE p.kind = "get"
  BY <1>3 DEF Changed, Follows
<1>4. CASE p.kind = "symbol"
  <2>1. v = WithSymbol(w, p.symbol) /\ p = [kind |-> "symbol", symbol |-> p.symbol]
    BY <1>4 DEF Changed, Part
  <2> QED
    BY <1>4, <2>1, PartFields, WithSymbolType DEF Follows, Listed
<1>5. CASE p.kind = "activate"
  <2>1. p.list \in Listed(w) /\ v = WithActive(w, p.list)
    BY <1>5 DEF Changed
  <2> QED
    BY <1>1, <1>5, <2>1, WithActiveType DEF Follows, Listed
<1>6. CASE p.kind = "add"
  <2> DEFINE list == [name |-> p.name, symbols |-> p.symbols]
  <2>1. PICK l \in FreshLists : v = WithActive(WithList(w, l, list), l)
    BY <1>6 DEF Changed
  <2>2. l \in Lists /\ list \in Watchlist /\ list # None /\ list.symbols = p.symbols
    BY <1>6, <2>1, PartFields, WorkspaceAssumption DEF FreshLists, Watchlist
  <2> HIDE DEF list
  <2>3. /\ WithList(w, l, list) \in Workspace
        /\ WithList(w, l, list).symbol = w.symbol
        /\ WithList(w, l, list).lists = [w.lists EXCEPT ![l] = list]
        /\ WithList(w, l, list).notify = DefaultPrefs
    BY <2>2, WithListType
  <2>4. /\ v \in Workspace /\ v.active = l /\ v.symbol = w.symbol
        /\ v.lists = [w.lists EXCEPT ![l] = list] /\ v.notify = DefaultPrefs
    BY <2>1, <2>2, <2>3, WithActiveType
  <2> QED
    BY <1>2, <1>6, <2>2, <2>4 DEF Follows, Listed
<1>7. CASE p.kind = "rename"
  <2> DEFINE l == p.list
             list == [w.lists[l] EXCEPT !.name = p.name]
  <2>1. l \in Listed(w) /\ v = WithList(w, l, list)
    BY <1>7 DEF Changed
  <2>2. list \in Watchlist /\ list # None /\ list.symbols = w.lists[l].symbols
    BY <1>1, <1>7, <2>1, PartFields, WorkspaceAssumption DEF Watchlist
  <2> HIDE DEF list
  <2>4. l \in Lists /\ w.lists[l] # None
    BY <2>1 DEF Listed
  <2> HIDE DEF l
  <2>5. /\ v \in Workspace /\ v.active = w.active /\ v.symbol = w.symbol
        /\ v.lists = [w.lists EXCEPT ![l] = list] /\ v.notify = DefaultPrefs
    BY <2>1, <2>2, <2>4, WithListType
  <2> QED
    BY <1>1, <1>2, <2>1, <2>2, <2>4, <2>5 DEF Follows, Listed
<1>8. CASE p.kind = "include"
  <2> DEFINE l == p.list
             list == [w.lists[l] EXCEPT !.symbols = @ \cup {p.symbol}]
  <2>1. l \in Listed(w) /\ v = WithList(w, l, list)
    BY <1>8 DEF Changed
  <2>2. list \in Watchlist /\ list # None /\ list.symbols = w.lists[l].symbols \cup {p.symbol}
    BY <1>1, <1>8, <2>1, PartFields, WorkspaceAssumption DEF Watchlist
  <2>3. p = [kind |-> "include", list |-> l, symbol |-> p.symbol]
    BY <1>8 DEF Part
  <2> HIDE DEF list
  <2>4. l \in Lists /\ w.lists[l] # None
    BY <2>1 DEF Listed
  <2>5. p.list = l
    OBVIOUS
  <2> HIDE DEF l
  <2>6. /\ v \in Workspace /\ v.active = w.active /\ v.symbol = w.symbol
        /\ v.lists = [w.lists EXCEPT ![l] = list] /\ v.notify = DefaultPrefs
    BY <2>1, <2>2, <2>4, WithListType
  <2> QED
    BY <1>1, <1>2, <1>8, <2>1, <2>2, <2>3, <2>4, <2>5, <2>6 DEF Follows, Listed
<1>9. CASE p.kind = "exclude"
  <2> DEFINE l == p.list
             list == [w.lists[l] EXCEPT !.symbols = @ \ {p.symbol}]
  <2>1. l \in Listed(w) /\ v = WithList(w, l, list)
    BY <1>9 DEF Changed
  <2>2. list \in Watchlist /\ list # None /\ list.symbols \subseteq w.lists[l].symbols
    BY <1>1, <1>9, <2>1, PartFields, WorkspaceAssumption DEF Watchlist
  <2> HIDE DEF list
  <2>4. l \in Lists /\ w.lists[l] # None
    BY <2>1 DEF Listed
  <2> HIDE DEF l
  <2>5. /\ v \in Workspace /\ v.active = w.active /\ v.symbol = w.symbol
        /\ v.lists = [w.lists EXCEPT ![l] = list] /\ v.notify = DefaultPrefs
    BY <2>1, <2>2, <2>4, WithListType
  <2> QED
    BY <1>1, <1>2, <2>1, <2>2, <2>4, <2>5 DEF Follows, Listed
<1>10. CASE p.kind = "prefs"
  <2>1. v = WithPrefs(w, p)
    BY <1>10 DEF Changed
  <2> QED
    BY <1>10, <2>1, WithPrefsType DEF Follows, Listed
<1>11. CASE p.kind = "remove"
  <2> DEFINE l == p.list
             without == WithList(w, l, None)
  <2>1. v \in Without(w, l) /\ l \in Lists
    BY <1>11, PartFields DEF Changed
  <2>2. /\ without \in Workspace /\ without.active = w.active /\ without.symbol = w.symbol
        /\ without.lists = [w.lists EXCEPT ![l] = None] /\ without.notify = DefaultPrefs
    BY <2>1, WithListType
  <2> HIDE DEF without
  <2>3. \/ v = w
        \/ l # w.active /\ v = without
        \/ \E m \in Listed(w) \ {l} : v = [without EXCEPT !.active = m]
    BY <2>1 DEF Without, without
  <2>4. CASE v = w
    BY <2>4 DEF Follows
  <2>5. CASE l # w.active /\ v = without
    BY <1>1, <1>2, <2>1, <2>2, <2>5 DEF Follows, Listed
  <2>6. CASE \E m \in Listed(w) \ {l} : v = [without EXCEPT !.active = m]
    <3>1. PICK m \in Listed(w) \ {l} : v = [without EXCEPT !.active = m]
      BY <2>6
    <3>2. /\ v \in Workspace /\ v.active = m /\ v.symbol = w.symbol
          /\ v.lists = [w.lists EXCEPT ![l] = None] /\ v.notify = DefaultPrefs
      BY <1>1, <2>2, <3>1 DEF Workspace
    <3> QED
      BY <1>1, <1>2, <3>1, <3>2 DEF Follows, Listed
  <2> QED
    BY <2>3, <2>4, <2>5, <2>6
<1> QED
  BY <1>3, <1>4, <1>5, <1>6, <1>7, <1>8, <1>9, <1>10, <1>11, PartFields

-----------------------------------------------------------------------------
(***************************************************************************)
(* What every step keeps: what was earned stays earned, as long as the     *)
(* process runs.                                                           *)
(***************************************************************************)
Grow == granted \subseteq granted' /\ drawn \subseteq drawn'

Remembers == \A u \in Users : shown[u] \subseteq shown'[u]

LEMMA EntitledGrows ==
  ASSUME Grow
  PROVE  \A u : Entitled(u) \subseteq Entitled(u)' /\ PartsFor(u) \subseteq PartsFor(u)'
<1>1. \A u : Entitled(u) \subseteq Entitled(u)'
  BY DEF Entitled, Grow
<1> QED
  BY <1>1 DEF PartsFor

LEMMA OwnStays ==
  ASSUME Grow
  PROVE  /\ \A u, w : IsOwn(u, w) => IsOwn(u, w)'
         /\ \A u, w : Right(u, w) => Right(u, w)'
<1>1. \A u, w : IsOwn(u, w) => IsOwn(u, w)'
  BY EntitledGrows DEF IsOwn, ListIsOwn, Grow
<1> QED
  BY <1>1 DEF Right, Listed

LEMMA TableStays ==
  ASSUME Grow
  PROVE  \A table : OwnTable(table) => OwnTable(table)'
BY OwnStays DEF OwnTable

LEMMA EarnedStays ==
  ASSUME Grow, Remembers
  PROVE  /\ \A u \in Users : \A n, note : NoteEarned(u, n, note) => NoteEarned(u, n, note)'
         /\ \A u \in Users : \A box : AllEarned(u, box) => AllEarned(u, box)'
<1>1. \A u, op, n : Asked(u, op, n) => Asked(u, op, n)'
  BY EntitledGrows DEF Asked
<1>2. \A u \in Users : \A n, note : NoteEarned(u, n, note) => NoteEarned(u, n, note)'
  BY <1>1, EntitledGrows DEF NoteEarned, Grow, Remembers
<1> QED
  BY <1>2 DEF AllEarned

LEMMA MailsStay ==
  ASSUME Grow, Mails, mailed' = mailed
  PROVE  Mails'
BY EntitledGrows DEF Mails

-----------------------------------------------------------------------------
(***************************************************************************)
(* Requests that a step leaves alone.                                      *)
(***************************************************************************)
Kept(q) ==
  /\ pc'[q] = pc[q] /\ call'[q] = call[q] /\ todo'[q] = todo[q] /\ ws'[q] = ws[q]
  /\ notes'[q] = notes[q] /\ left'[q] = left[q] /\ snap'[q] = snap[q]

LEMMA CallFields ==
  ASSUME NEW c \in Offered
  PROVE  /\ c \in Call
         /\ c.op \in {"workspace", "read", "archive", "delete", "readall", "create", "events",
                      "list", "deliver", "channel"}
         /\ c.op # "channel" => c.user \in Users
         /\ c.op = "workspace" => c.parts \in Seq(Part)
         /\ c.op \in {"read", "archive", "delete"} => c.note \in Notes
         /\ c.op = "create" => c.category \in Categories /\ c.severity \in Severities
         /\ c.op = "events" => c.events \in Seq(Event)
         /\ c.op = "deliver" => /\ c.events \in Seq(Event) /\ c.events # <<>>
                                /\ Len(c.events) = 1
         /\ c.op \in {"deliver", "channel"} => c.channel \in Channels
<1>1. c \in Call
  BY WorkspaceAssumption
<1>2. \A e \in Event : <<e>> \in Seq(Event) /\ <<e>> # <<>> /\ Len(<<e>>) = 1
  OBVIOUS
<1>3. c.op = "deliver" => \E e \in Event : c.events = <<e>>
  BY <1>1 DEF Call
<1> QED
  BY <1>1, <1>2, <1>3 DEF Call

(* A request that does more than set a channel is by one who is entitled.  *)
LEMMA CallUser ==
  ASSUME TypeOK, NEW r \in Requests, Asks(r), pc[r] \notin {"idle", "done", "channel"}
  PROVE  /\ call[r] \in granted /\ call[r] \in Offered /\ call[r].user \in Users
         /\ call[r] \in Entitled(call[r].user)
<1>1. call[r] \in granted /\ call[r] \in Offered
  BY DEF TypeOK, Asks
<1>2. call[r].op # "channel"
  BY DEF Asks, PartsLeft, EventsLeft, TypeOK, Steps
<1>3. call[r] \in Entitled(call[r].user)
  BY <1>1 DEF Asks, Allowed, Entitled
<1> QED
  BY <1>1, <1>2, <1>3, CallFields

LEMMA OthersStay ==
  ASSUME TypeOK, NEW q \in Requests, Local(q), Kept(q), Grow, Remembers
  PROVE  Local(q)'
<1>1. Asks(q)'
  BY DEF Local, Asks, PartsLeft, EventsLeft, Kept, Grow
<1>2. CASE pc[q] \in {"idle", "done", "channel"}
  BY <1>1, <1>2 DEF Local, Holds, Kept
<1>3. CASE pc[q] \notin {"idle", "done", "channel"}
  <2>1. call[q].user \in Users
    BY <1>3, CallUser DEF Local
  <2>2. pc'[q] \in {"change", "open", "write", "replace"} =>
          ws'[q] \in Workspace /\ Right(call[q].user, ws[q])'
    BY OwnStays DEF Local, Holds, Kept
  <2>3. pc'[q] = "write" => snap'[q] \in Table /\ OwnTable(snap[q])'
    BY TableStays DEF Local, Holds, Kept
  <2>4. pc'[q] = "post" => IF ws'[q] = None THEN FirstOf(call'[q].user) = None
                           ELSE ws'[q].notify \in shown'[call'[q].user]
    BY <2>1 DEF Local, Holds, Kept, Remembers
  <2>5. pc'[q] \in {"keep", "mark"} => AllEarned(call[q].user, notes[q])'
    BY <2>1, EarnedStays DEF Local, Holds, Kept
  <2>6. /\ pc'[q] = "keep" => notes'[q][call'[q].note] # None
        /\ pc'[q] = "mark" => \A n \in left'[q] : notes'[q][n] # None
    BY DEF Local, Holds, Kept
  <2>7. Holds(q)'
    BY <2>2, <2>3, <2>4, <2>5, <2>6 DEF Holds
  <2> QED
    BY <1>1, <2>7 DEF Local
<1> QED
  BY <1>2, <1>3

-----------------------------------------------------------------------------
(***************************************************************************)
(* The steps of a request.                                                 *)
(***************************************************************************)
Global == Memory /\ Files /\ Inboxes /\ Mails

Replies == {"ok", "refused", "failed", "missing", "undelivered"}

LEMMA MemoryStays ==
  ASSUME Grow, Remembers, Memory, mem' = mem
  PROVE  Memory'
<1>1. OwnTable(mem)'
  BY TableStays DEF Memory
<1> QED
  BY <1>1 DEF Memory, Remembers, Listed

LEMMA FilesStay ==
  ASSUME Grow, Files, disk' = disk, temp' = temp
  PROVE  Files'
BY TableStays DEF Files

LEMMA InboxesStay ==
  ASSUME Grow, Remembers, Inboxes, inbox' = inbox
  PROVE  Inboxes'
BY EarnedStays DEF Inboxes

LEMMA GotoType ==
  ASSUME TypeOK, NEW r \in Requests, NEW step \in Steps, Goto(r, step)
  PROVE  pc' \in [Requests -> Steps] /\ pc'[r] = step
BY DEF TypeOK, Goto

LEMMA AnswerType ==
  ASSUME TypeOK, NEW r \in Requests, NEW what \in Replies, Answer(r, what)
  PROVE  /\ pc' \in [Requests -> Steps] /\ reply' \in [Requests -> Replies \cup {None}]
         /\ pc'[r] = "done"
BY DEF TypeOK, Answer, Goto, Replies, Steps

LEMMA ContinueType ==
  ASSUME TypeOK, NEW r \in Requests, NEW op, NEW rest, Continue(r, op, rest)
  PROVE  /\ pc' \in [Requests -> Steps] /\ reply' \in [Requests -> Replies \cup {None}]
         /\ rest = <<>> => pc'[r] = IF op = "deliver" THEN "mail" ELSE "done"
         /\ rest # <<>> => pc'[r] = IF op = "workspace" THEN "fetch" ELSE "prefs"
<1>1. CASE rest = <<>> /\ op = "deliver"
  BY <1>1, GotoType DEF Continue, TypeOK, Replies, Steps
<1>2. CASE rest = <<>> /\ op # "deliver"
  BY <1>2, AnswerType DEF Continue, Replies
<1>3. CASE rest # <<>>
  BY <1>3, GotoType DEF Continue, TypeOK, Replies, Steps
<1> QED
  BY <1>1, <1>2, <1>3

LEMMA DoneLocal ==
  ASSUME NEW r \in Requests, pc'[r] \in {"idle", "done"}
  PROVE  Local(r)'
BY DEF Local, Asks, Holds

(* A request is refused, or gets to the step its call names.               *)
LEMMA StartType ==
  ASSUME TypeOK, NEW r \in Requests, NEW c \in Offered, Start(r, c)
  PROVE  TypeOK' /\ Local(r)' /\ Grow /\ Remembers
<1>1. /\ call' = [call EXCEPT ![r] = c] /\ todo' = [todo EXCEPT ![r] = Parts(c)]
      /\ UNCHANGED <<up, store, inbox, ws, notes, left, bounds, drawn>>
  BY DEF Start
<1>2. granted' \in {granted, granted \cup {c}}
  BY DEF Start
<1>3. Parts(c) \in Seq(Part) \/ Parts(c) \in Seq(Event)
  BY CallFields DEF Parts
<1>4. /\ Parts(c) = <<>> => c.op # "deliver"
      /\ c.op = "workspace" => Parts(c) = c.parts /\ Parts(c) \in Seq(Part)
      /\ c.op \in {"events", "deliver"} => Parts(c) = c.events /\ Parts(c) \in Seq(Event)
  BY CallFields DEF Parts
<1>5. /\ pc' \in [Requests -> Steps] /\ reply' \in [Requests -> Replies \cup {None}]
      /\ \/ pc'[r] = "done"
         \/ /\ granted' = granted \cup {c} /\ Allowed(c)
            /\ \/ pc'[r] = "fetch" /\ c.op = "workspace" /\ Parts(c) # <<>>
               \/ pc'[r] = "prefs" /\ c.op = "events" /\ Parts(c) # <<>>
               \/ pc'[r] = c.op /\ c.op \in {"read", "archive", "delete", "readall", "create",
                                            "list", "deliver", "channel"}
  <2>1. CASE ~Allowed(c)
    <3>1. Answer(r, "refused")
      BY <2>1 DEF Start
    <3> QED
      BY <3>1, AnswerType DEF Replies
  <2>2. CASE Allowed(c) /\ c.op \in {"workspace", "events"}
    <3>1. Continue(r, c.op, Parts(c)) /\ granted' = granted \cup {c}
      BY <2>2 DEF Start
    <3> QED
      BY <2>2, <3>1, ContinueType
  <2>3. CASE Allowed(c) /\ c.op \notin {"workspace", "events"}
    <3>1. Goto(r, c.op) /\ reply' = reply /\ granted' = granted \cup {c}
      BY <2>3 DEF Start
    <3>2. c.op \in {"read", "archive", "delete", "readall", "create", "list", "deliver", "channel"}
      BY <2>3, CallFields
    <3>3. c.op \in Steps
      BY <3>2 DEF Steps
    <3> QED
      BY <2>3, <3>1, <3>2, <3>3, GotoType DEF TypeOK, Replies
  <2> QED
    BY <2>1, <2>2, <2>3
<1>6. TypeOK'
  BY <1>1, <1>2, <1>3, <1>5 DEF TypeOK, store, bounds, Replies
<1>7. call'[r] = c /\ todo'[r] = Parts(c)
  BY <1>1 DEF TypeOK
<1>8. Asks(r)'
  <2>1. CASE pc'[r] = "fetch" /\ c.op = "workspace" /\ Parts(c) # <<>>
    BY <1>4, <1>5, <1>7, <2>1 DEF Asks, PartsLeft, In
  <2>2. CASE pc'[r] \in {"prefs", "deliver"} /\ c.op \in {"events", "deliver"} /\ Parts(c) # <<>>
    BY <1>4, <1>5, <1>7, <2>2 DEF Asks, EventsLeft, In
  <2>3. CASE pc'[r] = c.op /\ c.op \in {"read", "archive", "delete", "readall", "create", "list",
                                       "channel"}
    BY <1>5, <1>7, <2>3 DEF Asks
  <2>4. CASE pc'[r] = "done"
    BY <2>4 DEF Asks
  <2> QED
    BY <1>4, <1>5, <2>1, <2>2, <2>3, <2>4
<1>9. Holds(r)'
  BY <1>5 DEF Holds
<1>10. Grow /\ Remembers
  BY <1>1, <1>2 DEF Grow, Remembers, store
<1> QED
  BY <1>6, <1>8, <1>9, <1>10 DEF Local

LEMMA RememberType ==
  ASSUME TypeOK, NEW r \in Requests, NEW u \in Users, NEW w \in Workspace, Remember(r, u, w),
         Grow, Memory, Right(u, w)'
  PROVE  /\ mem' \in Table /\ shown' \in [Users -> SUBSET Prefs]
         /\ ws' \in [Requests -> Workspace \cup {None}] /\ pc' \in [Requests -> Steps]
         /\ pc'[r] = "open" /\ ws'[r] = w /\ Remembers /\ Memory'
<1>1. /\ mem' = [mem EXCEPT ![u] = w] /\ shown' = [shown EXCEPT ![u] = @ \cup {w.notify}]
      /\ ws' = [ws EXCEPT ![r] = w] /\ Goto(r, "open")
  BY DEF Remember
<1>2. w.notify \in Prefs /\ w # None
  BY WorkspaceAssumption DEF Workspace
<1>3. mem' \in Table /\ shown' \in [Users -> SUBSET Prefs] /\ Remembers
  BY <1>1, <1>2 DEF TypeOK, Table, Remembers
<1>4. /\ ws' \in [Requests -> Workspace \cup {None}] /\ ws'[r] = w
      /\ pc' \in [Requests -> Steps] /\ pc'[r] = "open"
  BY <1>1, GotoType DEF TypeOK, Steps
<1>5. /\ mem'[u] = w /\ \A v \in Users \ {u} : mem'[v] = mem[v]
      /\ w.notify \in shown'[u] /\ \A v \in Users : shown[v] \subseteq shown'[v]
  BY <1>1, <1>3 DEF TypeOK, Table, Remembers
<1>6. OwnTable(mem)'
  <2> SUFFICES ASSUME NEW v \in Users
               PROVE  /\ mem'[v] = None => FirstOf(v) = None
                      /\ mem'[v] # None => IsOwn(v, mem[v])'
    BY DEF OwnTable
  <2>1. CASE v = u
    BY <1>2, <1>5, <2>1 DEF Right
  <2>2. CASE v # u
    BY <1>5, <2>2, OwnStays DEF Memory, OwnTable
  <2> QED
    BY <2>1, <2>2
<1>7. Memory'
  <2> SUFFICES ASSUME NEW v \in Users, mem'[v] # None
               PROVE  mem'[v].active \in Listed(mem'[v]) /\ mem'[v].notify \in shown'[v]
    BY <1>6 DEF Memory, Listed
  <2>1. CASE v = u
    BY <1>5, <2>1 DEF Right, Listed
  <2>2. CASE v # u
    BY <1>5, <2>2 DEF Memory
  <2> QED
    BY <2>1, <2>2
<1> QED
  BY <1>3, <1>4, <1>7

LEMMA DefaultRight ==
  ASSUME NEW u
  PROVE  Right(u, DefaultWorkspace)
<1>1. DefaultWorkspace.active \in Listed(DefaultWorkspace)
  BY DefaultsType DEF DefaultWorkspace
<1>2. DefaultWorkspace.lists[DefaultList] = DefaultWatchlist
  BY WorkspaceAssumption DEF DefaultWorkspace, OnlyDefault
<1>3. ListIsOwn(u, DefaultList, DefaultWatchlist)
  BY DEF ListIsOwn, DefaultWatchlist
<1>4. DefaultWorkspace.symbol = DefaultSymbol /\ DefaultWorkspace.notify = DefaultPrefs
  BY DEF DefaultWorkspace
<1> QED
  BY <1>1, <1>2, <1>3, <1>4, DefaultsType DEF Right, IsOwn

(* What only the workspace's own map is about.                             *)
Elsewhere == UNCHANGED <<up, inbox, disk, temp, snap, fd, bounds>>

LEMMA FetchStep ==
  ASSUME TypeOK, NEW r \in Requests, Local(r), Memory, Fetch(r)
  PROVE  TypeOK' /\ Local(r)' /\ Grow /\ Remembers /\ Memory' /\ Elsewhere
<1>1. /\ pc[r] = "fetch" /\ UNCHANGED <<mem, shown, call, todo, notes, left, reply, granted, drawn>>
      /\ Elsewhere
  BY DEF Fetch, Elsewhere, store
<1>2. PartsLeft(r) /\ todo[r] # <<>> /\ call[r] \in granted /\ Allowed(call[r]) /\ call[r].user \in Users
  BY <1>1, CallUser DEF Local, Asks
<1>3. Grow /\ Remembers
  BY <1>1 DEF Grow, Remembers
<1>4. Memory'
  BY <1>1, <1>3, MemoryStays
<1> PICK u \in Users : u = call[r].user
  BY <1>2
<1>5. /\ ws' \in [Requests -> Workspace \cup {None}] /\ pc' \in [Requests -> Steps]
      /\ \/ pc'[r] = "make"
         \/ pc'[r] = "change" /\ ws'[r] \in Workspace /\ Right(u, ws[r])'
  <2>1. CASE mem[u] = None
    <3>1. Goto(r, "make") /\ ws' = ws
      BY <2>1 DEF Fetch
    <3> QED
      BY <3>1, GotoType DEF TypeOK, Steps
  <2>2. CASE mem[u] # None
    <3>1. ws' = [ws EXCEPT ![r] = mem[u]] /\ Goto(r, "change")
      BY <2>2 DEF Fetch
    <3>2. mem[u] \in Workspace /\ Right(u, mem[u])
      BY <1>2, <2>2 DEF TypeOK, Table, Memory, OwnTable, Right
    <3>3. /\ ws' \in [Requests -> Workspace \cup {None}] /\ pc' \in [Requests -> Steps]
          /\ pc'[r] = "change" /\ ws'[r] = mem[u]
      BY <3>1, <3>2, GotoType DEF TypeOK, Steps
    <3> QED
      BY <1>3, <3>2, <3>3, OwnStays
  <2> QED
    BY <2>1, <2>2
<1>6. TypeOK'
  BY <1>1, <1>5 DEF TypeOK, Elsewhere, bounds
<1>7. Asks(r)'
  BY <1>1, <1>2, <1>5 DEF Asks, PartsLeft, Allowed
<1>8. Holds(r)'
  BY <1>1, <1>5 DEF Holds
<1> QED
  BY <1>1, <1>3, <1>4, <1>6, <1>7, <1>8 DEF Local

LEMMA MakeStep ==
  ASSUME TypeOK, NEW r \in Requests, Local(r), Memory, Make(r)
  PROVE  TypeOK' /\ Local(r)' /\ Grow /\ Remembers /\ Memory' /\ Elsewhere
<1>1. /\ pc[r] = "make" /\ UNCHANGED <<inbox, disk, temp, call, todo, notes, left, reply, granted, drawn>>
      /\ Elsewhere
  BY DEF Make, Elsewhere
<1>2. PartsLeft(r) /\ todo[r] # <<>> /\ call[r] \in granted /\ Allowed(call[r]) /\ call[r].user \in Users
  BY <1>1, CallUser DEF Local, Asks
<1>3. Grow
  BY <1>1 DEF Grow
<1> PICK u \in Users : u = call[r].user
  BY <1>2
<1>4. Remember(r, u, DefaultWorkspace)
  BY DEF Make
<1>5. Right(u, DefaultWorkspace)'
  BY <1>3, DefaultRight, OwnStays
<1>6. /\ mem' \in Table /\ shown' \in [Users -> SUBSET Prefs]
      /\ ws' \in [Requests -> Workspace \cup {None}] /\ pc' \in [Requests -> Steps]
      /\ pc'[r] = "open" /\ ws'[r] = DefaultWorkspace /\ Remembers /\ Memory'
  BY <1>3, <1>4, <1>5, DefaultsType, RememberType
<1>7. TypeOK'
  BY <1>1, <1>6 DEF TypeOK, Elsewhere, bounds
<1>8. Asks(r)'
  BY <1>1, <1>2, <1>6 DEF Asks, PartsLeft, Allowed
<1>9. Holds(r)'
  BY <1>1, <1>5, <1>6, DefaultsType DEF Holds
<1> QED
  BY <1>1, <1>3, <1>6, <1>7, <1>8, <1>9 DEF Local

(* The first part that is left was asked for by one who is entitled.       *)
LEMMA PartAsked ==
  ASSUME TypeOK, NEW r \in Requests, Asks(r), pc[r] \in {"fetch", "change"}
  PROVE  /\ Head(todo[r]) \in Part /\ Head(todo[r]) \in PartsFor(call[r].user)
         /\ Tail(todo[r]) \in Seq(Part)
         /\ \A i \in 1..Len(Tail(todo[r])) : In(Tail(todo[r])[i], call[r].parts)
<1>1. PartsLeft(r) /\ todo[r] # <<>> /\ call[r] \in Entitled(call[r].user)
  BY CallUser DEF Asks
<1>2. todo[r] \in Seq(Part) /\ \A i \in 1..Len(todo[r]) : In(todo[r][i], call[r].parts)
  BY <1>1 DEF PartsLeft
<1>3. /\ Head(todo[r]) = todo[r][1] /\ 1 \in 1..Len(todo[r]) /\ Head(todo[r]) \in Part
      /\ Tail(todo[r]) \in Seq(Part) /\ Len(Tail(todo[r])) = Len(todo[r]) - 1
      /\ \A i \in 1..Len(Tail(todo[r])) : Tail(todo[r])[i] = todo[r][i + 1]
  BY <1>1, <1>2
<1>4. In(Head(todo[r]), call[r].parts) /\ call[r].op = "workspace"
  BY <1>1, <1>2, <1>3 DEF PartsLeft
<1>5. Head(todo[r]) \in PartsFor(call[r].user)
  BY <1>1, <1>4 DEF PartsFor, In
<1>6. \A i \in 1..Len(Tail(todo[r])) : i + 1 \in 1..Len(todo[r])
  BY <1>2, <1>3
<1> QED
  BY <1>2, <1>3, <1>5, <1>6

LEMMA ChangedRight ==
  ASSUME Grow, NEW u \in Users, NEW w \in Workspace, Right(u, w), NEW p \in Part,
         p \in PartsFor(u), NEW v \in Changed(w, p),
         p.kind = "add" => [id |-> v.active, user |-> u] \in drawn'
  PROVE  v \in Workspace /\ Right(u, v)'
<1>1. Follows(w, p, v)
  BY ChangedFollows DEF Right
<1>2. IsOwn(u, w)' /\ p \in PartsFor(u)'
  BY OwnStays, EntitledGrows DEF Right
<1>3. \/ v.symbol = DefaultSymbol
      \/ FirstOf(u) # None /\ v.symbol = FirstOf(u).symbol
      \/ [kind |-> "symbol", symbol |-> v.symbol] \in PartsFor(u)'
  BY <1>1, <1>2 DEF Follows, IsOwn
<1>4. \/ v.notify = DefaultPrefs
      \/ FirstOf(u) # None /\ v.notify = FirstOf(u).notify
      \/ \E q \in PartsFor(u)' : q.kind = "prefs" /\ q.notify = v.notify
  BY <1>1, <1>2 DEF Follows, IsOwn
<1>5. ASSUME NEW l \in Listed(v)
      PROVE  ListIsOwn(u, l, v.lists[l])'
  <2>1. CASE l \in Listed(w) /\ v.lists[l].symbols \subseteq w.lists[l].symbols
    BY <1>2, <2>1 DEF IsOwn, ListIsOwn
  <2>2. CASE p.kind = "add" /\ l = v.active /\ v.lists[l].symbols = p.symbols
    BY <1>2, <2>2 DEF ListIsOwn
  <2>3. CASE /\ l \in Listed(w)
             /\ p = [kind |-> "include", list |-> l, symbol |-> p.symbol]
             /\ v.lists[l].symbols \subseteq w.lists[l].symbols \cup {p.symbol}
    BY <1>2, <2>3 DEF IsOwn, ListIsOwn
  <2> QED
    BY <1>1, <2>1, <2>2, <2>3 DEF Follows
<1>6. IsOwn(u, v)'
  BY <1>3, <1>4, <1>5 DEF IsOwn, Listed
<1> QED
  BY <1>1, <1>6 DEF Follows, Right, Listed

LEMMA ChangeStep ==
  ASSUME TypeOK, NEW r \in Requests, Local(r), Memory, Change(r)
  PROVE  TypeOK' /\ Local(r)' /\ Grow /\ Remembers /\ Memory' /\ Elsewhere
<1> DEFINE p == Head(todo[r])
           rest == Tail(todo[r])
<1>1. /\ pc[r] = "change" /\ UNCHANGED <<inbox, disk, temp, call, notes, left, granted>> /\ Elsewhere
      /\ todo' = [todo EXCEPT ![r] = Tail(@)]
  BY DEF Change, Elsewhere
<1>2. /\ PartsLeft(r) /\ todo[r] # <<>> /\ call[r] \in granted /\ Allowed(call[r])
      /\ call[r].user \in Users
  BY <1>1, CallUser DEF Local, Asks
<1>3. /\ p \in Part /\ p \in PartsFor(call[r].user) /\ Tail(todo[r]) \in Seq(Part)
      /\ \A i \in 1..Len(Tail(todo[r])) : In(Tail(todo[r])[i], call[r].parts)
  BY <1>1, PartAsked DEF Local
<1>4. ws[r] \in Workspace /\ Right(call[r].user, ws[r])
  BY <1>1 DEF Local, Holds
<1> PICK u \in Users : u = call[r].user
  BY <1>2
<1>5. /\ pc' \in [Requests -> Steps] /\ reply' \in [Requests -> Replies \cup {None}]
      /\ mem' \in Table /\ shown' \in [Users -> SUBSET Prefs]
      /\ ws' \in [Requests -> Workspace \cup {None}]
      /\ drawn' \subseteq [id : Lists \cup Notes, user : Users]
      /\ pc'[r] \in {"done", "fetch", "open"} /\ Grow /\ Remembers /\ Memory'
      /\ pc'[r] = "fetch" => Tail(todo[r]) # <<>>
      /\ pc'[r] = "open" => ws'[r] \in Workspace /\ Right(u, ws[r])'
  <2>1. CASE p.kind = "get"
    <3>1. Continue(r, "workspace", Tail(todo[r])) /\ UNCHANGED <<mem, shown, ws, drawn>>
      BY <2>1 DEF Change
    <3>2. Grow /\ Remembers
      BY <1>1, <3>1 DEF Grow, Remembers
    <3>3. Memory'
      BY <3>1, <3>2, MemoryStays
    <3>4. /\ pc' \in [Requests -> Steps] /\ reply' \in [Requests -> Replies \cup {None}]
          /\ pc'[r] \in {"done", "fetch"} /\ (pc'[r] = "fetch" => rest # <<>>)
      <4>1. Continue(r, "workspace", rest)
        BY <3>1
      <4> HIDE DEF p, rest
      <4> QED
        BY <4>1, ContinueType
    <3> QED
      BY <3>1, <3>2, <3>3, <3>4 DEF TypeOK
  <2>2. CASE Answer(r, "failed") /\ UNCHANGED <<mem, shown, ws, drawn>>
    <3>1. Grow /\ Remembers
      BY <1>1, <2>2 DEF Grow, Remembers
    <3>2. Memory'
      BY <2>2, <3>1, MemoryStays
    <3> QED
      BY <2>2, <3>1, <3>2, AnswerType DEF TypeOK, Replies
  <2>3. CASE \E w \in Changed(ws[r], p) :
               /\ Remember(r, u, w) /\ reply' = reply
               /\ drawn' = IF p.kind = "add" THEN drawn \cup {[id |-> w.active, user |-> u]}
                           ELSE drawn
    <3>1. PICK w \in Changed(ws[r], p) :
               /\ Remember(r, u, w) /\ reply' = reply
               /\ drawn' = IF p.kind = "add" THEN drawn \cup {[id |-> w.active, user |-> u]}
                           ELSE drawn
      BY <2>3
    <3>2. Grow
      BY <1>1, <3>1 DEF Grow
    <3> HIDE DEF p
    <3>3. w \in Workspace /\ Right(u, w)'
      BY <1>3, <1>4, <3>1, <3>2, ChangedRight
    <3>4. drawn' \subseteq [id : Lists \cup Notes, user : Users]
      BY <3>1, <3>3 DEF TypeOK, Workspace
    <3>5. /\ mem' \in Table /\ shown' \in [Users -> SUBSET Prefs]
          /\ ws' \in [Requests -> Workspace \cup {None}] /\ pc' \in [Requests -> Steps]
          /\ pc'[r] = "open" /\ ws'[r] = w /\ Remembers /\ Memory'
      BY <3>1, <3>2, <3>3, RememberType
    <3> QED
      BY <3>1, <3>2, <3>3, <3>4, <3>5 DEF TypeOK, Replies
  <2> QED
    BY <2>1, <2>2, <2>3 DEF Change
<1> HIDE DEF p
<1>6. /\ DOMAIN todo' = Requests /\ todo'[r] = Tail(todo[r])
      /\ \A q \in Requests : todo'[q] \in Seq(Part) \/ todo'[q] \in Seq(Event)
  BY <1>1, <1>3 DEF TypeOK
<1>7. TypeOK'
  BY <1>1, <1>5, <1>6 DEF TypeOK, Elsewhere, bounds, Replies
<1>8. Asks(r)'
  BY <1>1, <1>2, <1>3, <1>5, <1>6 DEF Asks, PartsLeft, Allowed
<1>9. Holds(r)'
  BY <1>1, <1>5 DEF Holds
<1> QED
  BY <1>1, <1>5, <1>7, <1>8, <1>9 DEF Local

(* What the files and the threads that write them are about.               *)
Aside == UNCHANGED <<up, mem, shown, inbox, call, todo, ws, notes, left, granted, drawn>>

LEMMA AsideKeeps ==
  ASSUME TypeOK, Aside, Memory
  PROVE  Grow /\ Remembers /\ Memory'
<1>1. Grow /\ Remembers /\ mem' = mem
  BY DEF Aside, Grow, Remembers
<1> QED
  BY <1>1, MemoryStays

LEMMA OpenTempStep ==
  ASSUME TypeOK, NEW r \in Requests, Local(r), Memory, Files, OpenTemp(r)
  PROVE  TypeOK' /\ Local(r)' /\ Aside /\ Files' /\ UNCHANGED bounds
<1>1. /\ pc[r] = "open" /\ UNCHANGED <<disk, reply, bounds>> /\ Aside
      /\ temp' = Empty /\ snap' = [snap EXCEPT ![r] = mem] /\ fd' = [fd EXCEPT ![r] = "temp"]
  BY DEF OpenTemp, Aside
<1>2. pc' \in [Requests -> Steps] /\ pc'[r] = "write"
  BY GotoType DEF OpenTemp, Steps
<1>3. Grow /\ Remembers
  BY <1>1, AsideKeeps
<1>4. snap' \in [Requests -> Table \cup {None}] /\ snap'[r] = mem /\ mem \in Table
  BY <1>1 DEF TypeOK
<1>5. TypeOK'
  BY <1>1, <1>2, <1>4 DEF TypeOK, Aside, bounds
<1>6. Asks(r)'
  BY <1>1, <1>2 DEF Local, Asks, PartsLeft, Aside, Allowed
<1>7. Holds(r)'
  <2>1. ws'[r] \in Workspace /\ Right(call[r].user, ws[r])'
    BY <1>1, <1>3, OwnStays DEF Local, Holds, Aside
  <2>2. OwnTable(snap[r])'
    BY <1>3, <1>4, TableStays DEF Memory
  <2> QED
    BY <1>2, <1>4, <2>1, <2>2 DEF Holds
<1>8. Files'
  BY <1>1, <1>3, TableStays DEF Files
<1> QED
  BY <1>1, <1>5, <1>6, <1>7, <1>8 DEF Local

(* A file that one thread has written over another's holds a whole table,  *)
(* or cannot be parsed.                                                    *)
LEMMA WriteTempStep ==
  ASSUME TypeOK, NEW r \in Requests, Local(r), Memory, Files, WriteTemp(r)
  PROVE  TypeOK' /\ Local(r)' /\ Aside /\ Files' /\ UNCHANGED bounds
<1>1. /\ pc[r] = "write" /\ UNCHANGED <<snap, fd, reply, bounds>> /\ Aside
  BY DEF WriteTemp, Aside
<1>2. pc' \in [Requests -> Steps] /\ pc'[r] = "replace"
  BY GotoType DEF WriteTemp, Steps
<1>3. Grow /\ Remembers
  BY <1>1, AsideKeeps
<1>4. /\ snap[r] \in Table /\ snap[r] # None /\ OwnTable(snap[r])
  BY <1>1, WorkspaceAssumption DEF Local, Holds
<1>5. temp' \in {temp, snap[r], Torn} /\ disk' \in {disk, snap[r], Torn}
  BY DEF WriteTemp, Overwritten
<1>6. TypeOK'
  BY <1>1, <1>2, <1>4, <1>5 DEF TypeOK, Aside, bounds
<1>7. Asks(r)'
  BY <1>1, <1>2 DEF Local, Asks, PartsLeft, Aside, Allowed
<1>8. Holds(r)'
  <2>1. ws'[r] \in Workspace /\ Right(call[r].user, ws[r])'
    BY <1>1, <1>3, OwnStays DEF Local, Holds, Aside
  <2> QED
    BY <1>2, <2>1 DEF Holds
<1>9. Files'
  <2>1. disk' = None => InitialFile = None
    BY <1>4, <1>5, WorkspaceAssumption DEF Files
  <2>2. disk' \notin {None, Empty, Torn} => OwnTable(disk)'
    BY <1>3, <1>4, <1>5, TableStays DEF Files
  <2>3. temp' \notin {None, Empty, Torn} => OwnTable(temp)'
    BY <1>3, <1>4, <1>5, TableStays DEF Files
  <2> QED
    BY <2>1, <2>2, <2>3 DEF Files
<1> QED
  BY <1>1, <1>6, <1>7, <1>8, <1>9 DEF Local

LEMMA ReplaceStep ==
  ASSUME TypeOK, NEW r \in Requests, Local(r), Memory, Files, Replace(r)
  PROVE  TypeOK' /\ Local(r)' /\ Aside /\ Files' /\ UNCHANGED bounds
<1>1. /\ pc[r] = "replace" /\ UNCHANGED <<snap, bounds>> /\ Aside
  BY DEF Replace, Aside
<1>2. PartsLeft(r) /\ call[r] \in granted /\ Allowed(call[r]) /\ call[r].parts \in Seq(Part)
  BY <1>1, CallUser, CallFields DEF Local, Asks, PartsLeft
<1>3. Grow /\ Remembers
  BY <1>1, AsideKeeps
<1>4. fd' \in [Requests -> {"temp", "disk", None}]
  BY DEF Replace, TypeOK
<1>5. /\ pc' \in [Requests -> Steps] /\ reply' \in [Requests -> Replies \cup {None}]
      /\ \/ pc'[r] = "done"
         \/ pc'[r] \in {"change", "fetch"} /\ todo[r] # <<>>
  <2>1. CASE temp = None
    <3>1. Answer(r, "failed")
      BY <2>1 DEF Replace
    <3> QED
      BY <3>1, AnswerType DEF Replies
  <2>2. CASE temp # None /\ Len(todo[r]) = Len(call[r].parts)
    <3>1. Goto(r, "change") /\ reply' = reply
      BY <2>2 DEF Replace, AfterSave
    <3>2. todo[r] # <<>>
      BY <1>2, <2>2 DEF PartsLeft
    <3> QED
      BY <3>1, <3>2, GotoType DEF TypeOK, Replies, Steps
  <2>3. CASE temp # None /\ Len(todo[r]) # Len(call[r].parts)
    <3>1. Continue(r, "workspace", todo[r])
      BY <2>3 DEF Replace, AfterSave
    <3> QED
      BY <3>1, ContinueType
  <2> QED
    BY <2>1, <2>2, <2>3
<1>6. /\ temp' \in {temp, None} /\ disk' \in {disk, temp}
      /\ disk' = disk \/ temp # None
  BY DEF Replace
<1>7. TypeOK'
  BY <1>1, <1>4, <1>5, <1>6 DEF TypeOK, Aside, bounds, Replies
<1>8. Asks(r)'
  BY <1>1, <1>2, <1>5 DEF Asks, PartsLeft, Aside, Allowed
<1>9. Holds(r)'
  <2>1. ws'[r] \in Workspace /\ Right(call[r].user, ws[r])'
    BY <1>1, <1>3, OwnStays DEF Local, Holds, Aside
  <2> QED
    BY <1>5, <2>1 DEF Holds
<1>10. Files'
  <2>1. disk' = None => InitialFile = None
    BY <1>6 DEF Files
  <2>2. disk' \notin {None, Empty, Torn} => OwnTable(disk)'
    BY <1>3, <1>6, TableStays DEF Files
  <2>3. temp' \notin {None, Empty, Torn} => OwnTable(temp)'
    BY <1>3, <1>6, TableStays DEF Files
  <2> QED
    BY <2>1, <2>2, <2>3 DEF Files
<1> QED
  BY <1>1, <1>7, <1>8, <1>9, <1>10 DEF Local

LEMMA SaveFailsStep ==
  ASSUME TypeOK, NEW r \in Requests, Local(r), Memory, Files, SaveFails(r)
  PROVE  TypeOK' /\ Local(r)' /\ Aside /\ Files' /\ mailed' = mailed
<1>1. /\ UNCHANGED <<disk, temp, snap, crashes, disabled, mailed>> /\ Aside
      /\ Answer(r, "failed") /\ fd' = [fd EXCEPT ![r] = None] /\ faults < MaxFaults
      /\ faults' = faults + 1
  BY DEF SaveFails, Aside
<1>2. Grow /\ Remembers
  BY <1>1, AsideKeeps
<1>3. /\ pc' \in [Requests -> Steps] /\ reply' \in [Requests -> Replies \cup {None}]
      /\ pc'[r] = "done"
  BY <1>1, AnswerType DEF Replies
<1>4. faults' \in 0..MaxFaults
  BY <1>1, WorkspaceAssumption DEF TypeOK
<1>5. TypeOK'
  BY <1>1, <1>3, <1>4 DEF TypeOK, Aside, Replies
<1>6. Files'
  BY <1>1, <1>2, FilesStay
<1> QED
  BY <1>1, <1>3, <1>5, <1>6, DoneLocal

-----------------------------------------------------------------------------
(***************************************************************************)
(* The steps of notifications: an inbox gets what was earned.              *)
(***************************************************************************)
LEMMA KeepEarned ==
  ASSUME TypeOK, NEW u \in Users, NEW n \in Notes, NEW note \in Note \cup {None},
         Keep(u, n, note), Grow, Remembers, Inboxes, note # None => NoteEarned(u, n, note)'
  PROVE  inbox' \in [Users -> [Notes -> Note \cup {None}]] /\ Inboxes'
<1>1. inbox' = [inbox EXCEPT ![u][n] = note]
  BY DEF Keep
<1>2. inbox' \in [Users -> [Notes -> Note \cup {None}]]
  BY <1>1 DEF TypeOK
<1>3. /\ inbox'[u][n] = note /\ \A m \in Notes \ {n} : inbox'[u][m] = inbox[u][m]
      /\ \A v \in Users \ {u} : inbox'[v] = inbox[v]
  BY <1>1 DEF TypeOK
<1>4. ASSUME NEW v \in Users, NEW m \in Notes, inbox'[v][m] # None
      PROVE  NoteEarned(v, m, inbox[v][m])'
  <2>1. CASE v = u /\ m = n
    BY <1>3, <1>4, <2>1
  <2>2. CASE ~(v = u /\ m = n)
    <3>1. inbox'[v][m] = inbox[v][m]
      BY <1>3, <2>2
    <3>2. NoteEarned(v, m, inbox[v][m])
      BY <1>4, <3>1 DEF Inboxes, AllEarned
    <3> QED
      BY <3>1, <3>2, EarnedStays
  <2> QED
    BY <2>1, <2>2
<1> QED
  BY <1>2, <1>4 DEF Inboxes, AllEarned

LEMMA MarkedEarned ==
  ASSUME NEW u, NEW n, NEW note \in Note, NoteEarned(u, n, note), NEW op,
         IF op = "archive" THEN Asked(u, "archive", n)
                           ELSE Asked(u, "read", n) \/ Asked(u, "readall", n)
  PROVE  Marked(op, note) \in Note /\ NoteEarned(u, n, Marked(op, note))
<1>1. /\ Marked(op, note) \in Note /\ Marked(op, note).category = note.category
      /\ Marked(op, note).severity = note.severity
      /\ op = "archive" => Marked(op, note).read = note.read
      /\ op # "archive" => Marked(op, note).archived = note.archived
  BY DEF Marked, Note
<1> HIDE DEF Marked
<1> QED
  BY <1>1 DEF NoteEarned, Passes

(* What the notifications' steps leave alone.                              *)
Apart == UNCHANGED <<up, store, call, granted>>

LEMMA ApartKeeps ==
  ASSUME TypeOK, Apart, drawn \subseteq drawn', Memory, Files
  PROVE  Grow /\ Remembers /\ Memory' /\ Files'
<1>1. Grow /\ Remembers /\ mem' = mem /\ disk' = disk /\ temp' = temp
  BY DEF Apart, store, Grow, Remembers
<1> QED
  BY <1>1, MemoryStays, FilesStay

LEMMA LookStep ==
  ASSUME TypeOK, NEW r \in Requests, Local(r), Memory, Files, Inboxes, Look(r)
  PROVE  TypeOK' /\ Local(r)' /\ Apart /\ Inboxes' /\ UNCHANGED <<drawn, bounds>>
<1>1. /\ pc[r] \in {"read", "archive", "delete"}
      /\ UNCHANGED <<inbox, todo, ws, left, bounds, drawn>> /\ Apart
  BY DEF Look, Apart
<1>2. /\ call[r] \in granted /\ Allowed(call[r]) /\ call[r].op = pc[r]
      /\ call[r].user \in Users /\ call[r].note \in Notes
  BY <1>1, CallUser, CallFields DEF Local, Asks
<1>3. Grow /\ Remembers
  BY <1>1, ApartKeeps DEF Apart, store, Grow, Remembers
<1>4. Inboxes'
  BY <1>1, <1>3, InboxesStay
<1>5. CASE Answer(r, "missing") /\ notes' = notes
  <2>1. TypeOK'
    BY <1>1, <1>5, AnswerType DEF TypeOK, Apart, store, bounds, Replies
  <2> QED
    BY <1>1, <1>4, <1>5, <2>1, AnswerType, DoneLocal DEF Replies
<1>6. CASE /\ inbox[call[r].user][call[r].note] # None
           /\ notes' = [notes EXCEPT ![r] = inbox[call[r].user]]
           /\ Goto(r, "keep") /\ reply' = reply
  <2>1. pc' \in [Requests -> Steps] /\ pc'[r] = "keep"
    BY <1>6, GotoType DEF Steps
  <2>2. /\ notes' \in [Requests -> [Notes -> Note \cup {None}]]
        /\ notes'[r] = inbox[call[r].user]
    BY <1>2, <1>6 DEF TypeOK
  <2>3. TypeOK'
    BY <1>1, <1>6, <2>1, <2>2 DEF TypeOK, Apart, store, bounds
  <2>4. Asks(r)'
    BY <1>1, <1>2, <2>1 DEF Asks, Apart, Allowed
  <2>5. AllEarned(call[r].user, notes[r])'
    BY <1>1, <1>2, <1>3, <2>2, EarnedStays DEF Inboxes, Apart
  <2>6. Holds(r)'
    BY <1>1, <1>6, <2>1, <2>2, <2>5 DEF Holds, Apart
  <2> QED
    BY <1>1, <1>4, <2>3, <2>4, <2>6 DEF Local
<1> QED
  BY <1>5, <1>6 DEF Look

LEMMA SaveNoteStep ==
  ASSUME TypeOK, NEW r \in Requests, Local(r), Memory, Files, Inboxes, SaveNote(r)
  PROVE  TypeOK' /\ Local(r)' /\ Apart /\ Inboxes' /\ UNCHANGED <<drawn, bounds>>
<1>1. /\ pc[r] = "keep" /\ UNCHANGED <<todo, ws, notes, left, bounds, drawn>> /\ Apart
  BY DEF SaveNote, Apart
<1>2. /\ call[r] \in Entitled(call[r].user) /\ call[r].op \in {"read", "archive", "delete"}
      /\ call[r].user \in Users /\ call[r].note \in Notes
  BY <1>1, CallUser, CallFields DEF Local, Asks
<1>3. Grow /\ Remembers
  BY <1>1, ApartKeeps DEF Apart, store, Grow, Remembers
<1> PICK u \in Users, n \in Notes : u = call[r].user /\ n = call[r].note
  BY <1>2
<1>4. notes[r][n] \in Note /\ NoteEarned(u, n, notes[r][n])
  BY <1>1, <1>2 DEF Local, Holds, AllEarned, TypeOK
<1>5. /\ inbox' \in [Users -> [Notes -> Note \cup {None}]] /\ Inboxes'
      /\ Answer(r, "ok") \/ Answer(r, "failed")
  <2>1. CASE inbox' = inbox
    BY <1>3, <2>1, InboxesStay DEF SaveNote, TypeOK
  <2>2. CASE Keep(u, n, None) /\ Answer(r, "ok")
    BY <1>3, <2>2, KeepEarned
  <2>3. CASE call[r].op # "delete" /\ Keep(u, n, Marked(call[r].op, notes[r][n])) /\ Answer(r, "ok")
    <3>1. Asked(u, call[r].op, n)
      BY <1>2 DEF Asked
    <3> PICK note : note = Marked(call[r].op, notes[r][n])
      OBVIOUS
    <3>2. note \in Note /\ NoteEarned(u, n, note)
      BY <1>2, <1>4, <2>3, <3>1, MarkedEarned
    <3> QED
      BY <1>3, <2>3, <3>2, KeepEarned, EarnedStays
  <2> QED
    BY <2>1, <2>2, <2>3 DEF SaveNote
<1>6. /\ pc' \in [Requests -> Steps] /\ reply' \in [Requests -> Replies \cup {None}]
      /\ pc'[r] = "done"
  BY <1>5, AnswerType DEF Replies
<1>7. TypeOK'
  BY <1>1, <1>5, <1>6 DEF TypeOK, Apart, store, bounds, Replies
<1> QED
  BY <1>1, <1>5, <1>6, <1>7, DoneLocal

LEMMA ListUnreadStep ==
  ASSUME TypeOK, NEW r \in Requests, Local(r), Memory, Files, Inboxes, ListUnread(r)
  PROVE  TypeOK' /\ Local(r)' /\ Apart /\ Inboxes' /\ UNCHANGED <<drawn, bounds>>
<1>1. /\ pc[r] = "readall" /\ UNCHANGED <<inbox, todo, ws, reply, bounds, drawn>> /\ Apart
  BY DEF ListUnread, Apart
<1>2. /\ call[r] \in granted /\ Allowed(call[r]) /\ call[r].op = "readall"
      /\ call[r].user \in Users
  BY <1>1, CallUser DEF Local, Asks
<1>3. Grow /\ Remembers
  BY <1>1, ApartKeeps DEF Apart, store, Grow, Remembers
<1> PICK u \in Users : u = call[r].user
  BY <1>2
<1>4. /\ pc' \in [Requests -> Steps] /\ pc'[r] = "mark"
      /\ notes' = [notes EXCEPT ![r] = inbox[u]]
      /\ left' = [left EXCEPT ![r] = {n \in Notes : inbox[u][n] # None /\ ~inbox[u][n].read}]
  BY GotoType DEF ListUnread, Steps
<1>5. /\ notes' \in [Requests -> [Notes -> Note \cup {None}]] /\ notes'[r] = inbox[u]
      /\ left' \in [Requests -> SUBSET Notes] /\ \A n \in left'[r] : notes'[r][n] # None
  BY <1>4 DEF TypeOK
<1>6. TypeOK'
  BY <1>1, <1>4, <1>5 DEF TypeOK, Apart, store, bounds
<1>7. Asks(r)'
  BY <1>1, <1>2, <1>4 DEF Asks, Apart, Allowed
<1>8. AllEarned(u, notes[r])' /\ u = call'[r].user
  BY <1>1, <1>3, <1>5, EarnedStays DEF Inboxes, Apart
<1>9. Holds(r)'
  BY <1>4, <1>5, <1>8 DEF Holds
<1>10. Inboxes'
  BY <1>1, <1>3, InboxesStay
<1> QED
  BY <1>1, <1>6, <1>7, <1>9, <1>10 DEF Local

LEMMA MarkNextStep ==
  ASSUME TypeOK, NEW r \in Requests, Local(r), Memory, Files, Inboxes, MarkNext(r)
  PROVE  TypeOK' /\ Local(r)' /\ Apart /\ Inboxes' /\ UNCHANGED <<drawn, bounds>>
<1>1. /\ pc[r] = "mark" /\ UNCHANGED <<todo, ws, notes, bounds, drawn>> /\ Apart
  BY DEF MarkNext, Apart
<1>2. /\ call[r] \in granted /\ Allowed(call[r]) /\ call[r].op = "readall"
      /\ call[r].user \in Users /\ call[r] \in Entitled(call[r].user)
  BY <1>1, CallUser DEF Local, Asks
<1>3. Grow /\ Remembers
  BY <1>1, ApartKeeps DEF Apart, store, Grow, Remembers
<1> PICK u \in Users : u = call[r].user
  BY <1>2
<1>4. CASE Answer(r, "ok") /\ inbox' = inbox /\ left' = left
  <2>1. TypeOK'
    BY <1>1, <1>4, AnswerType DEF TypeOK, Apart, store, bounds, Replies
  <2> QED
    BY <1>1, <1>3, <1>4, <2>1, AnswerType, DoneLocal, InboxesStay DEF Replies
<1>5. CASE \E n \in left[r] : /\ left' = [left EXCEPT ![r] = @ \ {n}]
                              /\ Keep(u, n, Marked("read", notes[r][n]))
                              /\ UNCHANGED <<pc, reply>>
  <2>1. PICK n \in left[r] : /\ left' = [left EXCEPT ![r] = @ \ {n}]
                             /\ Keep(u, n, Marked("read", notes[r][n]))
                             /\ UNCHANGED <<pc, reply>>
    BY <1>5
  <2>2. n \in Notes /\ notes[r][n] \in Note /\ NoteEarned(u, n, notes[r][n])
    BY <1>1, <2>1 DEF Local, Holds, AllEarned, TypeOK
  <2>3. Asked(u, "readall", n)
    BY <1>2 DEF Asked
  <2> PICK note : note = Marked("read", notes[r][n])
    OBVIOUS
  <2>4. note \in Note /\ NoteEarned(u, n, note)
    BY <2>2, <2>3, MarkedEarned
  <2>5. inbox' \in [Users -> [Notes -> Note \cup {None}]] /\ Inboxes'
    BY <1>3, <2>1, <2>2, <2>4, KeepEarned, EarnedStays
  <2>6. /\ left' \in [Requests -> SUBSET Notes] /\ left'[r] \subseteq left[r]
    BY <2>1 DEF TypeOK
  <2>7. TypeOK'
    BY <1>1, <2>1, <2>5, <2>6 DEF TypeOK, Apart, store, bounds
  <2>8. Asks(r)'
    BY <1>1, <1>2, <2>1 DEF Asks, Apart, Allowed
  <2>9. AllEarned(u, notes[r])' /\ u = call'[r].user
    BY <1>1, <1>3, EarnedStays DEF Local, Holds, Apart
  <2>10. Holds(r)'
    BY <1>1, <2>1, <2>6, <2>9 DEF Local, Holds
  <2> QED
    BY <1>1, <2>5, <2>7, <2>8, <2>10 DEF Local
<1> QED
  BY <1>4, <1>5 DEF MarkNext

LEMMA CreateNoteStep ==
  ASSUME TypeOK, NEW r \in Requests, Local(r), Memory, Files, Inboxes, CreateNote(r)
  PROVE  TypeOK' /\ Local(r)' /\ Apart /\ Inboxes' /\ drawn \subseteq drawn' /\ UNCHANGED bounds
<1>1. pc[r] = "create" /\ UNCHANGED <<todo, ws, notes, left, bounds>> /\ Apart
  BY DEF CreateNote, Apart
<1>2. /\ call[r].user \in Users /\ call[r].category \in Categories
      /\ call[r].severity \in Severities
  BY <1>1, CallUser, CallFields DEF Local, Asks
<1> PICK u \in Users : u = call[r].user
  BY <1>2
<1>3. PICK n \in Notes \ Events :
        /\ drawn' = drawn \cup {[id |-> n, user |-> u]}
        /\ Keep(u, n, New(call[r].category, call[r].severity))
  BY DEF CreateNote
<1>4. Grow /\ Remembers
  BY <1>1, <1>3, ApartKeeps DEF Apart, store, Grow, Remembers
<1> PICK note : note = New(call[r].category, call[r].severity)
  OBVIOUS
<1>5. note \in Note /\ ~note.read /\ ~note.archived
  BY <1>2 DEF New, Note
<1>6. NoteEarned(u, n, note)'
  BY <1>3, <1>5 DEF NoteEarned
<1>7. inbox' \in [Users -> [Notes -> Note \cup {None}]] /\ Inboxes'
  BY <1>3, <1>4, <1>5, <1>6, KeepEarned
<1>8. /\ pc' \in [Requests -> Steps] /\ reply' \in [Requests -> Replies \cup {None}]
      /\ pc'[r] = "done"
  BY AnswerType DEF CreateNote, Replies
<1>9. drawn' \subseteq [id : Lists \cup Notes, user : Users]
  BY <1>3 DEF TypeOK
<1>10. TypeOK'
  BY <1>1, <1>7, <1>8, <1>9 DEF TypeOK, Apart, store, bounds, Replies
<1> QED
  BY <1>1, <1>3, <1>7, <1>8, <1>10, DoneLocal

LEMMA ReadPrefsStep ==
  ASSUME TypeOK, NEW r \in Requests, Local(r), Memory, Files, Inboxes, ReadPrefs(r)
  PROVE  TypeOK' /\ Local(r)' /\ Apart /\ Inboxes' /\ UNCHANGED <<drawn, bounds>>
<1>1. /\ pc[r] = "prefs" /\ UNCHANGED <<inbox, todo, notes, left, reply, bounds, drawn>> /\ Apart
  BY DEF ReadPrefs, Apart
<1>2. /\ call[r] \in granted /\ Allowed(call[r]) /\ EventsLeft(r) /\ call[r].user \in Users
      /\ call[r].op = "deliver" => call[r].user \in Reachable
  BY <1>1, CallUser DEF Local, Asks
<1>3. Grow /\ Remembers
  BY <1>1, ApartKeeps DEF Apart, store, Grow, Remembers
<1> PICK u \in Users : u = call[r].user
  BY <1>2
<1>4. /\ pc' \in [Requests -> Steps] /\ pc'[r] = "post" /\ ws' = [ws EXCEPT ![r] = mem[u]]
  BY GotoType DEF ReadPrefs, Steps
<1>5. ws' \in [Requests -> Workspace \cup {None}] /\ ws'[r] = mem[u]
  BY <1>4 DEF TypeOK, Table
<1>6. TypeOK'
  BY <1>1, <1>4, <1>5 DEF TypeOK, Apart, store, bounds
<1>7. Asks(r)'
  BY <1>1, <1>2, <1>4 DEF Asks, Apart, Allowed, EventsLeft
<1>8. IF ws'[r] = None THEN FirstOf(u) = None ELSE ws'[r].notify \in shown'[u]
  BY <1>3, <1>5 DEF Memory, OwnTable, Remembers
<1>9. Holds(r)'
  BY <1>1, <1>4, <1>8 DEF Holds, Apart
<1>10. Inboxes'
  BY <1>1, <1>3, InboxesStay
<1> QED
  BY <1>1, <1>6, <1>7, <1>9, <1>10 DEF Local

(* The first event that is left is one of the call's.                      *)
LEMMA EventAsked ==
  ASSUME NEW r \in Requests, EventsLeft(r)
  PROVE  /\ Head(todo[r]) \in Event /\ In(Head(todo[r]), call[r].events)
         /\ Tail(todo[r]) \in Seq(Event)
         /\ \A i \in 1..Len(Tail(todo[r])) : In(Tail(todo[r])[i], call[r].events)
<1>1. /\ todo[r] \in Seq(Event) /\ todo[r] # <<>>
      /\ \A i \in 1..Len(todo[r]) : In(todo[r][i], call[r].events)
  BY DEF EventsLeft
<1>2. /\ Head(todo[r]) = todo[r][1] /\ 1 \in 1..Len(todo[r]) /\ Head(todo[r]) \in Event
      /\ Tail(todo[r]) \in Seq(Event) /\ Len(Tail(todo[r])) = Len(todo[r]) - 1
      /\ \A i \in 1..Len(Tail(todo[r])) : Tail(todo[r])[i] = todo[r][i + 1]
  BY <1>1
<1>3. \A i \in 1..Len(Tail(todo[r])) : i + 1 \in 1..Len(todo[r])
  BY <1>1, <1>2
<1> QED
  BY <1>1, <1>2, <1>3

LEMMA PostStep ==
  ASSUME TypeOK, NEW r \in Requests, Local(r), Memory, Files, Inboxes, Post(r)
  PROVE  TypeOK' /\ Local(r)' /\ Apart /\ Inboxes' /\ UNCHANGED <<drawn, bounds>>
<1> DEFINE rest == Tail(todo[r])
<1>1. /\ pc[r] = "post" /\ UNCHANGED <<ws, notes, left, bounds, drawn>> /\ Apart
      /\ todo' = [todo EXCEPT ![r] = Tail(@)] /\ Continue(r, call[r].op, rest)
  BY DEF Post, Apart
<1>2. /\ call[r] \in granted /\ Allowed(call[r]) /\ EventsLeft(r) /\ call[r].user \in Users
      /\ call[r] \in Entitled(call[r].user) /\ call[r].op \in {"events", "deliver"}
      /\ call[r].op = "deliver" => call[r].user \in Reachable
  BY <1>1, CallUser DEF Local, Asks, EventsLeft
<1>3. Grow /\ Remembers
  BY <1>1, ApartKeeps DEF Apart, store, Grow, Remembers
<1> PICK u \in Users : u = call[r].user
  BY <1>2
<1> PICK e : e = Head(todo[r])
  OBVIOUS
<1>4. /\ e \in Event /\ In(e, call[r].events) /\ rest \in Seq(Event)
      /\ \A i \in 1..Len(rest) : In(rest[i], call[r].events)
  BY <1>2, EventAsked
<1> PICK note : note = New(e.category, e.severity)
  OBVIOUS
<1>5. /\ note \in Note /\ ~note.read /\ ~note.archived /\ e.id \in Notes /\ e.id \in Events
      /\ note.category = e.category /\ note.severity = e.severity
      /\ e = [id |-> e.id, category |-> e.category, severity |-> e.severity]
  BY <1>4, WorkspaceAssumption DEF New, Note, Event
<1>6. inbox' \in [Users -> [Notes -> Note \cup {None}]] /\ Inboxes'
  <2>1. CASE inbox' = inbox
    BY <1>3, <2>1, InboxesStay DEF TypeOK
  <2>2. CASE (ws[r] = None \/ Passes(ws[r].notify, e)) /\ Keep(u, e.id, note)
    <3>1. FirstOf(u) = None \/ \E p \in shown[u] : Passes(p, note)
      BY <1>1, <1>5, <2>2 DEF Local, Holds, Passes
    <3>2. NoteEarned(u, e.id, note)
      BY <1>2, <1>4, <1>5, <3>1 DEF NoteEarned
    <3> QED
      BY <1>3, <1>5, <2>2, <3>2, KeepEarned, EarnedStays
  <2> QED
    BY <2>1, <2>2 DEF Post
<1> HIDE DEF rest
<1>7. /\ pc' \in [Requests -> Steps] /\ reply' \in [Requests -> Replies \cup {None}]
      /\ rest = <<>> => pc'[r] = IF call[r].op = "deliver" THEN "mail" ELSE "done"
      /\ rest # <<>> => pc'[r] = "prefs"
  BY <1>1, <1>2, ContinueType
<1>8. /\ DOMAIN todo' = Requests /\ todo'[r] = rest
      /\ \A q \in Requests : todo'[q] \in Seq(Part) \/ todo'[q] \in Seq(Event)
  BY <1>1, <1>4 DEF TypeOK, rest
<1>9. TypeOK'
  BY <1>1, <1>6, <1>7, <1>8 DEF TypeOK, Apart, store, bounds, Replies
<1>10. Asks(r)'
  <2>1. call' = call /\ granted' = granted
    BY <1>1 DEF Apart
  <2>2. CASE rest # <<>>
    <3>1. EventsLeft(r)'
      BY <1>2, <1>4, <1>8, <2>1, <2>2 DEF EventsLeft
    <3> QED
      BY <1>2, <1>7, <2>1, <2>2, <3>1 DEF Asks, Allowed
  <2>3. CASE rest = <<>>
    BY <1>2, <1>7, <2>1, <2>3 DEF Asks, Allowed
  <2> QED
    BY <2>2, <2>3
<1>11. Holds(r)'
  BY <1>7 DEF Holds
<1> QED
  BY <1>1, <1>6, <1>9, <1>10, <1>11 DEF Local

LEMMA ListNotesStep ==
  ASSUME TypeOK, NEW r \in Requests, Local(r), Memory, Files, Inboxes, ListNotes(r)
  PROVE  TypeOK' /\ Local(r)' /\ Apart /\ Inboxes' /\ UNCHANGED <<drawn, bounds>>
<1>1. /\ pc[r] = "list" /\ UNCHANGED <<inbox, todo, ws, left, bounds, drawn>> /\ Apart
      /\ Answer(r, "ok")
  BY DEF ListNotes, Apart
<1>2. call[r].user \in Users
  BY <1>1, CallUser DEF Local
<1>3. notes' \in [Requests -> [Notes -> Note \cup {None}]]
  BY <1>2 DEF ListNotes, TypeOK
<1>4. Grow /\ Remembers
  BY <1>1, ApartKeeps DEF Apart, store, Grow, Remembers
<1>5. /\ pc' \in [Requests -> Steps] /\ reply' \in [Requests -> Replies \cup {None}]
      /\ pc'[r] = "done"
  BY <1>1, AnswerType DEF Replies
<1>6. TypeOK'
  BY <1>1, <1>3, <1>5 DEF TypeOK, Apart, store, bounds, Replies
<1> QED
  BY <1>1, <1>4, <1>5, <1>6, DoneLocal, InboxesStay

-----------------------------------------------------------------------------
(***************************************************************************)
(* The steps of delivery.                                                  *)
(***************************************************************************)
LEMMA DeliverStep ==
  ASSUME TypeOK, NEW r \in Requests, Local(r), Memory, Files, Inboxes, Deliver(r)
  PROVE  TypeOK' /\ Local(r)' /\ Apart /\ Inboxes' /\ UNCHANGED <<drawn, bounds>>
<1>1. /\ pc[r] = "deliver" /\ UNCHANGED <<inbox, todo, ws, notes, left, bounds, drawn>> /\ Apart
  BY DEF Deliver, Apart
<1>2. /\ call[r] \in granted /\ Allowed(call[r]) /\ EventsLeft(r) /\ call[r].op = "deliver"
  BY <1>1 DEF Local, Asks
<1>3. Grow /\ Remembers
  BY <1>1, ApartKeeps DEF Apart, store, Grow, Remembers
<1>4. /\ pc' \in [Requests -> Steps] /\ reply' \in [Requests -> Replies \cup {None}]
      /\ pc'[r] = "done" \/ (pc'[r] \in {"mail", "prefs"} /\ call[r].user \in Reachable)
  <2>1. CASE Answer(r, "undelivered")
    BY <2>1, AnswerType DEF Replies
  <2>2. CASE /\ call[r].user \in Reachable /\ Goto(r, "mail")
             /\ reply' = [reply EXCEPT ![r] = "undelivered"]
    BY <2>2, GotoType DEF TypeOK, Replies, Steps
  <2>3. CASE /\ call[r].user \in Reachable /\ Goto(r, "prefs")
             /\ reply' = [reply EXCEPT ![r] = "ok"]
    BY <2>3, GotoType DEF TypeOK, Replies, Steps
  <2> QED
    BY <2>1, <2>2, <2>3 DEF Deliver
<1>5. TypeOK'
  BY <1>1, <1>4 DEF TypeOK, Apart, store, bounds, Replies
<1>6. Asks(r)'
  BY <1>1, <1>2, <1>4 DEF Asks, Apart, Allowed, EventsLeft
<1>7. Holds(r)'
  BY <1>4 DEF Holds
<1> QED
  BY <1>1, <1>3, <1>5, <1>6, <1>7, InboxesStay DEF Local

LEMMA MailStep ==
  ASSUME TypeOK, NEW r \in Requests, Local(r), Memory, Files, Inboxes, Mails, Mail(r)
  PROVE  TypeOK' /\ Local(r)' /\ Apart /\ Inboxes' /\ Mails' /\ drawn' = drawn
<1>1. /\ pc[r] = "mail" /\ Goto(r, "done") /\ Apart
      /\ UNCHANGED <<inbox, todo, ws, notes, left, reply, disabled, crashes, faults, drawn>>
      /\ mailed' = mailed \/ /\ call[r].user \in Mailable
                             /\ mailed' = mailed \cup {[user |-> call[r].user, event |-> call[r].events[1]]}
  BY DEF Mail, Apart
<1>2. /\ call[r].op = "deliver" /\ call[r].user \in Reachable /\ call[r].user \in Users
      /\ call[r] \in Entitled(call[r].user) /\ call[r].events[1] \in Event
  <2>1. call[r].op = "deliver" /\ call[r].user \in Reachable
    BY <1>1 DEF Local, Asks
  <2> QED
    BY <1>1, <2>1, CallUser, CallFields DEF Local
<1>3. Grow /\ Remembers
  BY <1>1, ApartKeeps DEF Apart, store, Grow, Remembers
<1>4. pc' \in [Requests -> Steps] /\ pc'[r] = "done"
  BY <1>1, GotoType DEF Steps
<1>5. TypeOK'
  BY <1>1, <1>2, <1>4 DEF TypeOK, Apart, store
<1>6. Mails'
  BY <1>1, <1>2, <1>3, EntitledGrows DEF Mails
<1> QED
  BY <1>1, <1>3, <1>4, <1>5, <1>6, DoneLocal, InboxesStay

LEMMA SetChannelStep ==
  ASSUME TypeOK, NEW r \in Requests, Local(r), Memory, Files, Inboxes, SetChannel(r)
  PROVE  TypeOK' /\ Local(r)' /\ Apart /\ Inboxes' /\ UNCHANGED <<drawn, mailed>>
<1>1. /\ pc[r] = "channel" /\ Answer(r, "ok") /\ Apart
      /\ UNCHANGED <<inbox, todo, ws, notes, left, mailed, crashes, faults, drawn>>
      /\ disabled' \in {disabled \ {call[r].channel}, disabled \cup {call[r].channel}}
  BY DEF SetChannel, Apart
<1>2. call[r].channel \in Channels
  <2>1. call[r] \in Offered /\ call[r].op = "channel"
    BY <1>1 DEF Local, Asks, TypeOK
  <2> QED
    BY <2>1, CallFields
<1>3. Grow /\ Remembers
  BY <1>1, ApartKeeps DEF Apart, store, Grow, Remembers
<1>4. /\ pc' \in [Requests -> Steps] /\ reply' \in [Requests -> Replies \cup {None}]
      /\ pc'[r] = "done"
  BY <1>1, AnswerType DEF Replies
<1>5. TypeOK'
  BY <1>1, <1>2, <1>4 DEF TypeOK, Apart, store, Replies
<1> QED
  BY <1>1, <1>3, <1>4, <1>5, DoneLocal, InboxesStay

-----------------------------------------------------------------------------
(***************************************************************************)
(* Every step of a request keeps the invariant.                            *)
(***************************************************************************)
LEMMA OthersKept ==
  ASSUME TypeOK, NEW r \in Requests, NEW q \in Requests \ {r},
         \/ \E c \in Offered : Start(r, c)
         \/ Workspacing(r) \/ Notifying(r) \/ Delivering(r)
  PROVE  Kept(q)
<1> USE DEF TypeOK, Kept, Goto, Answer, Continue, store
<1>1. CASE \E c \in Offered : Start(r, c)
  BY <1>1 DEF Start
<1>2. CASE Fetch(r) \/ Make(r)
  BY <1>2 DEF Fetch, Make, Remember
<1>3. CASE Change(r)
  BY <1>3 DEF Change, Remember
<1>4. CASE OpenTemp(r) \/ WriteTemp(r)
  BY <1>4 DEF OpenTemp, WriteTemp
<1>5. CASE Replace(r)
  BY <1>5 DEF Replace, AfterSave
<1>6. CASE SaveFails(r)
  BY <1>6 DEF SaveFails
<1>7. CASE Look(r)
  BY <1>7 DEF Look
<1>8. CASE SaveNote(r)
  BY <1>8 DEF SaveNote
<1>9. CASE ListUnread(r)
  BY <1>9 DEF ListUnread
<1>10. CASE MarkNext(r)
  BY <1>10 DEF MarkNext
<1>11. CASE CreateNote(r) \/ ReadPrefs(r)
  BY <1>11 DEF CreateNote, ReadPrefs
<1>12. CASE Post(r)
  BY <1>12 DEF Post
<1>13. CASE ListNotes(r)
  BY <1>13 DEF ListNotes
<1>14. CASE Deliver(r) \/ Mail(r) \/ SetChannel(r)
  BY <1>14 DEF Deliver, Mail, SetChannel
<1> HIDE DEF TypeOK, Kept, Goto, Answer, Continue, store
<1> QED
  BY <1>1, <1>2, <1>3, <1>4, <1>5, <1>6, <1>7, <1>8, <1>9, <1>10, <1>11, <1>12, <1>13, <1>14
  DEF Workspacing, Notifying, Delivering

LEMMA WorkspacingStep ==
  ASSUME TypeOK, NEW r \in Requests, Local(r), Global, Workspacing(r)
  PROVE  TypeOK' /\ Local(r)' /\ Grow /\ Remembers /\ Global'
<1>1. Memory /\ Files /\ Inboxes /\ Mails
  BY DEF Global
<1>2. CASE Fetch(r) \/ Make(r) \/ Change(r)
  <2>1. TypeOK' /\ Local(r)' /\ Grow /\ Remembers /\ Memory' /\ Elsewhere
    BY <1>1, <1>2, FetchStep, MakeStep, ChangeStep
  <2>2. disk' = disk /\ temp' = temp /\ inbox' = inbox /\ mailed' = mailed
    BY <2>1 DEF Elsewhere, bounds
  <2> QED
    BY <1>1, <2>1, <2>2, FilesStay, InboxesStay, MailsStay DEF Global
<1>3. CASE OpenTemp(r) \/ WriteTemp(r) \/ Replace(r) \/ SaveFails(r)
  <2>1. TypeOK' /\ Local(r)' /\ Aside /\ Files' /\ mailed' = mailed
    BY <1>1, <1>3, OpenTempStep, WriteTempStep, ReplaceStep, SaveFailsStep DEF bounds
  <2>2. Grow /\ Remembers /\ Memory' /\ inbox' = inbox
    BY <1>1, <2>1, AsideKeeps DEF Aside
  <2> QED
    BY <1>1, <2>1, <2>2, InboxesStay, MailsStay DEF Global
<1> QED
  BY <1>2, <1>3 DEF Workspacing

LEMMA NotifyingStep ==
  ASSUME TypeOK, NEW r \in Requests, Local(r), Global, Notifying(r) \/ Delivering(r)
  PROVE  TypeOK' /\ Local(r)' /\ Grow /\ Remembers /\ Global'
<1>1. Memory /\ Files /\ Inboxes /\ Mails
  BY DEF Global
<1>2. /\ TypeOK' /\ Local(r)' /\ Apart /\ Inboxes' /\ drawn \subseteq drawn'
      /\ Mails' \/ mailed' = mailed
  <2>1. CASE Look(r) \/ SaveNote(r) \/ ListUnread(r) \/ MarkNext(r)
    BY <1>1, <2>1, LookStep, SaveNoteStep, ListUnreadStep, MarkNextStep DEF bounds
  <2>2. CASE CreateNote(r) \/ ReadPrefs(r) \/ Post(r) \/ ListNotes(r)
    BY <1>1, <2>2, CreateNoteStep, ReadPrefsStep, PostStep, ListNotesStep DEF bounds
  <2>3. CASE Delivering(r)
    BY <1>1, <2>3, DeliverStep, MailStep, SetChannelStep DEF Delivering, bounds
  <2> QED
    BY <2>1, <2>2, <2>3 DEF Notifying
<1>3. Grow /\ Remembers /\ Memory' /\ Files'
  BY <1>1, <1>2, ApartKeeps
<1> QED
  BY <1>1, <1>2, <1>3, MailsStay DEF Global

LEMMA RequestStep ==
  ASSUME Safe, NEW r \in Requests,
         \/ \E c \in Offered : Start(r, c)
         \/ Workspacing(r) \/ Notifying(r) \/ Delivering(r)
  PROVE  Safe'
<1>1. TypeOK /\ Local(r) /\ Global
  BY DEF Safe, Global
<1>2. TypeOK' /\ Local(r)' /\ Grow /\ Remembers /\ Global'
  <2>1. CASE \E c \in Offered : Start(r, c)
    <3>1. PICK c \in Offered : Start(r, c)
      BY <2>1
    <3>2. TypeOK' /\ Local(r)' /\ Grow /\ Remembers
      BY <1>1, <3>1, StartType
    <3>3. UNCHANGED <<mem, disk, temp, inbox, mailed>>
      BY <3>1 DEF Start, store, bounds
    <3> QED
      BY <1>1, <3>2, <3>3, MemoryStays, FilesStay, InboxesStay, MailsStay DEF Global
  <2> QED
    BY <1>1, <2>1, WorkspacingStep, NotifyingStep
<1>3. ASSUME NEW q \in Requests, q # r
      PROVE  Local(q)'
  <2>1. Local(q) /\ Kept(q)
    BY <1>1, <1>3, OthersKept DEF Safe
  <2> QED
    BY <1>1, <1>2, <2>1, OthersStay
<1> QED
  BY <1>2, <1>3 DEF Safe, Global

-----------------------------------------------------------------------------
(***************************************************************************)
(* A start of the process: what is loaded was in the file, put right.      *)
(***************************************************************************)
LEMMA RepairedRight ==
  ASSUME NEW u \in Users, NEW w \in Workspace \cup {None}, w # None => IsOwn(u, w),
         NEW v \in Repaired(w)
  PROVE  /\ v = None <=> w = None
         /\ v # None => v \in Workspace /\ Right(u, v)
<1>1. CASE w = None
  BY <1>1 DEF Repaired
<1>2. CASE w # None /\ Listed(w) = {}
  <2>1. v = [w EXCEPT !.lists = OnlyDefault, !.active = DefaultList]
    BY <1>2 DEF Repaired
  <2>2. /\ v \in Workspace /\ v.lists = OnlyDefault /\ v.active = DefaultList
        /\ v.symbol = w.symbol /\ v.notify = w.notify
    BY <1>2, <2>1, DefaultsType, WorkspaceAssumption DEF Workspace
  <2>3. Listed(v) = {DefaultList} /\ v.lists[DefaultList] = DefaultWatchlist
    BY <2>2, DefaultsType, WorkspaceAssumption DEF Listed, OnlyDefault
  <2>4. ListIsOwn(u, DefaultList, DefaultWatchlist)
    BY DEF ListIsOwn, DefaultWatchlist
  <2> QED
    BY <1>2, <2>2, <2>3, <2>4, WorkspaceAssumption DEF Right, IsOwn
<1>3. CASE w # None /\ w.active \in Listed(w)
  BY <1>3 DEF Repaired, Right
<1>4. CASE w # None /\ Listed(w) # {} /\ w.active \notin Listed(w)
  <2>1. PICK l \in Listed(w) : v = [w EXCEPT !.active = l]
    BY <1>4 DEF Repaired
  <2>2. /\ v \in Workspace /\ v.lists = w.lists /\ v.active = l
        /\ v.symbol = w.symbol /\ v.notify = w.notify
    BY <1>4, <2>1 DEF Workspace, Listed
  <2> QED
    BY <1>4, <2>1, <2>2, WorkspaceAssumption DEF Right, IsOwn, Listed
<1> QED
  BY <1>1, <1>2, <1>3, <1>4

LEMMA LoadedRight ==
  ASSUME NEW file, file = None => InitialFile = None,
         file # None => file \in Table /\ OwnTable(file),
         NEW t \in Tables(file)
  PROVE  /\ t \in Table /\ OwnTable(t) /\ PrefsOf(t) \in [Users -> SUBSET Prefs]
         /\ \A u \in Users : t[u] # None =>
              t[u].active \in Listed(t[u]) /\ t[u].notify \in PrefsOf(t)[u]
<1>1. ASSUME NEW u \in Users
      PROVE  /\ t[u] = None => FirstOf(u) = None
             /\ t[u] # None => t[u] \in Workspace /\ Right(u, t[u])
  <2>1. CASE file = None
    BY <2>1 DEF Tables, FirstOf
  <2>2. CASE file # None
    <3>1. t[u] \in Repaired(file[u])
      BY <2>2 DEF Tables
    <3>2. /\ file[u] \in Workspace \cup {None} /\ (file[u] # None => IsOwn(u, file[u]))
          /\ file[u] = None => FirstOf(u) = None
      BY <2>2 DEF Table, OwnTable
    <3> QED
      BY <3>1, <3>2, RepairedRight
  <2> QED
    BY <2>1, <2>2
<1>2. DOMAIN t = Users /\ t = [u \in Users |-> t[u]]
  BY DEF Tables
<1>3. t \in Table
  BY <1>1, <1>2 DEF Table
<1>4. PrefsOf(t) \in [Users -> SUBSET Prefs]
  BY <1>1 DEF PrefsOf, Workspace
<1> QED
  BY <1>1, <1>3, <1>4 DEF OwnTable, Right, PrefsOf

LEMMA RestartStep ==
  ASSUME Safe, Restart
  PROVE  Safe'
<1>1. /\ UNCHANGED <<mailed, disk, temp, call, todo, ws, notes, left, snap, reply, faults, granted, drawn>>
      /\ crashes < MaxCrashes /\ crashes' = crashes + 1 /\ up' \in BOOLEAN
      /\ inbox' = [u \in Users |-> NoNotes] /\ fd' = [r \in Requests |-> None] /\ disabled' = {}
      /\ pc' = [r \in Requests |-> IF pc[r] = "idle" THEN "idle" ELSE "done"]
  BY DEF Restart
<1>2. Grow
  BY <1>1 DEF Grow
<1>3. /\ mem' \in Table /\ shown' \in [Users -> SUBSET Prefs] /\ Memory'
  <2>1. CASE UNCHANGED <<mem, shown>>
    <3>1. Remembers
      BY <2>1 DEF Remembers
    <3> QED
      BY <1>2, <2>1, <3>1, MemoryStays DEF Safe, TypeOK
  <2>2. CASE disk \notin {Empty, Torn} /\ \E t \in Tables(disk) : mem' = t /\ shown' = PrefsOf(t)
    <3>1. PICK t \in Tables(disk) : mem' = t /\ shown' = PrefsOf(t)
      BY <2>2
    <3>2. /\ disk = None => InitialFile = None
          /\ disk # None => disk \in Table /\ OwnTable(disk)
      BY <2>2 DEF Safe, TypeOK, Files
    <3>3. /\ t \in Table /\ OwnTable(t) /\ PrefsOf(t) \in [Users -> SUBSET Prefs]
          /\ \A u \in Users : t[u] # None =>
               t[u].active \in Listed(t[u]) /\ t[u].notify \in PrefsOf(t)[u]
      BY <3>2, LoadedRight
    <3> QED
      BY <1>2, <3>1, <3>3, TableStays DEF Memory, Listed
  <2> QED
    BY <2>1, <2>2 DEF Restart
<1>4. TypeOK'
  <2>1. crashes' \in 0..MaxCrashes
    BY <1>1, WorkspaceAssumption DEF Safe, TypeOK
  <2>2. inbox' \in [Users -> [Notes -> Note \cup {None}]]
    BY <1>1 DEF NoNotes
  <2>3. pc' \in [Requests -> Steps]
    BY <1>1 DEF Steps
  <2> QED
    BY <1>1, <1>3, <2>1, <2>2, <2>3 DEF Safe, TypeOK
<1>5. \A r \in Requests : Local(r)'
  BY <1>1, DoneLocal
<1>6. Files'
  BY <1>1, <1>2, FilesStay DEF Safe
<1>7. Inboxes'
  BY <1>1 DEF Inboxes, AllEarned, NoNotes
<1>8. Mails'
  BY <1>1, <1>2, MailsStay DEF Safe
<1> QED
  BY <1>3, <1>4, <1>5, <1>6, <1>7, <1>8 DEF Safe

-----------------------------------------------------------------------------
(***************************************************************************)
(* The theorems.                                                           *)
(***************************************************************************)
LEMMA SafeInit == Init => Safe
<1> SUFFICES ASSUME Init PROVE Safe
  OBVIOUS
<1>1. InitialFile # None => InitialFile \in Table /\ OwnTable(InitialFile)
  BY WorkspaceAssumption DEF OwnTable, FirstOf, IsOwn, ListIsOwn, Listed
<1>2. /\ mem \in Table /\ OwnTable(mem) /\ shown \in [Users -> SUBSET Prefs]
      /\ \A u \in Users : mem[u] # None =>
           mem[u].active \in Listed(mem[u]) /\ mem[u].notify \in shown[u]
  BY <1>1, LoadedRight DEF Init
<1>3. NoNotes \in [Notes -> Note \cup {None}]
  BY DEF NoNotes
<1>4. TypeOK
  BY <1>2, <1>3, WorkspaceAssumption DEF Init, TypeOK, Steps
<1>5. \A r \in Requests : Local(r)
  BY DEF Init, Local, Asks, Holds
<1>6. Memory
  BY <1>2 DEF Memory
<1>7. Files
  BY <1>1 DEF Init, Files
<1>8. Inboxes /\ Mails
  BY DEF Init, Inboxes, AllEarned, NoNotes, Mails
<1> QED
  BY <1>4, <1>5, <1>6, <1>7, <1>8 DEF Safe

LEMMA SafeStep == Safe /\ [Next]_vars => Safe'
<1> SUFFICES ASSUME Safe, [Next]_vars PROVE Safe'
  OBVIOUS
<1>1. CASE \E r \in Requests : \/ \E c \in Offered : Start(r, c)
                               \/ Workspacing(r) \/ Notifying(r) \/ Delivering(r)
  BY <1>1, RequestStep
<1>2. CASE UNCHANGED vars
  <2>1. UNCHANGED <<up, mem, disk, temp, snap, fd, shown, inbox, pc, call, todo, ws, notes, left,
                    reply, crashes, faults, disabled, mailed, granted, drawn>>
    BY <1>2 DEF vars, store, bounds
  <2>2. Grow /\ Remembers
    BY <2>1 DEF Grow, Remembers
  <2>3. TypeOK'
    BY <2>1 DEF Safe, TypeOK
  <2>4. \A q \in Requests : Kept(q)
    BY <2>1 DEF Kept
  <2> QED
    BY <2>1, <2>2, <2>3, <2>4, MemoryStays, FilesStay, InboxesStay, MailsStay, OthersStay DEF Safe
<1> QED
  BY <1>1, <1>2, RestartStep DEF Next

LEMMA AlwaysSafe == Spec => []Safe
BY SafeInit, SafeStep, PTL DEF Spec

(* Every variable keeps its type: also the file and the temporary file,    *)
(* that hold a whole table or what cannot be parsed, whatever threads      *)
(* write them at once.                                                     *)
THEOREM TypeCorrect == Spec => []TypeOK
<1>1. Safe => TypeOK
  BY DEF Safe
<1> QED
  BY <1>1, AlwaysSafe, PTL

(* For any number of requests, users and restarts: no workspace, in memory *)
(* or in the file, holds a symbol, a watchlist or a preference that its    *)
(* user or an admin has not chosen, and what is in memory names one of its *)
(* own watchlists as the active one.                                       *)
THEOREM WorkspacesOwn == Spec => []WorkspacesAreOwn
<1>1. Safe => WorkspacesAreOwn
  BY DEF Safe, Memory, Files, OwnTable, WorkspacesAreOwn
<1> QED
  BY <1>1, AlwaysSafe, PTL

(* No inbox holds a notification that no event or user put there, or that  *)
(* is read or archived without having been asked to, although stale copies *)
(* are saved; no e-mail goes to a user who is not to be reached.           *)
THEOREM InboxEarned == Spec => []InboxIsEarned
<1>1. Safe => InboxIsEarned
  BY DEF Safe, Inboxes, AllEarned, NoteEarned, In, Mails, InboxIsEarned
<1> QED
  BY <1>1, AlwaysSafe, PTL
=============================================================================
