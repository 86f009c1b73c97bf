----------------------------- MODULE Workspaces -----------------------------
(***************************************************************************)
(* Workspaces with their watchlists, and the inbox of notifications that   *)
(* reads the preferences kept in them: src/platform/services/workspace.py, *)
(* adapters/workspace_repository.py, services/notification.py,             *)
(* services/notification_delivery.py with its in-process adapter, and the  *)
(* domain classes.                                                         *)
(*                                                                         *)
(* No operation takes a lock.  A change of a workspace reads it, builds a  *)
(* whole new one, puts it in the repository's map and writes the map to    *)
(* the file; a change of a notification reads it and saves a changed copy. *)
(***************************************************************************)
EXTENDS Naturals, Sequences, FiniteSets

CONSTANTS
  Users, Admins,
  Permitted,      \* those the security boundary lets at their own resources
  Lists,          \* watchlist ids
  Names,
  Symbols,
  Keys,           \* the keys of chart and layout preferences
  DefaultList, DefaultName, DefaultSymbol, DefaultSymbols,
  Categories,
  Private,        \* the categories that are mailed: security, account_session, admin
  Channels,
  Reachable,      \* registered users who have delivery enabled
  Mailable,       \* users with a recovery e-mail address
  Notes,          \* notification ids: one for each event, and random ones
  Events,         \* the ids that are made from events, a subset of Notes
  Requests,
  Offered,        \* the calls that can be made, a subset of Call
  InitialFile,    \* workspaces.json when the server is first started, or None
  MaxCrashes,     \* bound: process crashes
  MaxFaults,      \* bound: saves that raise
  Empty, Torn,    \* a file that was truncated, or holds a mixture of two texts
  None

Severities == 1..4      \* info, success, warning, error

Prefs == [inApp : BOOLEAN, categories : SUBSET Categories, floor : Severities]
DefaultPrefs == [inApp |-> TRUE, categories |-> Categories, floor |-> 1]

Watchlist == [name : Names, symbols : SUBSET Symbols]
Workspace ==
  [active : Lists, symbol : Symbols, lists : [Lists -> Watchlist \cup {None}],
   chart : SUBSET Keys, layout : SUBSET Keys, notify : Prefs]
Table == [Users -> Workspace \cup {None}]

Note == [category : Categories, severity : Severities, read : BOOLEAN, archived : BOOLEAN]
NoNotes == [n \in Notes |-> None]

(* What a request does to a workspace, one save at a time.                 *)
Part ==
  [kind : {"get"}] \cup [kind : {"symbol"}, symbol : Symbols]
    \cup [kind : {"activate", "remove"}, list : Lists]
    \cup [kind : {"add"}, name : Names, symbols : SUBSET Symbols]
    \cup [kind : {"rename"}, list : Lists, name : Names]
    \cup [kind : {"include", "exclude"}, list : Lists, symbol : Symbols]
    \cup [kind : {"prefs"}, chart : SUBSET Keys, layout : SUBSET Keys, notify : Prefs \cup {None}]

Event == [id : Events, category : Categories, severity : Severities]

(* The services emit events themselves, by None.                           *)
Call ==
  [op : {"workspace"}, by : Users, user : Users, parts : Seq(Part)]
    \cup [op : {"read", "archive", "delete"}, by : Users, user : Users, note : Notes]
    \cup [op : {"readall"}, by : Users, user : Users]
    \cup [op : {"create"}, by : Users, user : Users, category : Categories, severity : Severities]
    \cup [op : {"events"}, by : Users \cup {None}, user : Users, events : Seq(Event)]
    \cup [op : {"list"}, by : Users, user : Users, unread : BOOLEAN, archived : BOOLEAN]
    \cup [op : {"deliver"}, by : Users \cup {None}, user : Users, events : {<<e>> : e \in Event},
          alert : BOOLEAN, channel : Channels]
    \cup [op : {"channel"}, by : {None}, user : {None}, channel : Channels, enabled : BOOLEAN]

ASSUME WorkspaceAssumption ==
  /\ Admins \subseteq Users /\ Permitted \subseteq Users
  /\ Events \subseteq Notes /\ Private \subseteq Categories
  /\ DefaultList \in Lists /\ DefaultName \in Names
  /\ DefaultSymbol \in Symbols /\ DefaultSymbols \subseteq Symbols
  /\ Offered \subseteq Call
  /\ InitialFile = None \/ InitialFile \in Table
  /\ None \notin Watchlist /\ None \notin Workspace /\ None \notin Table \cup {Empty, Torn}
  /\ MaxCrashes \in Nat /\ MaxFaults \in Nat

VARIABLES
  up,         \* FALSE once loading has raised: the server does not start
  mem,        \* FileBackedWorkspaceRepository._workspaces
  inbox,      \* InMemoryNotificationRepository._store
  disk,       \* workspaces.json: a table, Empty, Torn or None
  temp,       \* workspaces.json.tmp
  pc,         \* the next step of each request
  call,       \* its call
  todo,       \* the parts, or events, that are left
  ws,         \* the workspace it holds
  notes,      \* the notifications it holds
  left,       \* those mark_all_as_read has still to save
  snap,       \* the table it writes
  fd,         \* the file it has open: "temp", "disk", or None for one replaced since
  reply,
  disabled,   \* the delivery adapter's _disabled_channels
  mailed,     \* the e-mails sent, each with its user
  crashes, faults,
  granted,    \* history: the calls that got past the access check
  drawn,      \* history: the random ids, each with its user
  shown       \* history: the preferences each user has had in this process

store == <<mem, disk, temp, snap, fd, shown>>
bounds == <<crashes, faults, disabled, mailed>>
vars == <<up, store, inbox, pc, call, todo, ws, notes, left, reply, bounds, granted, drawn>>

Goto(r, step) == pc' = [pc EXCEPT ![r] = step]

Answer(r, what) ==
  /\ Goto(r, "done")
  /\ reply' = [reply EXCEPT ![r] = what]

-----------------------------------------------------------------------------
(***************************************************************************)
(* Domain: new workspaces from old ones.                                   *)
(***************************************************************************)
DefaultWatchlist == [name |-> DefaultName, symbols |-> DefaultSymbols]
OnlyDefault == [l \in Lists |-> IF l = DefaultList THEN DefaultWatchlist ELSE None]

(* Workspace.create_default; its chart and layout settings are no keys.    *)
DefaultWorkspace ==
  [active |-> DefaultList, symbol |-> DefaultSymbol, lists |-> OnlyDefault,
   chart |-> {}, layout |-> {}, notify |-> DefaultPrefs]

Listed(w) == {l \in Lists : w.lists[l] # None}

(* Most constructors of a changed workspace do not hand the notification   *)
(* preferences on.                                                         *)
Rebuilt(w) == [w EXCEPT !.notify = DefaultPrefs]

WithSymbol(w, s) == IF w.symbol = s THEN w ELSE Rebuilt([w EXCEPT !.symbol = s])
WithActive(w, l) == IF w.active = l THEN w ELSE Rebuilt([w EXCEPT !.active = l])
WithList(w, l, list) == Rebuilt([w EXCEPT !.lists[l] = list])

(* Mutant: no other watchlist becomes active.                              *)
WithoutActive(w, l) ==
  IF l \notin Listed(w) THEN {w}
  ELSE IF Cardinality(Listed(w)) = 1 THEN {}
  ELSE {[WithList(w, l, None) EXCEPT !.active = IF l = w.active THEN None ELSE @]}

(* The first of the others, in an order the model does not keep, becomes   *)
(* active; the last watchlist cannot be removed.                           *)
Without(w, l) ==
  IF l \notin Listed(w) THEN {w}
  ELSE IF Cardinality(Listed(w)) = 1 THEN {}
  ELSE IF l = w.active
    THEN {[WithList(w, l, None) EXCEPT !.active = m] : m \in Listed(w) \ {l}}
  ELSE {WithList(w, l, None)}

WithPrefs(w, p) ==
  LET charted == IF p.chart = {} THEN w ELSE Rebuilt([w EXCEPT !.chart = @ \cup p.chart])
      laid == [charted EXCEPT !.layout = @ \cup p.layout]
  IN  IF p.notify = None THEN laid ELSE [laid EXCEPT !.notify = p.notify]

FirstOf(u) == IF InitialFile = None THEN None ELSE InitialFile[u]

(* The ids drawn at random are new.                                        *)
FreshLists ==
  {l \in Lists \ {DefaultList} :
     /\ \A d \in drawn : d.id # l
     /\ \A u \in Users : FirstOf(u) # None => l # FirstOf(u).active /\ l \notin Listed(FirstOf(u))}

(* What part p can make of workspace w; nothing when it raises.            *)
Changed(w, p) ==
  CASE p.kind = "get" -> {w}
    [] p.kind = "symbol" -> {WithSymbol(w, p.symbol)}
    [] p.kind = "activate" -> {WithActive(w, l) : l \in Listed(w) \cap {p.list}}
    [] p.kind = "add" ->
         {WithActive(WithList(w, l, [name |-> p.name, symbols |-> p.symbols]), l) : l \in FreshLists}
    [] p.kind = "rename" ->
         {WithList(w, l, [w.lists[l] EXCEPT !.name = p.name]) : l \in Listed(w) \cap {p.list}}
    [] p.kind = "remove" -> Without(w, p.list)
    [] p.kind = "include" ->
         {WithList(w, l, [w.lists[l] EXCEPT !.symbols = @ \cup {p.symbol}]) : l \in Listed(w) \cap {p.list}}
    [] p.kind = "exclude" ->
         {WithList(w, l, [w.lists[l] EXCEPT !.symbols = @ \ {p.symbol}]) : l \in Listed(w) \cap {p.list}}
    [] p.kind = "prefs" -> {WithPrefs(w, p)}

(* NotificationPreferences, for an event or a notification n.              *)
Passes(p, n) == p.inApp /\ n.category \in p.categories /\ n.severity >= p.floor

-----------------------------------------------------------------------------
(***************************************************************************)
(* Requests.                                                               *)
(***************************************************************************)

(* Mutant: whoever may use a workspace may use any.                        *)
AllowedAny(c) == c.by = None \/ c.by \in Permitted

(* _authorize_user_access; events of the services pass by it.              *)
Allowed(c) ==
  c.by = None \/ ((c.by \in Permitted \/ c.op = "deliver") /\ (c.by \in Admins \/ c.by = c.user))

Parts(c) ==
  IF c.op = "workspace" THEN c.parts ELSE IF c.op \in {"events", "deliver"} THEN c.events ELSE <<>>

(* The step that begins what is left, or an answer.                        *)
Continue(r, op, rest) ==
  IF rest = <<>> /\ op = "deliver" THEN Goto(r, "mail") /\ UNCHANGED reply
  ELSE IF rest = <<>> THEN Answer(r, "ok")
  ELSE Goto(r, IF op = "workspace" THEN "fetch" ELSE "prefs") /\ UNCHANGED reply

Start(r, c) ==
  /\ up
  /\ pc[r] = "idle"
  /\ call' = [call EXCEPT ![r] = c]
  /\ todo' = [todo EXCEPT ![r] = Parts(c)]
  /\ IF ~Allowed(c) THEN Answer(r, "refused") /\ UNCHANGED granted
     ELSE /\ granted' = granted \cup {c}
          /\ IF c.op \in {"workspace", "events"} THEN Continue(r, c.op, Parts(c))
             ELSE Goto(r, c.op) /\ UNCHANGED reply
  /\ UNCHANGED <<up, store, inbox, ws, notes, left, bounds, drawn>>

-----------------------------------------------------------------------------
(***************************************************************************)
(* Workspaces.                                                             *)
(***************************************************************************)
Remember(r, u, w) ==
  /\ mem' = [mem EXCEPT ![u] = w]
  /\ shown' = [shown EXCEPT ![u] = @ \cup {w.notify}]
  /\ ws' = [ws EXCEPT ![r] = w]
  /\ Goto(r, "open")

(* get_or_create_workspace reads the workspace ...                         *)
Fetch(r) ==
  LET w == mem[call[r].user]
  IN  /\ pc[r] = "fetch"
      /\ IF w = None THEN Goto(r, "make") /\ UNCHANGED ws
         ELSE Goto(r, "change") /\ ws' = [ws EXCEPT ![r] = w]
      /\ UNCHANGED <<up, store, inbox, call, todo, notes, left, reply, bounds, granted, drawn>>

(* ... and saves a default one where there was none, over what another     *)
(* thread has made and changed in between.                                 *)
Make(r) ==
  /\ pc[r] = "make"
  /\ Remember(r, call[r].user, DefaultWorkspace)
  /\ UNCHANGED <<up, inbox, disk, temp, call, todo, notes, left, snap, fd, reply, bounds,
                 granted, drawn>>

(* The change of the workspace that was read, whatever it is by now.       *)
Change(r) ==
  LET u == call[r].user
      p == Head(todo[r])
  IN  /\ pc[r] = "change"
      /\ IF p.kind = "get"
           THEN Continue(r, "workspace", Tail(todo[r])) /\ UNCHANGED <<mem, shown, ws, drawn>>
           ELSE \/ /\ Changed(ws[r], p) = {}
                   /\ p.kind # "add"
                   /\ Answer(r, "failed")
                   /\ UNCHANGED <<mem, shown, ws, drawn>>
                \/ \E w \in Changed(ws[r], p) :
                     /\ Remember(r, u, w)
                     /\ drawn' = IF p.kind = "add" THEN drawn \cup {[id |-> w.active, user |-> u]}
                                 ELSE drawn
                     /\ UNCHANGED reply
      /\ todo' = [todo EXCEPT ![r] = Tail(@)]
      /\ UNCHANGED <<up, inbox, disk, temp, call, notes, left, snap, fd, bounds, granted>>

(* _save: the map is serialised and the temporary file, the same for all   *)
(* threads, opened with "w".                                               *)
OpenTemp(r) ==
  /\ pc[r] = "open"
  /\ Goto(r, "write")
  /\ snap' = [snap EXCEPT ![r] = mem]
  /\ temp' = Empty
  /\ fd' = [fd EXCEPT ![r] = "temp"]
  /\ UNCHANGED <<up, mem, shown, inbox, disk, call, todo, ws, notes, left, reply, bounds,
                 granted, drawn>>

(* What a file that holds b can hold after a table is written from its     *)
(* start: the rest of a longer text stays behind it.                       *)
Overwritten(b, table) == {table} \cup (IF b \in {Empty, table} THEN {} ELSE {Torn})

WriteTemp(r) ==
  /\ pc[r] = "write"
  /\ Goto(r, "replace")
  /\ \/ /\ fd[r] = "temp"
        /\ temp' \in Overwritten(temp, snap[r])
        /\ UNCHANGED disk
     \/ /\ fd[r] = "disk"
        /\ disk' \in Overwritten(disk, snap[r])
        /\ UNCHANGED temp
     \/ fd[r] = None /\ UNCHANGED <<disk, temp>>
  /\ UNCHANGED <<up, mem, shown, inbox, call, todo, ws, notes, left, snap, fd, reply, bounds,
                 granted, drawn>>

(* A save answers the call, or begins its next part; the save of a new     *)
(* workspace is followed by the change it was made for.                    *)
AfterSave(r) ==
  IF Len(todo[r]) = Len(call[r].parts)
    THEN Goto(r, "change") /\ UNCHANGED reply
    ELSE Continue(r, "workspace", todo[r])

(* os.replace raises when another thread has renamed the file.             *)
Replace(r) ==
  /\ pc[r] = "replace"
  /\ IF temp = None
       THEN /\ Answer(r, "failed")
            /\ fd' = [fd EXCEPT ![r] = None]
            /\ UNCHANGED <<disk, temp>>
       ELSE /\ disk' = temp
            /\ temp' = None
            /\ fd' = [q \in Requests |-> IF q # r /\ fd[q] = "temp" THEN "disk" ELSE None]
            /\ AfterSave(r)
  /\ UNCHANGED <<up, mem, shown, inbox, call, todo, ws, notes, left, snap, bounds, granted, drawn>>

(* The save raises: the map keeps what it was given.                       *)
SaveFails(r) ==
  /\ pc[r] \in {"open", "write", "replace"}
  /\ faults < MaxFaults
  /\ faults' = faults + 1
  /\ Answer(r, "failed")
  /\ fd' = [fd EXCEPT ![r] = None]
  /\ UNCHANGED <<up, mem, shown, inbox, disk, temp, call, todo, ws, notes, left, snap, crashes,
                 disabled, mailed, granted, drawn>>

-----------------------------------------------------------------------------
(***************************************************************************)
(* Notifications.                                                          *)
(***************************************************************************)
New(category, severity) ==
  [category |-> category, severity |-> severity, read |-> FALSE, archived |-> FALSE]

Keep(u, n, note) == inbox' = [inbox EXCEPT ![u][n] = note]

(* mark_as_read, archive_notification and delete_notification look for the *)
(* notification ...                                                        *)
Look(r) ==
  LET c == call[r]
  IN  /\ pc[r] \in {"read", "archive", "delete"}
      /\ IF inbox[c.user][c.note] = None THEN Answer(r, "missing") /\ UNCHANGED notes
         ELSE /\ notes' = [notes EXCEPT ![r] = inbox[c.user]]
              /\ Goto(r, "keep")
              /\ UNCHANGED reply
      /\ UNCHANGED <<up, store, inbox, call, todo, ws, left, bounds, granted, drawn>>

Marked(op, note) ==
  IF op = "archive" THEN [note EXCEPT !.archived = TRUE] ELSE [note EXCEPT !.read = TRUE]

(* ... and save a changed copy of it, or drop what is there by then: what  *)
(* another thread has dropped raises.                                      *)
SaveNote(r) ==
  LET c == call[r]
  IN  /\ pc[r] = "keep"
      /\ \/ /\ c.op = "delete"
            /\ IF inbox[c.user][c.note] = None THEN Answer(r, "failed") /\ UNCHANGED inbox
               ELSE Keep(c.user, c.note, None) /\ Answer(r, "ok")
         \/ /\ c.op # "delete"
            /\ Keep(c.user, c.note, Marked(c.op, notes[r][c.note]))
            /\ Answer(r, "ok")
      /\ UNCHANGED <<up, store, call, todo, ws, notes, left, bounds, granted, drawn>>

(* mark_all_as_read copies the list, and saves the unread ones one by one. *)
ListUnread(r) ==
  LET found == inbox[call[r].user]
  IN  /\ pc[r] = "readall"
      /\ notes' = [notes EXCEPT ![r] = found]
      /\ left' = [left EXCEPT ![r] = {n \in Notes : found[n] # None /\ ~found[n].read}]
      /\ Goto(r, "mark")
      /\ UNCHANGED <<up, store, inbox, call, todo, ws, reply, bounds, granted, drawn>>

MarkNext(r) ==
  /\ pc[r] = "mark"
  /\ IF left[r] = {} THEN Answer(r, "ok") /\ UNCHANGED <<inbox, left>>
     ELSE \E n \in left[r] :
            /\ left' = [left EXCEPT ![r] = @ \ {n}]
            /\ Keep(call[r].user, n, Marked("read", notes[r][n]))
            /\ UNCHANGED <<pc, reply>>
  /\ UNCHANGED <<up, store, call, todo, ws, notes, bounds, granted, drawn>>

(* create_notification draws a random id.                                  *)
CreateNote(r) ==
  LET c == call[r]
  IN  /\ pc[r] = "create"
      /\ \E n \in Notes \ Events :
           /\ \A d \in drawn : d.id # n
           /\ drawn' = drawn \cup {[id |-> n, user |-> c.user]}
           /\ Keep(c.user, n, New(c.category, c.severity))
      /\ Answer(r, "ok")
      /\ UNCHANGED <<up, store, call, todo, ws, notes, left, bounds, granted>>

(* create_notification_from_event reads the preferences of a workspace     *)
(* that exists ...                                                         *)
ReadPrefs(r) ==
  /\ pc[r] = "prefs"
  /\ ws' = [ws EXCEPT ![r] = mem[call[r].user]]
  /\ Goto(r, "post")
  /\ UNCHANGED <<up, store, inbox, call, todo, notes, left, reply, bounds, granted, drawn>>

(* Mutant: the preferences are read and not asked.                         *)
PostAll(r) ==
  /\ pc[r] = "post"
  /\ LET e == Head(todo[r]) IN Keep(call[r].user, e.id, New(e.category, e.severity))
  /\ todo' = [todo EXCEPT ![r] = Tail(@)]
  /\ Continue(r, call[r].op, Tail(todo[r]))
  /\ UNCHANGED <<up, store, call, ws, notes, left, bounds, granted, drawn>>

(* ... and saves under the event's id what passes them.                    *)
Post(r) ==
  LET u == call[r].user
      e == Head(todo[r])
  IN  /\ pc[r] = "post"
      /\ IF ws[r] = None \/ Passes(ws[r].notify, e)
           THEN Keep(u, e.id, New(e.category, e.severity))
           ELSE UNCHANGED inbox
      /\ todo' = [todo EXCEPT ![r] = Tail(@)]
      /\ Continue(r, call[r].op, Tail(todo[r]))
      /\ UNCHANGED <<up, store, call, ws, notes, left, bounds, granted, drawn>>

(* get_notifications, which get_unread_count counts.                       *)
ListNotes(r) ==
  LET c == call[r]
      found == inbox[c.user]
  IN  /\ pc[r] = "list"
      /\ notes' = [notes EXCEPT ![r] =
           [n \in Notes |-> IF /\ found[n] # None
                               /\ c.archived \/ ~found[n].archived
                               /\ ~(c.unread /\ found[n].read)
                            THEN found[n] ELSE None]]
      /\ Answer(r, "ok")
      /\ UNCHANGED <<up, store, inbox, call, todo, ws, left, bounds, granted, drawn>>

-----------------------------------------------------------------------------
(***************************************************************************)
(* Delivery.                                                               *)
(***************************************************************************)

(* The target must be registered, have delivery enabled and be allowed it  *)
(* by the security boundary; the adapter records the attempt and hands the *)
(* event to the inbox, unless the channel is disabled.                     *)
Deliver(r) ==
  LET c == call[r]
  IN  /\ pc[r] = "deliver"
      /\ IF c.user \notin Reachable \cap Permitted THEN Answer(r, "undelivered")
         ELSE /\ Goto(r, IF c.channel \in disabled THEN "mail" ELSE "prefs")
              /\ reply' = [reply EXCEPT ![r] = IF c.channel \in disabled THEN "undelivered" ELSE "ok"]
      /\ UNCHANGED <<up, store, inbox, call, todo, ws, notes, left, bounds, granted, drawn>>

Urgent(c, e) == e.category \in Private \/ e.severity = 4 \/ c.channel = "email"

(* An urgent event, delivered or not, goes to the recovery address as well.*)
Mail(r) ==
  LET c == call[r]
  IN  /\ pc[r] = "mail"
      /\ mailed' = IF ~c.alert /\ c.user \in Mailable /\ Urgent(c, c.events[1])
                   THEN mailed \cup {[user |-> c.user, event |-> c.events[1]]} ELSE mailed
      /\ Goto(r, "done")
      /\ UNCHANGED <<up, store, inbox, call, todo, ws, notes, left, reply, disabled, crashes, faults,
                     granted, drawn>>

(* set_channel_enabled                                                     *)
SetChannel(r) ==
  LET c == call[r]
  IN  /\ pc[r] = "channel"
      /\ disabled' = IF c.enabled THEN disabled \ {c.channel} ELSE disabled \cup {c.channel}
      /\ Answer(r, "ok")
      /\ UNCHANGED <<up, store, inbox, call, todo, ws, notes, left, mailed, crashes, faults,
                     granted, drawn>>

-----------------------------------------------------------------------------
(***************************************************************************)
(* The process.                                                            *)
(***************************************************************************)

(* _deserialize_workspace puts right what names no watchlist.              *)
Repaired(w) ==
  IF w = None THEN {None}
  ELSE IF Listed(w) = {} THEN {[w EXCEPT !.lists = OnlyDefault, !.active = DefaultList]}
  ELSE IF w.active \in Listed(w) THEN {w}
  ELSE {[w EXCEPT !.active = l] : l \in Listed(w)}

Tables(file) ==
  IF file = None THEN {[u \in Users |-> None]}
  ELSE {t \in [Users -> UNION {Repaired(file[u]) : u \in Users}] :
          \A u \in Users : t[u] \in Repaired(file[u])}

PrefsOf(table) == [u \in Users |-> IF table[u] = None THEN {} ELSE {table[u].notify}]

(* A crash and a new start: a file that cannot be parsed raises.           *)
Restart ==
  /\ up
  /\ crashes < MaxCrashes
  /\ crashes' = crashes + 1
  /\ IF disk \in {Empty, Torn} THEN up' = FALSE /\ UNCHANGED <<mem, shown>>
     ELSE \E t \in Tables(disk) : up' = TRUE /\ mem' = t /\ shown' = PrefsOf(t)
  /\ inbox' = [u \in Users |-> NoNotes]
  /\ pc' = [r \in Requests |-> IF pc[r] = "idle" THEN "idle" ELSE "done"]
  /\ fd' = [r \in Requests |-> None]
  /\ disabled' = {}
  /\ UNCHANGED <<mailed, disk, temp, call, todo, ws, notes, left, snap, reply, faults, granted, drawn>>

Init ==
  /\ up = TRUE
  /\ mem \in Tables(InitialFile)
  /\ shown = PrefsOf(mem)
  /\ inbox = [u \in Users |-> NoNotes]
  /\ disk = InitialFile
  /\ temp = None
  /\ pc = [r \in Requests |-> "idle"]
  /\ call = [r \in Requests |-> None]
  /\ todo = [r \in Requests |-> <<>>]
  /\ ws = [r \in Requests |-> None]
  /\ notes = [r \in Requests |-> NoNotes]
  /\ left = [r \in Requests |-> {}]
  /\ snap = [r \in Requests |-> None]
  /\ fd = [r \in Requests |-> None]
  /\ reply = [r \in Requests |-> None]
  /\ disabled = {}
  /\ mailed = {}
  /\ crashes = 0
  /\ faults = 0
  /\ granted = {}
  /\ drawn = {}

Workspacing(r) ==
  \/ Fetch(r) \/ Make(r) \/ Change(r)
  \/ OpenTemp(r) \/ WriteTemp(r) \/ Replace(r) \/ SaveFails(r)

Notifying(r) ==
  \/ Look(r) \/ SaveNote(r) \/ ListUnread(r) \/ MarkNext(r) \/ CreateNote(r)
  \/ ReadPrefs(r) \/ Post(r) \/ ListNotes(r)

Delivering(r) == Deliver(r) \/ Mail(r) \/ SetChannel(r)

Next ==
  \/ \E r \in Requests : \/ \E c \in Offered : Start(r, c)
                         \/ Workspacing(r) \/ Notifying(r) \/ Delivering(r)
  \/ Restart

Spec == Init /\ [][Next]_vars

-----------------------------------------------------------------------------
(***************************************************************************)
(* Properties.                                                             *)
(***************************************************************************)
Steps ==
  {"idle", "fetch", "make", "change", "open", "write", "replace", "read", "archive", "delete", "keep",
   "readall", "mark", "create", "prefs", "post", "list", "deliver", "mail", "channel", "done"}

(* Type invariant.                                                         *)
TypeOK ==
  /\ up \in BOOLEAN
  /\ mem \in Table
  /\ inbox \in [Users -> [Notes -> Note \cup {None}]]
  /\ disk \in {None, Empty, Torn} \/ disk \in Table
  /\ temp \in {None, Empty, Torn} \/ temp \in Table
  /\ pc \in [Requests -> Steps]
  /\ call \in [Requests -> Offered \cup {None}]
  /\ DOMAIN todo = Requests
  /\ \A r \in Requests : todo[r] \in Seq(Part) \/ todo[r] \in Seq(Event)
  /\ ws \in [Requests -> Workspace \cup {None}]
  /\ snap \in [Requests -> Table \cup {None}]
  /\ notes \in [Requests -> [Notes -> Note \cup {None}]]
  /\ left \in [Requests -> SUBSET Notes]
  /\ fd \in [Requests -> {"temp", "disk", None}]
  /\ reply \in [Requests -> {"ok", "refused", "failed", "missing", "undelivered", None}]
  /\ disabled \subseteq Channels
  /\ mailed \subseteq [user : Users, event : Event]
  /\ crashes \in 0..MaxCrashes
  /\ faults \in 0..MaxFaults
  /\ granted \subseteq Offered
  /\ drawn \subseteq [id : Lists \cup Notes, user : Users]
  /\ shown \in [Users -> SUBSET Prefs]

(* Somebody who may change what is u's asked for it: u, an admin, or, for  *)
(* events, a service of the platform.                                      *)
Entitled(u) == {c \in granted : c.user = u /\ c.by \in Admins \cup {u, None}}

PartsFor(u) ==
  UNION {{c.parts[i] : i \in 1..Len(c.parts)} : c \in {d \in Entitled(u) : d.op = "workspace"}}

ListIsOwn(u, l, list) ==
  LET first == IF FirstOf(u) = None THEN None ELSE FirstOf(u).lists[l]
  IN  /\ first # None \/ l = DefaultList \/ [id |-> l, user |-> u] \in drawn
      /\ \A s \in list.symbols :
           \/ first # None /\ s \in first.symbols
           \/ l = DefaultList /\ s \in DefaultSymbols
           \/ \E p \in PartsFor(u) : p.kind = "add" /\ s \in p.symbols
           \/ [kind |-> "include", list |-> l, symbol |-> s] \in PartsFor(u)

IsOwn(u, w) ==
  /\ \/ w.symbol = DefaultSymbol
     \/ FirstOf(u) # None /\ w.symbol = FirstOf(u).symbol
     \/ [kind |-> "symbol", symbol |-> w.symbol] \in PartsFor(u)
  /\ \/ w.notify = DefaultPrefs
     \/ FirstOf(u) # None /\ w.notify = FirstOf(u).notify
     \/ \E p \in PartsFor(u) : p.kind = "prefs" /\ p.notify = w.notify
  /\ \A l \in Listed(w) : ListIsOwn(u, l, w.lists[l])

(* However requests of several users interleave, fail half-way, write one  *)
(* another's temporary file and restart the server: a workspace in memory  *)
(* names one of its own watchlists as the active one, and the lists,       *)
(* symbols and notification preferences in it, as in the file, are what    *)
(* its user or an admin has chosen, were there at first, or are the ones   *)
(* built in, which a new workspace has and many a change puts back.        *)
WorkspacesAreOwn ==
  \A u \in Users :
    /\ mem[u] # None => mem[u].active \in Listed(mem[u]) /\ IsOwn(u, mem[u])
    /\ disk \notin {None, Empty, Torn} /\ disk[u] # None => IsOwn(u, disk[u])

Asked(u, op, n) ==
  \E c \in Entitled(u) : c.op = op /\ (op = "readall" \/ c.note = n)

(* A notification in an inbox comes from an event for its user that passed *)
(* preferences the user had in this process (or there were none), or was   *)
(* made by the user or an admin; it is read or archived only if they asked *)
(* for that, also where copies saved late bring one back.  An e-mail was   *)
(* sent only to a reachable user for whom the event was meant.             *)
InboxIsEarned ==
  /\ \A m \in mailed : /\ m.user \in Reachable \cap Mailable
                       /\ \E c \in Entitled(m.user) : c.op = "deliver" /\ c.events[1] = m.event
  /\ \A u \in Users, n \in Notes :
       LET note == inbox[u][n]
       IN  note # None =>
             /\ IF n \in Events
                  THEN /\ \E c \in Entitled(u) : c.op \in {"events", "deliver"} /\ \E i \in 1..Len(c.events) :
                            c.events[i] = [id |-> n, category |-> note.category, severity |-> note.severity]
                       /\ FirstOf(u) = None \/ \E p \in shown[u] : Passes(p, note)
                  ELSE [id |-> n, user |-> u] \in drawn
             /\ note.read => Asked(u, "read", n) \/ Asked(u, "readall", n)
             /\ note.archived => Asked(u, "archive", n)

-----------------------------------------------------------------------------
(***************************************************************************)
(* What the sources say and the code does not do.                          *)
(***************************************************************************)

(* DEPLOYMENT_READINESS.md: user-scoped preferences are persisted across   *)
(* restarts, so they are what the user had until somebody changes them.    *)
(* False: setting the symbol or a watchlist puts the default ones back, in *)
(* memory and then in the file, and so does a default workspace saved late.*)
PreferencesPersist ==
  [][\A u \in Users :
       mem[u] # None /\ mem'[u] # None /\ mem'[u].notify # mem[u].notify =>
         \E p \in PartsFor(u) : p.kind = "prefs" /\ p.notify = mem'[u].notify]_vars
=============================================================================
