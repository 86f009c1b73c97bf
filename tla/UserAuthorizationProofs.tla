---------------------- MODULE UserAuthorizationProofs ----------------------
(***************************************************************************)
(* Proofs about UserAuthorization, for every value of its constants.       *)
(***************************************************************************)
EXTENDS UserAuthorization, TLAPS

-----------------------------------------------------------------------------
(***************************************************************************)
(* The inductive invariant.  What a request knows depends on where it is:  *)
(* the call it is for, and what the step at hand is going to use.          *)
(***************************************************************************)
Asks(r) ==
  /\ pc[r] \notin {"idle", "done"} => call[r] \in Call
  /\ pc[r] \in {"verify", "issue", "remember"} => call[r].op = "login"
  /\ pc[r] = "logout" => call[r].op = "logout"
  /\ pc[r] = "find" => call[r].op = "recover"
  /\ pc[r] = "check" => call[r].op = "reset"
  /\ pc[r] \in {"auth", "expire", "account", "drop"} => NeedsActor(call[r])
  /\ pc[r] = "new" => call[r].op = "create"
  /\ pc[r] = "target" => call[r].op \in {"renew", "status", "role", "profile"}
  /\ pc[r] = "list" => Revokes(call[r])
  /\ pc[r] = "sweep" => call[r].op = "count"
  /\ pc[r] = "revoke" => Revokes(call[r]) \/ call[r].op = "count"

Person == [id: Users, acc: Account]

TableOf(store) == IF store = "users" THEN UserTable ELSE SessionTable

Holds(r) ==
  /\ pc[r] = "account" => found[r] \in Session
  /\ pc[r] \in {"expire", "account", "drop", "forget", "remember"} => token[r] \in Tokens
  /\ pc[r] \in {"new", "target"} => actor[r] \in Person
  /\ pc[r] \in {"register", "keep"} => hand[r] \in Person
  /\ pc[r] = "remember" => hand[r] \in Session
  /\ pc[r] \in {"open", "write", "replace"} => saving[r] \in Stores
  /\ pc[r] = "write" => snap[r] \in TableOf(saving[r])

(* An account that u may have.  The recovery in it counts too: it gives    *)
(* the right to choose a password.                                         *)
Authorized(u, a) ==
  /\ <<u, a.role>> \in granted \cup exceeded
  /\ <<u, a.pwd>> \in chosen
  /\ a.recovery # None => <<u, a.recovery.token>> \in issued

AllAuthorized(table) ==
  \A u \in Users : HasAccount(table, u) => Authorized(u, table[u])

(* What a request is about to store.                                       *)
MayStore(r) ==
  /\ pc[r] \in {"register", "keep"} => Authorized(hand[r].id, hand[r].acc)
  /\ pc[r] = "write" /\ saving[r] = "users" => AllAuthorized(snap[r])
  /\ pc[r] = "new" =>
       <<call[r].user, call[r].role>> \in granted \cup exceeded /\ <<call[r].user, call[r].pwd>> \in chosen
  /\ pc[r] = "target" /\ call[r].op = "role" =>
       \/ actor[r].acc.role # "owner" /\ call[r].role \in Protected
       \/ <<call[r].user, call[r].role>> \in granted \cup exceeded

Earned(t, s) ==
  \/ InitialFiles.sessions # None /\ InitialFiles.sessions[t] = s
  \/ \E d \in drawn : d.token = t /\ d.user = s.user /\ d.by \in proved

AllEarned(table) == \A t \in Tokens : table[t] # None => Earned(t, table[t])

Earns(r) ==
  /\ pc[r] = "issue" => r \in proved
  /\ pc[r] = "remember" => Earned(token[r], hand[r])
  /\ pc[r] = "write" /\ saving[r] = "sessions" => AllEarned(snap[r])

(* A request without an account, and one that is revoking sessions.        *)
Unknown(r) == NeedsActor(call[r]) /\ actor[r] = None

Revoking(r) ==
  \/ pc[r] \in {"revoke", "forget"}
  \/ pc[r] \in {"open", "write", "replace"} /\ saving[r] = "sessions"

(* No session of those a request found is another one by now; the ones     *)
(* that are left when it has listed them are among the listed.             *)
Covers(r) ==
  /\ pc[r] \in {"idle", "auth", "expire", "account", "drop"} => actor[r] = None
  /\ open[r] \cap Fresh = {}
  /\ \A t \in open[r] : sessions[t] # None => sessions[t].user = call[r].user
  /\ Revoking(r) /\ Revokes(call[r]) /\ (pc[r] = "revoke" \/ ~Unknown(r)) =>
       \A t \in open[r] : sessions[t] = None \/ t \in left[r]
  /\ proc # "up" => open[r] = {}

Local(r) == Asks(r) /\ Holds(r) /\ MayStore(r) /\ Earns(r) /\ Covers(r)

Everyone == \A r \in Requests : Local(r)

Accounts == \A table \in AccountTables : AllAuthorized(table)

-----------------------------------------------------------------------------
(***************************************************************************)
(* Calls.                                                                  *)
(***************************************************************************)
LEMMA CallFields ==
  ASSUME NEW c \in Call
  PROVE  /\ c.op \in {"login", "reset", "profile", "revoke", "create", "renew", "status", "role"}
              => c.user \in Users
         /\ c.op \in {"login", "reset", "create"} => c.pwd \in Passwords
         /\ c.op = "recover" => c.email \in Emails \cup {None}
         /\ c.op \in {"logout", "whoami", "profile", "revoke", "create", "renew", "status", "role"}
              => c.token \in Tokens
         /\ c.op = "create" => c.from \in 0..(MaxTime + 1)
         /\ c.op \in {"create", "renew"} => c.until \in 0..(MaxTime + 1)
         /\ c.op \in {"create", "role"} => c.role \in Roles
         /\ c.op = "status" => c.active \in BOOLEAN
BY DEF Call, LoginCall, RecoverCall, ResetCall, TokenCall, TargetCall, CreateCall, RenewCall,
       StatusCall, RoleCall, CountCall

LEMMA CallOps ==
  ASSUME NEW c \in Call
  PROVE  /\ NeedsActor(c) <=>
              c.op \in {"whoami", "profile", "revoke", "create", "renew", "status", "role"}
         /\ c.op \in {"login", "logout", "recover", "reset", "count", "whoami", "profile",
                      "revoke", "create", "renew", "status", "role"}
BY DEF Call, LoginCall, RecoverCall, ResetCall, TokenCall, TargetCall, CreateCall, RenewCall,
       StatusCall, RoleCall, CountCall, NeedsActor

-----------------------------------------------------------------------------
(***************************************************************************)
(* What every step keeps: the other requests, and what was ever allowed.   *)
(***************************************************************************)
Kept(q) ==
  /\ pc'[q] = pc[q] /\ call'[q] = call[q] /\ reply'[q] = reply[q]
  /\ actor'[q] = actor[q] /\ found'[q] = found[q] /\ hand'[q] = hand[q]
  /\ token'[q] = token[q] /\ left'[q] = left[q] /\ saving'[q] = saving[q]
  /\ snap'[q] = snap[q] /\ open'[q] = open[q]

Grow ==
  /\ drawn \subseteq drawn' /\ proved \subseteq proved' /\ issued \subseteq issued'
  /\ granted \subseteq granted' /\ exceeded \subseteq exceeded' /\ chosen \subseteq chosen'

(* A session is dropped or new, never changed.                             *)
Drift == \A t \in Tokens : sessions'[t] = sessions[t] \/ sessions'[t] = None \/ t \in Fresh

LEMMA AuthorizedStays ==
  ASSUME Grow, NEW u, NEW a, Authorized(u, a)
  PROVE  /\ <<u, a.role>> \in granted' \cup exceeded'
         /\ <<u, a.pwd>> \in chosen'
         /\ a.recovery # None => <<u, a.recovery.token>> \in issued'
BY DEF Grow, Authorized

LEMMA TableStays ==
  ASSUME Grow, NEW table, AllAuthorized(table)
  PROVE  \A u \in Users : HasAccount(table, u) =>
           /\ <<u, table[u].role>> \in granted' \cup exceeded'
           /\ <<u, table[u].pwd>> \in chosen'
           /\ table[u].recovery # None => <<u, table[u].recovery.token>> \in issued'
BY AuthorizedStays DEF AllAuthorized

LEMMA EarnedStays ==
  ASSUME Grow, NEW t, NEW s, Earned(t, s)
  PROVE  \/ InitialFiles.sessions # None /\ InitialFiles.sessions[t] = s
         \/ \E d \in drawn' : d.token = t /\ d.user = s.user /\ d.by \in proved'
BY DEF Grow, Earned

LEMMA EarnedTableStays ==
  ASSUME Grow, NEW table, AllEarned(table)
  PROVE  \A t \in Tokens : table[t] # None =>
           \/ InitialFiles.sessions # None /\ InitialFiles.sessions[t] = table[t]
           \/ \E d \in drawn' : d.token = t /\ d.user = table[t].user /\ d.by \in proved'
BY EarnedStays DEF AllEarned

LEMMA FreshShrinks == Grow => Fresh' \subseteq Fresh
BY DEF Grow, Fresh

(* What a request has found open stays covered.                            *)
LEMMA OpenStays ==
  ASSUME TypeOK, NEW q \in Requests, Covers(q), Grow, Drift, proc' = proc,
         call'[q] = call[q], open'[q] = open[q]
  PROVE  /\ open'[q] \cap Fresh' = {}
         /\ \A t \in open'[q] : sessions'[t] # None => sessions'[t].user = call'[q].user
         /\ proc' # "up" => open'[q] = {}
<1>1. open[q] \subseteq Tokens
  BY DEF TypeOK
<1> QED
  BY <1>1, FreshShrinks DEF Covers, Drift

LEMMA ListedStays ==
  ASSUME TypeOK, NEW q \in Requests, Covers(q), Drift, open'[q] = open[q], left'[q] = left[q],
         \A t \in open[q] : sessions[t] = None \/ t \in left[q]
  PROVE  \A t \in open'[q] : sessions'[t] = None \/ t \in left'[q]
<1>1. open[q] \subseteq Tokens
  BY DEF TypeOK
<1> QED
  BY <1>1 DEF Covers, Drift

LEMMA OthersStay ==
  ASSUME TypeOK, NEW q \in Requests, Local(q), Kept(q), Grow, Drift, proc' = proc
  PROVE  Local(q)'
<1> USE DEF Local
<1>1. Asks(q)'
  BY DEF Asks, Kept
<1>2. Holds(q)'
  BY DEF Holds, Kept
<1>3. MayStore(q)'
  <2>1. pc'[q] \in {"register", "keep"} => Authorized(hand[q].id, hand[q].acc)'
    BY AuthorizedStays DEF MayStore, Kept, Authorized
  <2>2. ASSUME pc'[q] = "write", saving'[q] = "users" PROVE AllAuthorized(snap[q])'
    <3>1. AllAuthorized(snap[q])
      BY <2>2 DEF MayStore, Kept
    <3> QED
      BY <3>1, TableStays DEF AllAuthorized, Authorized, Kept, HasAccount
  <2> QED
    BY <2>1, <2>2 DEF MayStore, Kept, Grow
<1>4. Earns(q)'
  <2>1. ASSUME pc'[q] = "write", saving'[q] = "sessions" PROVE AllEarned(snap[q])'
    <3>1. AllEarned(snap[q])
      BY <2>1 DEF Earns, Kept
    <3>2. snap'[q] = snap[q]
      BY DEF Kept
    <3> SUFFICES ASSUME NEW t \in Tokens, snap[q][t] # None
                 PROVE  Earned(t, snap[q][t])'
      BY <3>2 DEF AllEarned
    <3>3. Earned(t, snap[q][t])
      BY <3>1 DEF AllEarned
    <3> QED
      BY <3>2, <3>3, EarnedStays DEF Earned
  <2>2. pc'[q] = "remember" => Earned(token[q], hand[q])'
    BY EarnedStays DEF Earns, Kept, Earned
  <2> QED
    BY <2>1, <2>2 DEF Earns, Kept, Grow
<1>5. Covers(q)'
  <2>1. /\ open'[q] \cap Fresh' = {}
        /\ \A t \in open'[q] : sessions'[t] # None => sessions'[t].user = call'[q].user
        /\ proc' # "up" => open'[q] = {}
    BY OpenStays DEF Kept
  <2>2. ASSUME Revoking(q)', Revokes(call[q])', pc'[q] = "revoke" \/ ~Unknown(q)'
        PROVE  \A t \in open'[q] : sessions'[t] = None \/ t \in left'[q]
    <3>1. \A t \in open[q] : sessions[t] = None \/ t \in left[q]
      BY <2>2 DEF Covers, Kept, Revoking, Unknown, Revokes, NeedsActor
    <3> QED
      BY <3>1, ListedStays DEF Kept
  <2> QED
    BY <2>1, <2>2 DEF Covers, Kept
<1> QED
  BY <1>1, <1>2, <1>3, <1>4, <1>5

-----------------------------------------------------------------------------
(***************************************************************************)
(* The steps of a request, one by one: the types, and what it knows then.  *)
(***************************************************************************)
Frame == UNCHANGED <<proc, now, bounds>>

Replies == {"ok", "refused", "error"}

LEMMA GotoType ==
  ASSUME TypeOK, NEW r \in Requests, NEW step \in Steps, Goto(r, step)
  PROVE  pc' \in [Requests -> Steps \cup {"idle", "done"}] /\ pc'[r] = step
BY DEF TypeOK, Goto

LEMMA AnswerType ==
  ASSUME TypeOK, NEW r \in Requests, NEW what \in Replies, Answer(r, what)
  PROVE  /\ pc' \in [Requests -> Steps \cup {"idle", "done"}]
         /\ reply' \in [Requests -> Replies \cup {None}]
         /\ pc'[r] = "done" /\ reply'[r] = what
BY DEF TypeOK, Answer, Goto, Replies

(* A request that is answered knows nothing any more.                      *)
LEMMA DoneLocal ==
  ASSUME TypeOK, NEW r \in Requests, Local(r), pc'[r] = "done", Grow, Drift, proc' = proc,
         call'[r] = call[r], open'[r] = open[r]
  PROVE  Local(r)'
<1>1. /\ open'[r] \cap Fresh' = {}
      /\ \A t \in open'[r] : sessions'[t] # None => sessions'[t].user = call'[r].user
      /\ proc' # "up" => open'[r] = {}
  BY OpenStays DEF Local
<1> QED
  BY <1>1 DEF Local, Asks, Holds, MayStore, Earns, Covers, Revoking

(* A step that is not about sessions keeps what is covered.                *)
LEMMA CoversStays ==
  ASSUME TypeOK, NEW r \in Requests, Local(r), Grow, Drift, proc' = proc,
         call'[r] = call[r], open'[r] = open[r], ~Revoking(r)',
         pc'[r] \in {"idle", "auth", "expire", "account", "drop"} => actor'[r] = None
  PROVE  Covers(r)'
<1>1. /\ open'[r] \cap Fresh' = {}
      /\ \A t \in open'[r] : sessions'[t] # None => sessions'[t].user = call'[r].user
      /\ proc' # "up" => open'[r] = {}
  BY OpenStays DEF Local
<1> QED
  BY <1>1 DEF Covers

(* A token in use is not drawn again.                                      *)
LEMMA UsedNotFresh ==
  ASSUME SessionsAreEarned, NEW t \in Tokens, sessions[t] # None
  PROVE  t \notin Fresh
BY DEF SessionsAreEarned, SessionTables, Fresh

LEMMA StartType ==
  ASSUME TypeOK, NEW r \in Requests, Local(r), SessionsAreEarned, Frame, NEW c \in Offered, Start(r, c)
  PROVE  TypeOK' /\ Local(r)'
<1>1. c \in Call
  BY ConstantsAssumption
<1>2. /\ FirstStep(c) \in {"verify", "logout", "find", "check", "sweep", "auth"}
      /\ FirstStep(c) = "verify" => c.op = "login"
      /\ FirstStep(c) = "logout" => c.op = "logout"
      /\ FirstStep(c) = "find" => c.op = "recover"
      /\ FirstStep(c) = "check" => c.op = "reset"
      /\ FirstStep(c) = "sweep" => c.op = "count"
      /\ FirstStep(c) = "auth" => NeedsActor(c)
  BY DEF FirstStep, NeedsActor
<1>3. pc' \in [Requests -> Steps \cup {"idle", "done"}] /\ pc'[r] = FirstStep(c)
  BY <1>2, GotoType DEF Start, Steps
<1>4. Target(c) \subseteq Tokens
  BY DEF Target, SessionsOf
<1>5. TypeOK'
  BY <1>1, <1>3, <1>4 DEF Start, TypeOK, Frame, memory, files, work, bounds
<1>6. call'[r] = c /\ open'[r] = Target(c) /\ actor'[r] = actor[r]
  BY DEF Start, TypeOK, work
<1>7. Asks(r)'
  BY <1>1, <1>2, <1>3, <1>6 DEF Asks
<1>8. Holds(r)' /\ MayStore(r)' /\ Earns(r)'
  BY <1>2, <1>3 DEF Holds, MayStore, Earns
<1>9. Covers(r)'
  <2>1. sessions' = sessions /\ drawn' = drawn /\ proc' = "up"
    BY DEF Start, memory, Frame
  <2>2. actor[r] = None
    BY DEF Local, Covers, Start
  <2>3. \A t \in Target(c) : sessions[t] # None /\ sessions[t].user = c.user
    BY DEF Target, SessionsOf
  <2>4. Target(c) \cap Fresh = {}
    BY <1>4, <2>3, UsedNotFresh
  <2> QED
    BY <1>2, <1>3, <1>6, <2>1, <2>2, <2>3, <2>4 DEF Covers, Revoking, Fresh
<1> QED
  BY <1>5, <1>7, <1>8, <1>9 DEF Local

LEMMA AuthenticateType ==
  ASSUME TypeOK, NEW r \in Requests, Local(r), Frame, Authenticate(r)
  PROVE  TypeOK' /\ Local(r)'
<1>1. call[r] \in Call /\ NeedsActor(call[r]) /\ call[r].token \in Tokens
  BY CallFields, CallOps DEF Local, Asks, Authenticate
<1>2. Grow /\ Drift /\ proc' = proc /\ call' = call /\ open' = open /\ actor' = actor
  BY DEF Authenticate, Grow, Drift, history, memory, Frame
<1>3. CASE sessions[call[r].token] = None
  <2>1. Answer(r, "refused") /\ UNCHANGED <<token, found>>
    BY <1>3 DEF Authenticate
  <2>2. /\ pc' \in [Requests -> Steps \cup {"idle", "done"}]
        /\ reply' \in [Requests -> Replies \cup {None}]
        /\ pc'[r] = "done"
    BY <2>1, AnswerType DEF Replies
  <2>3. TypeOK'
    BY <2>1, <2>2
    DEF Authenticate, TypeOK, Replies, Frame, memory, files, bounds, history
  <2> QED
    BY <1>2, <2>2, <2>3, DoneLocal
<1>4. CASE sessions[call[r].token] # None
  <2> DEFINE t == call[r].token
             step == IF Expired(sessions[t]) THEN "expire" ELSE "account"
  <2>1. /\ Goto(r, step) /\ reply' = reply
        /\ token' = [token EXCEPT ![r] = t] /\ found' = [found EXCEPT ![r] = sessions[t]]
    BY <1>4 DEF Authenticate
  <2>2. pc' \in [Requests -> Steps \cup {"idle", "done"}] /\ pc'[r] = step
    BY <2>1, GotoType DEF Steps
  <2>3. sessions[t] \in Session
    BY <1>1, <1>4 DEF TypeOK, SessionTable
  <2>4. TypeOK'
    BY <1>1, <2>1, <2>2, <2>3
    DEF Authenticate, TypeOK, Frame, memory, files, bounds, history
  <2>5. token'[r] = t /\ found'[r] = sessions[t]
    BY <2>1 DEF TypeOK
  <2>6. Asks(r)' /\ Holds(r)' /\ MayStore(r)' /\ Earns(r)'
    BY <1>1, <1>2, <2>2, <2>3, <2>5 DEF Asks, Holds, MayStore, Earns
  <2>7. actor[r] = None
    BY DEF Local, Covers, Authenticate
  <2>8. Covers(r)'
    BY <1>2, <2>2, <2>7, CoversStays DEF Revoking
  <2> QED
    BY <2>4, <2>6, <2>8 DEF Local
<1> QED
  BY <1>3, <1>4

(* The session that is dropped for its request to know its account no      *)
(* more: too old, or of an account that is not valid.                      *)
LEMMA DropType ==
  ASSUME TypeOK, NEW r \in Requests, Local(r), Frame, DropExpired(r) \/ DropInvalid(r)
  PROVE  TypeOK' /\ Local(r)'
<1>1. /\ token[r] \in Tokens /\ actor[r] = None /\ NeedsActor(call[r]) /\ call[r] \in Call
      /\ UNCHANGED <<users, repo, files, call, work, history>>
  BY DEF Local, Asks, Holds, Covers, DropExpired, DropInvalid
<1>2. sessions' \in SessionTable /\ Drift
  BY <1>1 DEF DropExpired, DropInvalid, TypeOK, SessionTable, Drift
<1>3. Grow /\ proc' = proc /\ call' = call /\ open' = open /\ actor' = actor /\ token' = token
  BY <1>1 DEF Grow, history, work, Frame
<1>4. CASE sessions[token[r]] = None
  <2>1. Answer(r, "error") \/ Answer(r, "refused")
    BY <1>4 DEF DropExpired, DropInvalid
  <2>2. /\ pc' \in [Requests -> Steps \cup {"idle", "done"}]
        /\ reply' \in [Requests -> Replies \cup {None}]
        /\ pc'[r] = "done"
    BY <2>1, AnswerType DEF Replies
  <2>3. TypeOK'
    BY <1>1, <1>2, <2>2 DEF TypeOK, Replies, Frame, memory, files, work, bounds, history
  <2> QED
    BY <1>2, <1>3, <2>2, <2>3, DoneLocal
<1>5. CASE sessions[token[r]] # None
  <2>1. Goto(r, "forget") /\ reply' = reply
    BY <1>5 DEF DropExpired, DropInvalid
  <2>2. pc' \in [Requests -> Steps \cup {"idle", "done"}] /\ pc'[r] = "forget"
    BY <2>1, GotoType DEF Steps
  <2>3. TypeOK'
    BY <1>1, <1>2, <2>1, <2>2 DEF TypeOK, Frame, memory, files, work, bounds, history
  <2>4. Asks(r)' /\ Holds(r)' /\ MayStore(r)' /\ Earns(r)'
    BY <1>1, <1>3, <2>2 DEF Asks, Holds, MayStore, Earns
  <2>5. /\ open'[r] \cap Fresh' = {}
        /\ \A t \in open'[r] : sessions'[t] # None => sessions'[t].user = call'[r].user
        /\ proc' # "up" => open'[r] = {}
    BY <1>2, <1>3, OpenStays DEF Local
  <2>6. Unknown(r)'
    BY <1>1, <1>3 DEF Unknown, NeedsActor
  <2>7. Covers(r)'
    BY <1>1, <1>3, <2>2, <2>5, <2>6 DEF Covers
  <2> QED
    BY <2>3, <2>4, <2>7 DEF Local
<1> QED
  BY <1>4, <1>5

(* Who is authenticated is a person, and brings the rights to the call.    *)
LEMMA CheckAccountType ==
  ASSUME TypeOK, NEW r \in Requests, Local(r), Frame, CheckAccount(r)
  PROVE  TypeOK' /\ Local(r)'
<1> DEFINE u == found[r].user
           a == users[u]
           c == call[r]
<1>1. u \in Users /\ c \in Call /\ NeedsActor(c) /\ actor[r] = None
  BY DEF Local, Asks, Holds, Covers, CheckAccount, Session
<1>2. UNCHANGED <<memory, files, call, found, hand, token, left, saving, snap, fd,
                  drawn, proved, issued, open>>
  BY DEF CheckAccount
<1>3. Drift /\ proc' = proc
  BY <1>2 DEF Drift, memory, Frame
<1>4. CASE HasAccount(users, u) /\ IsValid(a)
  <2> DEFINE me == [id |-> u, acc |-> a]
  <2>1. a \in Account /\ me \in Person
    BY <1>1, <1>4 DEF HasAccount, TypeOK, UserTable, Person
  <2>2. /\ actor' = [actor EXCEPT ![r] = me]
        /\ granted' = granted \cup Grants(a, c)
        /\ exceeded' = exceeded \cup Exceeds(a, c)
        /\ chosen' = chosen \cup NewPasswords(a, c)
    BY <1>4 DEF CheckAccount
  <2>3. Grow
    BY <1>2, <2>2 DEF Grow
  <2>4. /\ Grants(a, c) \subseteq Users \X Roles /\ Exceeds(a, c) \subseteq Users \X Roles
        /\ NewPasswords(a, c) \subseteq Users \X Passwords
    BY <1>1, CallFields DEF Grants, Exceeds, NewPasswords
  <2>5. actor'[r] = me /\ actor' \in [Requests -> Person \cup {None}]
    BY <2>1, <2>2 DEF TypeOK, Person
  <2>6. /\ granted' \subseteq Users \X Roles /\ exceeded' \subseteq Users \X Roles
        /\ chosen' \subseteq Users \X Passwords
    BY <2>2, <2>4 DEF TypeOK
  <2>7. CASE c.op = "whoami" \/ ~MayCall(me, c)
    <3>1. Answer(r, "ok") \/ Answer(r, "refused")
      BY <1>4, <2>7 DEF CheckAccount
    <3>2. /\ pc' \in [Requests -> Steps \cup {"idle", "done"}]
          /\ reply' \in [Requests -> Replies \cup {None}]
          /\ pc'[r] = "done"
      BY <3>1, AnswerType DEF Replies
    <3>3. TypeOK'
      BY <1>2, <2>5, <2>6, <3>2
      DEF TypeOK, Replies, Frame, memory, files, bounds, Person
    <3> QED
      BY <1>2, <1>3, <2>3, <3>2, <3>3, DoneLocal
  <2>8. CASE c.op # "whoami" /\ MayCall(me, c)
    <3>1. Goto(r, AfterAuth(c)) /\ reply' = reply
      BY <1>4, <2>8 DEF CheckAccount
    <3>2. /\ AfterAuth(c) \in {"new", "list", "target"}
          /\ AfterAuth(c) = "new" <=> c.op = "create"
          /\ AfterAuth(c) = "list" <=> c.op = "revoke"
      BY DEF AfterAuth
    <3>3. pc' \in [Requests -> Steps \cup {"idle", "done"}] /\ pc'[r] = AfterAuth(c)
      BY <3>1, <3>2, GotoType DEF Steps
    <3>4. TypeOK'
      BY <1>2, <2>5, <2>6, <3>1, <3>3
      DEF TypeOK, Frame, memory, files, bounds, Person
    <3>5. Asks(r)'
      BY <1>1, <1>2, <2>8, <3>2, <3>3, CallOps DEF Asks, Revokes
    <3>6. Holds(r)' /\ Earns(r)'
      BY <2>1, <2>5, <3>2, <3>3 DEF Holds, Earns
    <3>7. c.op \in {"create", "role"} => a.role \in Protected
      BY <2>8 DEF MayCall
    <3>8. MayStore(r)'
      <4>1. ASSUME c.op = "create"
            PROVE  /\ <<c.user, c.role>> \in granted' \cup exceeded'
                   /\ <<c.user, c.pwd>> \in chosen'
        BY <2>2, <3>7, <4>1 DEF Grants, Exceeds, NewPasswords, Protected
      <4>2. ASSUME c.op = "role"
            PROVE  \/ a.role # "owner" /\ c.role \in Protected
                   \/ <<c.user, c.role>> \in granted' \cup exceeded'
        BY <2>2, <3>7, <4>2 DEF Grants, Protected
      <4> QED
        BY <1>2, <2>5, <3>2, <3>3, <4>1, <4>2 DEF MayStore
    <3>9. Covers(r)'
      BY <1>2, <1>3, <2>3, <3>2, <3>3, CoversStays DEF Revoking
    <3> QED
      BY <3>4, <3>5, <3>6, <3>8, <3>9 DEF Local
  <2> QED
    BY <2>7, <2>8
<1>5. CASE ~(HasAccount(users, u) /\ IsValid(a))
  <2>1. Goto(r, "drop") /\ UNCHANGED <<reply, actor, granted, exceeded, chosen>>
    BY <1>5 DEF CheckAccount
  <2>2. pc' \in [Requests -> Steps \cup {"idle", "done"}] /\ pc'[r] = "drop"
    BY <2>1, GotoType DEF Steps
  <2>3. TypeOK'
    BY <1>2, <2>1, <2>2 DEF TypeOK, Frame, memory, files, bounds
  <2>4. token[r] \in Tokens
    BY DEF Local, Holds, CheckAccount
  <2>5. Asks(r)' /\ Holds(r)' /\ MayStore(r)' /\ Earns(r)'
    BY <1>1, <1>2, <2>2, <2>4 DEF Asks, Holds, MayStore, Earns
  <2>6. Grow
    BY <1>2, <2>1 DEF Grow
  <2>7. Covers(r)'
    BY <1>1, <1>2, <1>3, <2>1, <2>2, <2>6, CoversStays DEF Revoking
  <2> QED
    BY <2>3, <2>5, <2>7 DEF Local
<1> QED
  BY <1>4, <1>5

(* What follows a save.                                                    *)
LEMMA ContinueLocal ==
  ASSUME TypeOK, NEW r \in Requests, Local(r), NEW store \in Stores, Continue(r, store),
         pc[r] \notin {"idle", "done"}, proc' = proc, Grow, sessions' = sessions,
         call' = call, actor' = actor, left' = left, open' = open, store = "sessions" => Revoking(r)
  PROVE  /\ pc' \in [Requests -> Steps \cup {"idle", "done"}]
         /\ reply' \in [Requests -> Replies \cup {None}]
         /\ Local(r)'
         /\ pc'[r] = "done" /\ reply'[r] = "ok" => ~Revokes(call[r])
<1> DEFINE c == call[r]
<1>1. c \in Call /\ Drift
  BY DEF Local, Asks, Drift
<1>2. CASE store = "users" /\ Revokes(c)
  <2>1. pc' \in [Requests -> Steps \cup {"idle", "done"}] /\ pc'[r] = "list" /\ reply' = reply
    BY <1>2, GotoType DEF Continue, Steps
  <2>2. Asks(r)' /\ Holds(r)' /\ MayStore(r)' /\ Earns(r)'
    BY <1>1, <1>2, <2>1 DEF Asks, Holds, MayStore, Earns
  <2>3. Covers(r)'
    BY <1>1, <2>1, CoversStays DEF Revoking
  <2> QED
    BY <2>1, <2>2, <2>3 DEF TypeOK, Replies, Local
<1>3. CASE ~(store = "users" /\ Revokes(c)) /\ Unknown(r)
  <2>1. Answer(r, "refused")
    BY <1>3 DEF Continue, Unknown
  <2> QED
    BY <1>1, <2>1, AnswerType, DoneLocal DEF Replies
<1>4. CASE /\ ~(store = "users" /\ Revokes(c)) /\ ~Unknown(r)
           /\ store = "sessions" /\ (Revokes(c) \/ c.op = "count")
  <2>1. pc' \in [Requests -> Steps \cup {"idle", "done"}] /\ pc'[r] = "revoke" /\ reply' = reply
    BY <1>4, GotoType DEF Continue, Steps, Unknown
  <2>2. Asks(r)' /\ Holds(r)' /\ MayStore(r)' /\ Earns(r)'
    BY <1>1, <1>4, <2>1 DEF Asks, Holds, MayStore, Earns
  <2>3. Covers(r)'
    <3>1. /\ open'[r] \cap Fresh' = {}
          /\ \A t \in open'[r] : sessions'[t] # None => sessions'[t].user = call'[r].user
          /\ proc' # "up" => open'[r] = {}
      BY <1>1, OpenStays DEF Local
    <3>2. Revokes(c) => \A t \in open'[r] : sessions'[t] = None \/ t \in left'[r]
      BY <1>4 DEF Local, Covers
    <3> QED
      BY <2>1, <3>1, <3>2 DEF Covers
  <2> QED
    BY <2>1, <2>2, <2>3 DEF TypeOK, Replies, Local
<1>5. CASE /\ ~(store = "users" /\ Revokes(c)) /\ ~Unknown(r)
           /\ ~(store = "sessions" /\ (Revokes(c) \/ c.op = "count"))
  <2>1. Answer(r, "ok")
    BY <1>5 DEF Continue, Unknown
  <2>2. ~Revokes(c)
    BY <1>5 DEF Stores
  <2> QED
    BY <1>1, <2>1, <2>2, AnswerType, DoneLocal DEF Replies
<1> QED
  BY <1>2, <1>3, <1>4, <1>5

(* A step of a save goes on with what was revoked.                         *)
LEMMA CoversGoesOn ==
  ASSUME TypeOK, NEW r \in Requests, Local(r), Grow, Drift, proc' = proc,
         call'[r] = call[r], open'[r] = open[r], actor'[r] = actor[r], left'[r] = left[r],
         Revoking(r)' => Revoking(r),
         pc'[r] \notin {"idle", "auth", "expire", "account", "drop", "revoke"}
  PROVE  Covers(r)'
<1>1. /\ open'[r] \cap Fresh' = {}
      /\ \A t \in open'[r] : sessions'[t] # None => sessions'[t].user = call'[r].user
      /\ proc' # "up" => open'[r] = {}
  BY OpenStays DEF Local
<1>2. ASSUME Revoking(r)', Revokes(call[r])', ~Unknown(r)'
      PROVE  \A t \in open'[r] : sessions'[t] = None \/ t \in left'[r]
  <2>1. Revoking(r) /\ Revokes(call[r]) /\ ~Unknown(r)
    BY <1>2 DEF Revokes, Unknown, NeedsActor
  <2>2. \A t \in open[r] : sessions[t] = None \/ t \in left[r]
    BY <2>1 DEF Local, Covers
  <2> QED
    BY <2>2, ListedStays DEF Local
<1> QED
  BY <1>1, <1>2 DEF Covers

LEMMA OpenTempType ==
  ASSUME TypeOK, NEW r \in Requests, Local(r), Accounts, SessionsAreEarned, Frame, OpenTemp(r)
  PROVE  TypeOK' /\ Local(r)'
<1>1. call[r] \in Call /\ saving[r] \in Stores
  BY DEF Local, Asks, Holds, OpenTemp
<1>2. UNCHANGED <<memory, disk, call, actor, found, hand, token, left, saving, reply, history>>
  BY DEF OpenTemp
<1>3. pc' \in [Requests -> Steps \cup {"idle", "done"}] /\ pc'[r] = "write"
  BY GotoType DEF OpenTemp, Steps
<1>4. Grow /\ Drift /\ proc' = proc
  BY <1>2 DEF Grow, Drift, history, memory, Frame
<1>5. repo[saving[r]] \in TableOf(saving[r])
  <2>1. repo["users"] \in UserTable /\ repo["sessions"] \in SessionTable
    BY DEF TypeOK
  <2> QED
    BY <1>1, <2>1 DEF TableOf, Stores
<1>6. snap'[r] = repo[saving[r]] /\ snap' \in [Requests -> Contents \cup {None}]
  BY <1>5 DEF OpenTemp, TypeOK, TableOf, Contents
<1>7. /\ DOMAIN temp' = Stores
      /\ temp'["users"] \in UserTable \cup {Empty, Torn, None}
      /\ temp'["sessions"] \in SessionTable \cup {Empty, Torn, None}
      /\ fd' \in [Requests -> {"temp", "disk", None}]
  BY <1>1 DEF OpenTemp, TypeOK, Stores
<1>8. TypeOK'
  BY <1>2, <1>3, <1>6, <1>7 DEF TypeOK, Frame, memory, bounds, history
<1>9. Asks(r)' /\ Holds(r)'
  BY <1>1, <1>2, <1>3, <1>5, <1>6 DEF Asks, Holds
<1>10. MayStore(r)'
  <2>1. AllAuthorized(repo.users)
    BY DEF Accounts, AccountTables
  <2>2. saving[r] = "users" => AllAuthorized(snap[r])'
    BY <1>2, <1>6, <2>1 DEF AllAuthorized, Authorized, HasAccount, history
  <2> QED
    BY <1>2, <1>3, <2>2 DEF MayStore
<1>11. Earns(r)'
  <2>1. AllEarned(repo.sessions)
    BY DEF SessionsAreEarned, SessionTables, AllEarned, Earned
  <2>2. saving[r] = "sessions" => AllEarned(snap[r])'
    BY <1>2, <1>6, <2>1 DEF AllEarned, Earned, history
  <2> QED
    BY <1>2, <1>3, <2>2 DEF Earns
<1>12. Covers(r)'
  BY <1>2, <1>3, <1>4, CoversGoesOn DEF OpenTemp, Revoking, history
<1> QED
  BY <1>8, <1>9, <1>10, <1>11, <1>12 DEF Local

LEMMA WriteTempType ==
  ASSUME TypeOK, NEW r \in Requests, Local(r), Frame, WriteTemp(r)
  PROVE  /\ TypeOK' /\ Local(r)'
         /\ \A f \in {"users", "sessions"} :
              /\ disk'[f] \in {disk[f], Torn} \/ (saving[r] = f /\ disk'[f] = snap[r])
              /\ temp'[f] \in {temp[f], Torn} \/ (saving[r] = f /\ temp'[f] = snap[r])
<1>1. call[r] \in Call /\ saving[r] \in Stores /\ snap[r] \in TableOf(saving[r])
  BY DEF Local, Asks, Holds, WriteTemp
<1>2. UNCHANGED <<memory, call, work, reply, history>>
  BY DEF WriteTemp
<1>3. pc' \in [Requests -> Steps \cup {"idle", "done"}] /\ pc'[r] = "replace"
  BY GotoType DEF WriteTemp, Steps
<1>4. Grow /\ Drift /\ proc' = proc
  BY <1>2 DEF Grow, Drift, history, memory, Frame
<1>5. /\ DOMAIN disk' = Stores /\ DOMAIN temp' = Stores
      /\ \A f \in {"users", "sessions"} :
           /\ disk'[f] \in {disk[f], Torn} \/ (saving[r] = f /\ disk'[f] = snap[r])
           /\ temp'[f] \in {temp[f], Torn} \/ (saving[r] = f /\ temp'[f] = snap[r])
  BY <1>1 DEF WriteTemp, Overwritten, TypeOK, Stores
<1>6. \A f \in {disk', temp'} :
        /\ f["users"] \in UserTable \cup {Empty, Torn, None}
        /\ f["sessions"] \in SessionTable \cup {Empty, Torn, None}
  BY <1>1, <1>5 DEF TypeOK, TableOf
<1>7. TypeOK'
  BY <1>2, <1>3, <1>5, <1>6 DEF TypeOK, Frame, memory, work, bounds, history
<1>8. Asks(r)' /\ Holds(r)' /\ MayStore(r)' /\ Earns(r)'
  BY <1>1, <1>2, <1>3 DEF Asks, Holds, MayStore, Earns, work
<1>9. Covers(r)'
  BY <1>2, <1>3, <1>4, CoversGoesOn DEF WriteTemp, Revoking, history, work
<1> QED
  BY <1>5, <1>7, <1>8, <1>9 DEF Local

LEMMA ReplaceType ==
  ASSUME TypeOK, NEW r \in Requests, Local(r), Frame, Replace(r)
  PROVE  /\ TypeOK' /\ Local(r)'
         /\ \A f \in {"users", "sessions"} :
              disk'[f] \in {disk[f], temp[f]} /\ temp'[f] \in {temp[f], None}
         /\ pc'[r] = "done" /\ reply'[r] = "ok" => ~Revokes(call[r])
<1> DEFINE s == saving[r]
<1>1. call[r] \in Call /\ s \in Stores
  BY DEF Local, Asks, Holds, Replace
<1>2. UNCHANGED <<memory, call, actor, found, hand, token, left, saving, snap, history>>
  BY DEF Replace
<1>3. Grow /\ Drift /\ proc' = proc /\ sessions' = sessions /\ open' = open
  BY <1>2 DEF Grow, Drift, history, memory, Frame
<1>4. CASE temp[s] = None
  <2>1. Answer(r, "error") /\ fd' = [fd EXCEPT ![r] = None] /\ UNCHANGED files
    BY <1>4 DEF Replace
  <2>2. /\ pc' \in [Requests -> Steps \cup {"idle", "done"}]
        /\ reply' \in [Requests -> Replies \cup {None}]
        /\ pc'[r] = "done" /\ reply'[r] = "error"
    BY <2>1, AnswerType DEF Replies
  <2>3. TypeOK'
    BY <1>2, <2>1, <2>2 DEF TypeOK, Replies, Frame, memory, files, bounds, history
  <2>4. Local(r)'
    BY <1>2, <1>3, <2>2, DoneLocal
  <2> QED
    BY <2>1, <2>2, <2>3, <2>4 DEF files
<1>5. CASE temp[s] # None
  <2>1. /\ disk' = [disk EXCEPT ![s] = temp[s]]
        /\ temp' = [temp EXCEPT ![s] = None]
        /\ fd' = [Renamed(s) EXCEPT ![r] = None]
        /\ Continue(r, s)
    BY <1>5 DEF Replace
  <2>2. s = "sessions" => Revoking(r)
    BY DEF Replace, Revoking
  <2>3. pc[r] \notin {"idle", "done"}
    BY DEF Replace
  <2>4. /\ pc' \in [Requests -> Steps \cup {"idle", "done"}]
        /\ reply' \in [Requests -> Replies \cup {None}]
        /\ Local(r)'
        /\ pc'[r] = "done" /\ reply'[r] = "ok" => ~Revokes(call[r])
    BY <1>1, <1>2, <1>3, <2>1, <2>2, <2>3, ContinueLocal
  <2>5. /\ DOMAIN disk' = Stores /\ DOMAIN temp' = Stores
        /\ \A f \in {"users", "sessions"} :
             disk'[f] \in {disk[f], temp[f]} /\ temp'[f] \in {temp[f], None}
    BY <1>1, <2>1 DEF TypeOK, Stores
  <2>6. \A f \in {disk', temp'} :
          /\ f["users"] \in UserTable \cup {Empty, Torn, None}
          /\ f["sessions"] \in SessionTable \cup {Empty, Torn, None}
    BY <2>5 DEF TypeOK
  <2>7. fd' \in [Requests -> {"temp", "disk", None}]
    BY <2>1 DEF Renamed, TypeOK
  <2>8. TypeOK'
    BY <1>2, <2>4, <2>5, <2>6, <2>7 DEF TypeOK, Replies, Frame, memory, bounds, history
  <2> QED
    BY <2>4, <2>5, <2>8
<1> QED
  BY <1>4, <1>5

LEMMA SaveFailsType ==
  ASSUME TypeOK, NEW r \in Requests, Local(r), SaveFails(r)
  PROVE  TypeOK' /\ Local(r)' /\ pc'[r] = "done" /\ reply'[r] = "error"
<1>1. UNCHANGED <<proc, now, memory, files, call, actor, found, hand, token, left, saving,
                  snap, crashes, history>>
  BY DEF SaveFails
<1>2. Grow /\ Drift
  BY <1>1 DEF Grow, Drift, history, memory
<1>3. /\ pc' \in [Requests -> Steps \cup {"idle", "done"}]
      /\ reply' \in [Requests -> Replies \cup {None}]
      /\ pc'[r] = "done" /\ reply'[r] = "error"
  BY AnswerType DEF SaveFails, Replies
<1>4. fd' \in [Requests -> {"temp", "disk", None}] /\ faults' \in 0..MaxFaults
  BY ConstantsAssumption DEF SaveFails, TypeOK
<1>5. TypeOK'
  BY <1>1, <1>3, <1>4 DEF TypeOK, Replies, memory, files, history
<1> QED
  BY <1>1, <1>2, <1>3, <1>5, DoneLocal DEF history

(* Login, logout and the sweep of dead sessions.                           *)
LEMMA VerifyType ==
  ASSUME TypeOK, NEW r \in Requests, Local(r), Frame, Verify(r)
  PROVE  TypeOK' /\ Local(r)' /\ (pc'[r] = "done" => reply'[r] = "refused")
<1> DEFINE c == call[r]
           ok == HasAccount(users, c.user) /\ users[c.user].pwd = c.pwd /\ IsValid(users[c.user])
<1>1. /\ UNCHANGED <<memory, files, call, work, drawn, issued, granted, exceeded, chosen, open>>
      /\ proved' = IF ok THEN proved \cup {r} ELSE proved
  BY DEF Verify
<1>2. Grow /\ Drift /\ proc' = proc /\ proved' \subseteq Requests
  BY <1>1 DEF Grow, Drift, memory, Frame, TypeOK
<1>3. c \in Call /\ c.op = "login"
  BY DEF Local, Asks, Verify
<1>4. CASE ok
  <2>1. pc' \in [Requests -> Steps \cup {"idle", "done"}] /\ pc'[r] = "issue" /\ reply' = reply
    BY <1>4, GotoType DEF Verify, Steps
  <2>2. TypeOK'
    BY <1>1, <1>2, <2>1 DEF TypeOK, Frame, memory, files, work, bounds
  <2>3. Asks(r)' /\ Holds(r)' /\ MayStore(r)' /\ Earns(r)'
    BY <1>1, <1>3, <1>4, <2>1 DEF Asks, Holds, MayStore, Earns
  <2>4. Covers(r)'
    BY <1>1, <1>2, <2>1, CoversStays DEF Revoking
  <2> QED
    BY <2>1, <2>2, <2>3, <2>4 DEF Local
<1>5. CASE ~ok
  <2>1. Answer(r, "refused")
    BY <1>5 DEF Verify
  <2>2. /\ pc' \in [Requests -> Steps \cup {"idle", "done"}]
        /\ reply' \in [Requests -> Replies \cup {None}]
        /\ pc'[r] = "done" /\ reply'[r] = "refused"
    BY <2>1, AnswerType DEF Replies
  <2>3. TypeOK'
    BY <1>1, <1>2, <2>2 DEF TypeOK, Replies, Frame, memory, files, work, bounds
  <2> QED
    BY <1>1, <1>2, <2>2, <2>3, DoneLocal
<1> QED
  BY <1>4, <1>5

LEMMA IssueType ==
  ASSUME TypeOK, NEW r \in Requests, Local(r), Frame, Issue(r)
  PROVE  /\ TypeOK' /\ Local(r)' /\ Grow /\ Drift
         /\ \A t \in Tokens : sessions'[t] = sessions[t] \/ Earned(t, sessions[t])'
<1> DEFINE u == call[r].user
<1>1. call[r] \in Call /\ call[r].op = "login" /\ u \in Users /\ r \in proved
  BY CallFields DEF Local, Asks, Earns, Issue
<1>2. UNCHANGED <<users, repo, files, call, actor, found, left, saving, snap, fd,
                  proved, issued, granted, exceeded, chosen, open>>
  BY DEF Issue
<1>3. CASE IsValid(users[u])
  <2> DEFINE new == [user |-> u, at |-> now]
  <2>1. PICK t \in Fresh :
          /\ sessions' = [sessions EXCEPT ![t] = new]
          /\ hand' = [hand EXCEPT ![r] = new]
          /\ token' = [token EXCEPT ![r] = t]
          /\ drawn' = drawn \cup {[token |-> t, user |-> u, by |-> r]}
          /\ Goto(r, "remember")
          /\ reply' = reply
    BY <1>3 DEF Issue
  <2>2. t \in Tokens /\ new \in Session
    BY <1>1, <2>1 DEF Fresh, Session, TypeOK
  <2>3. pc' \in [Requests -> Steps \cup {"idle", "done"}] /\ pc'[r] = "remember"
    BY <2>1, GotoType DEF Steps
  <2>4. sessions' \in SessionTable /\ sessions'[t] = new
    BY <2>1, <2>2 DEF TypeOK, SessionTable
  <2>5. Grow /\ Drift /\ proc' = proc
    BY <1>2, <2>1, <2>2 DEF Grow, Drift, Frame, TypeOK, SessionTable
  <2>6. hand'[r] = new /\ hand' \in [Requests -> Holding \cup {None}]
    BY <2>1, <2>2 DEF TypeOK, Holding
  <2>7. token'[r] = t /\ token' \in [Requests -> Tokens \cup {None}]
    BY <2>1, <2>2 DEF TypeOK
  <2>8. drawn' \in SUBSET [token: Tokens, user: Users, by: Requests]
    BY <1>1, <2>1, <2>2 DEF TypeOK
  <2>9. TypeOK'
    BY <1>2, <2>1, <2>3, <2>4, <2>6, <2>7, <2>8 DEF TypeOK, Frame, files, bounds
  <2>10. \E d \in drawn' : d.token = t /\ d.user = new.user /\ d.by \in proved'
    <3>1. [token |-> t, user |-> u, by |-> r] \in drawn'
      BY <2>1
    <3> QED
      BY <1>1, <1>2, <3>1
  <2>11. Asks(r)' /\ Holds(r)' /\ MayStore(r)' /\ Earns(r)'
    <3>1. Earned(token[r], hand[r])'
      BY <2>6, <2>7, <2>10 DEF Earned
    <3> QED
      BY <1>1, <1>2, <2>2, <2>3, <2>6, <2>7, <3>1 DEF Asks, Holds, MayStore, Earns
  <2>12. Covers(r)'
    BY <1>2, <2>3, <2>5, CoversStays DEF Revoking
  <2>13. \A x \in Tokens : sessions'[x] = sessions[x] \/ Earned(x, sessions[x])'
    <3> SUFFICES ASSUME NEW x \in Tokens, sessions'[x] # sessions[x]
                 PROVE  Earned(x, sessions[x])'
      OBVIOUS
    <3>1. x = t /\ sessions'[x] = new
      BY <2>1, <2>2, <2>4 DEF TypeOK, SessionTable
    <3> QED
      BY <2>10, <3>1 DEF Earned
  <2> QED
    BY <2>5, <2>9, <2>11, <2>12, <2>13 DEF Local
<1>4. CASE ~IsValid(users[u])
  <2>1. Answer(r, "ok") /\ UNCHANGED <<sessions, hand, token, drawn>>
    BY <1>4 DEF Issue
  <2>2. /\ pc' \in [Requests -> Steps \cup {"idle", "done"}]
        /\ reply' \in [Requests -> Replies \cup {None}]
        /\ pc'[r] = "done"
    BY <2>1, AnswerType DEF Replies
  <2>3. Grow /\ Drift /\ proc' = proc
    BY <1>2, <2>1 DEF Grow, Drift, Frame
  <2>4. TypeOK'
    BY <1>2, <2>1, <2>2 DEF TypeOK, Replies, Frame, files, bounds
  <2>5. Local(r)'
    BY <1>2, <2>2, <2>3, DoneLocal
  <2> QED
    BY <2>1, <2>3, <2>4, <2>5
<1> QED
  BY <1>3, <1>4

(* The map of the repository gets a session, or loses one.                 *)
LEMMA SaveSessionType ==
  ASSUME TypeOK, NEW r \in Requests, Local(r), Frame, token[r] \in Tokens,
         NEW s \in Session \cup {None},
         BeginSave(r, "sessions", [repo.sessions EXCEPT ![token[r]] = s]),
         pc[r] \in {"remember", "forget"},
         UNCHANGED <<users, sessions, files, call, actor, found, hand, token, left, snap, fd,
                     reply, history>>,
         Revokes(call[r]) => pc[r] = "forget"
  PROVE  /\ TypeOK' /\ Local(r)' /\ pc'[r] = "open" /\ repo'.users = repo.users
         /\ repo'.sessions = [repo.sessions EXCEPT ![token[r]] = s]
<1>1. pc' \in [Requests -> Steps \cup {"idle", "done"}] /\ pc'[r] = "open"
  BY GotoType DEF BeginSave, Steps
<1>2. /\ repo' \in [users: UserTable, sessions: SessionTable]
      /\ repo'.users = repo.users
      /\ repo'.sessions = [repo.sessions EXCEPT ![token[r]] = s]
  BY DEF BeginSave, TypeOK, SessionTable
<1>3. saving'[r] = "sessions" /\ saving' \in [Requests -> Stores \cup {None}]
  BY DEF BeginSave, TypeOK, Stores
<1>4. TypeOK'
  BY <1>1, <1>2, <1>3 DEF TypeOK, Frame, files, bounds, history
<1>5. Asks(r)' /\ Holds(r)' /\ MayStore(r)' /\ Earns(r)'
  BY <1>1, <1>3 DEF Local, Asks, Holds, MayStore, Earns, Stores
<1>6. Grow /\ Drift /\ proc' = proc
  BY DEF Grow, Drift, history, Frame
<1>7. Covers(r)'
  <2>1. CASE pc[r] = "forget"
    BY <1>1, <1>6, <2>1, CoversGoesOn DEF Revoking, history
  <2>2. CASE ~Revokes(call[r])
    <3>1. /\ open'[r] \cap Fresh' = {}
          /\ \A t \in open'[r] : sessions'[t] # None => sessions'[t].user = call'[r].user
          /\ proc' # "up" => open'[r] = {}
      BY <1>6, OpenStays DEF Local, history
    <3>2. ~Revokes(call[r])'
      BY <2>2 DEF Revokes
    <3> QED
      BY <1>1, <3>1, <3>2 DEF Covers
  <2> QED
    BY <2>1, <2>2
<1> QED
  BY <1>1, <1>2, <1>4, <1>5, <1>7 DEF Local

LEMMA RememberType ==
  ASSUME TypeOK, NEW r \in Requests, Local(r), Frame, Remember(r)
  PROVE  /\ TypeOK' /\ Local(r)' /\ pc'[r] = "open" /\ repo'.users = repo.users
         /\ repo'.sessions = [repo.sessions EXCEPT ![token[r]] = hand[r]]
<1>1. token[r] \in Tokens /\ hand[r] \in Session \cup {None} /\ ~Revokes(call[r])
  BY DEF Local, Asks, Holds, Revokes, Remember
<1> QED
  BY <1>1, SaveSessionType DEF Remember

LEMMA ForgetType ==
  ASSUME TypeOK, NEW r \in Requests, Local(r), Frame, Forget(r)
  PROVE  /\ TypeOK' /\ Local(r)' /\ repo'.users = repo.users
         /\ \/ repo'.sessions = repo.sessions
            \/ repo'.sessions = [repo.sessions EXCEPT ![token[r]] = None]
         /\ pc'[r] = "done" /\ reply'[r] = "ok" => ~Revokes(call[r])
<1>1. token[r] \in Tokens
  BY DEF Local, Holds, Forget
<1>2. UNCHANGED <<users, sessions, files, call, actor, found, hand, token, left, snap, fd, history>>
  BY DEF Forget
<1>3. CASE repo.sessions[token[r]] = None
  <2>1. Continue(r, "sessions") /\ repo' = repo /\ saving' = saving
    BY <1>3 DEF Forget
  <2>2. Grow /\ proc' = proc /\ open' = open
    BY <1>2 DEF Grow, history, Frame
  <2>3. Revoking(r) /\ pc[r] \notin {"idle", "done"} /\ "sessions" \in Stores
    BY DEF Forget, Revoking, Stores
  <2>4. /\ pc' \in [Requests -> Steps \cup {"idle", "done"}]
        /\ reply' \in [Requests -> Replies \cup {None}]
        /\ Local(r)'
        /\ pc'[r] = "done" /\ reply'[r] = "ok" => ~Revokes(call[r])
    BY <1>2, <2>1, <2>2, <2>3, ContinueLocal
  <2>5. TypeOK'
    BY <1>2, <2>1, <2>4 DEF TypeOK, Replies, Frame, files, bounds, history
  <2> QED
    BY <2>1, <2>4, <2>5
<1>4. CASE repo.sessions[token[r]] # None
  BY <1>1, <1>2, <1>4, SaveSessionType DEF Forget
<1> QED
  BY <1>3, <1>4

LEMMA LogoutType ==
  ASSUME TypeOK, NEW r \in Requests, Local(r), Frame, Logout(r)
  PROVE  TypeOK' /\ Local(r)' /\ Grow /\ Drift /\ ~Revokes(call[r])
<1> DEFINE t == call[r].token
<1>1. call[r] \in Call /\ t \in Tokens /\ ~Revokes(call[r]) /\ ~NeedsActor(call[r])
  BY CallFields DEF Local, Asks, Logout, Revokes, NeedsActor
<1>2. UNCHANGED <<users, repo, files, call, actor, found, hand, left, saving, snap, fd, history>>
  BY DEF Logout
<1>3. sessions' \in SessionTable /\ Drift
  BY <1>1 DEF Logout, TypeOK, SessionTable, Drift
<1>4. Grow /\ proc' = proc /\ call' = call /\ open' = open
  BY <1>2 DEF Grow, history, Frame
<1>5. CASE sessions[t] = None
  <2>1. Answer(r, "ok") /\ token' = token
    BY <1>5 DEF Logout
  <2>2. /\ pc' \in [Requests -> Steps \cup {"idle", "done"}]
        /\ reply' \in [Requests -> Replies \cup {None}]
        /\ pc'[r] = "done"
    BY <2>1, AnswerType DEF Replies
  <2>3. TypeOK'
    BY <1>2, <1>3, <2>1, <2>2 DEF TypeOK, Replies, Frame, files, bounds, history
  <2> QED
    BY <1>1, <1>3, <1>4, <2>2, <2>3, DoneLocal
<1>6. CASE sessions[t] # None
  <2>1. Goto(r, "forget") /\ reply' = reply /\ token' = [token EXCEPT ![r] = t]
    BY <1>6 DEF Logout
  <2>2. pc' \in [Requests -> Steps \cup {"idle", "done"}] /\ pc'[r] = "forget"
    BY <2>1, GotoType DEF Steps
  <2>3. token'[r] = t /\ token' \in [Requests -> Tokens \cup {None}]
    BY <1>1, <2>1 DEF TypeOK
  <2>4. TypeOK'
    BY <1>2, <1>3, <2>1, <2>2, <2>3 DEF TypeOK, Frame, files, bounds, history
  <2>5. Asks(r)' /\ Holds(r)' /\ MayStore(r)' /\ Earns(r)'
    BY <1>1, <1>4, <2>2, <2>3 DEF Asks, Holds, MayStore, Earns
  <2>6. /\ open'[r] \cap Fresh' = {}
        /\ \A x \in open'[r] : sessions'[x] # None => sessions'[x].user = call'[r].user
        /\ proc' # "up" => open'[r] = {}
    BY <1>3, <1>4, OpenStays DEF Local
  <2>7. ~Revokes(call[r])'
    BY <1>1, <1>4 DEF Revokes
  <2>8. Covers(r)'
    BY <2>2, <2>6, <2>7 DEF Covers
  <2> QED
    BY <1>1, <1>3, <1>4, <2>4, <2>5, <2>8 DEF Local
<1> QED
  BY <1>5, <1>6

LEMMA SweepType ==
  ASSUME TypeOK, NEW r \in Requests, Local(r), Frame, Sweep(r)
  PROVE  TypeOK' /\ Local(r)' /\ pc'[r] = "revoke"
<1>1. call[r] \in Call /\ call[r].op = "count" /\ ~Revokes(call[r])
  BY DEF Local, Asks, Sweep, Revokes
<1>2. UNCHANGED <<memory, files, call, actor, found, hand, token, saving, snap, fd, reply, history>>
  BY DEF Sweep
<1>3. pc' \in [Requests -> Steps \cup {"idle", "done"}] /\ pc'[r] = "revoke"
  BY GotoType DEF Sweep, Steps
<1>4. left' \in [Requests -> SUBSET Tokens]
  BY DEF Sweep, TypeOK
<1>5. TypeOK'
  BY <1>2, <1>3, <1>4 DEF TypeOK, Frame, memory, files, bounds, history
<1>6. Asks(r)' /\ Holds(r)' /\ MayStore(r)' /\ Earns(r)'
  BY <1>1, <1>2, <1>3 DEF Asks, Holds, MayStore, Earns
<1>7. Covers(r)'
  <2>1. Grow /\ Drift /\ proc' = proc
    BY <1>2 DEF Grow, Drift, history, memory, Frame
  <2>2. /\ open'[r] \cap Fresh' = {}
        /\ \A x \in open'[r] : sessions'[x] # None => sessions'[x].user = call'[r].user
        /\ proc' # "up" => open'[r] = {}
    BY <1>2, <2>1, OpenStays DEF Local, history
  <2>3. ~Revokes(call[r])'
    BY <1>1, <1>2 DEF Revokes
  <2> QED
    BY <1>3, <2>2, <2>3 DEF Covers
<1> QED
  BY <1>3, <1>5, <1>6, <1>7 DEF Local

(* The listed tokens are all that are left of those found open.            *)
LEMMA ListSessionsType ==
  ASSUME TypeOK, NEW r \in Requests, Local(r), Frame, ListSessions(r)
  PROVE  TypeOK' /\ Local(r)' /\ (pc'[r] = "done" => reply'[r] = "refused")
<1>1. call[r] \in Call /\ Revokes(call[r])
  BY DEF Local, Asks, ListSessions
<1>2. UNCHANGED <<memory, files, call, actor, found, hand, token, saving, snap, fd, history>>
  BY DEF ListSessions
<1>3. Grow /\ Drift /\ proc' = proc
  BY <1>2 DEF Grow, Drift, history, memory, Frame
<1>4. CASE HasAccount(users, call[r].user)
  <2>1. left' = [left EXCEPT ![r] = SessionsOf(call[r].user)] /\ Goto(r, "revoke") /\ reply' = reply
    BY <1>4 DEF ListSessions
  <2>2. pc' \in [Requests -> Steps \cup {"idle", "done"}] /\ pc'[r] = "revoke"
    BY <2>1, GotoType DEF Steps
  <2>3. left'[r] = SessionsOf(call[r].user) /\ left' \in [Requests -> SUBSET Tokens]
    BY <2>1 DEF TypeOK, SessionsOf
  <2>4. TypeOK'
    BY <1>2, <2>1, <2>2, <2>3 DEF TypeOK, Frame, memory, files, bounds, history
  <2>5. Asks(r)' /\ Holds(r)' /\ MayStore(r)' /\ Earns(r)'
    BY <1>1, <1>2, <2>2 DEF Asks, Holds, MayStore, Earns
  <2>6. /\ open'[r] \cap Fresh' = {}
        /\ \A x \in open'[r] : sessions'[x] # None => sessions'[x].user = call'[r].user
        /\ proc' # "up" => open'[r] = {}
    BY <1>2, <1>3, OpenStays DEF Local, history
  <2>7. open[r] \subseteq Tokens /\ open' = open /\ call' = call /\ sessions' = sessions
    BY <1>2 DEF TypeOK, memory, history
  <2>8. \A x \in open'[r] : sessions'[x] = None \/ x \in left'[r]
    BY <2>3, <2>6, <2>7 DEF SessionsOf
  <2>9. Covers(r)'
    BY <2>2, <2>6, <2>8 DEF Covers
  <2> QED
    BY <2>2, <2>4, <2>5, <2>9 DEF Local
<1>5. CASE ~HasAccount(users, call[r].user)
  <2>1. Answer(r, "refused") /\ left' = left
    BY <1>5 DEF ListSessions
  <2>2. /\ pc' \in [Requests -> Steps \cup {"idle", "done"}]
        /\ reply' \in [Requests -> Replies \cup {None}]
        /\ pc'[r] = "done" /\ reply'[r] = "refused"
    BY <2>1, AnswerType DEF Replies
  <2>3. TypeOK'
    BY <1>2, <2>1, <2>2 DEF TypeOK, Replies, Frame, memory, files, bounds, history
  <2> QED
    BY <1>2, <1>3, <2>2, <2>3, DoneLocal DEF history
<1> QED
  BY <1>4, <1>5

LEMMA RevokeNextType ==
  ASSUME TypeOK, NEW r \in Requests, Local(r), Frame, RevokeNext(r)
  PROVE  /\ TypeOK' /\ Local(r)' /\ Grow /\ Drift
         /\ pc'[r] = "done" /\ reply'[r] = "ok" /\ Revokes(call[r]) =>
              \A t \in open'[r] : sessions'[t] = None
<1>1. /\ call[r] \in Call /\ (Revokes(call[r]) \/ call[r].op = "count")
      /\ Revokes(call[r]) => \A t \in open[r] : sessions[t] = None \/ t \in left[r]
  BY DEF Local, Asks, Covers, Revoking, RevokeNext
<1>2. UNCHANGED <<users, repo, files, call, actor, found, hand, saving, snap, fd, history>>
  BY DEF RevokeNext
<1>3. Grow /\ proc' = proc /\ open' = open
  BY <1>2 DEF Grow, history, Frame
<1>4. CASE left[r] = {}
  <2>1. Answer(r, "ok") /\ UNCHANGED <<sessions, token, left>>
    BY <1>4 DEF RevokeNext
  <2>2. /\ pc' \in [Requests -> Steps \cup {"idle", "done"}]
        /\ reply' \in [Requests -> Replies \cup {None}]
        /\ pc'[r] = "done"
    BY <2>1, AnswerType DEF Replies
  <2>3. TypeOK'
    BY <1>2, <2>1, <2>2 DEF TypeOK, Replies, Frame, files, bounds, history
  <2>4. Drift
    BY <2>1 DEF Drift
  <2> QED
    BY <1>1, <1>2, <1>3, <1>4, <2>1, <2>2, <2>3, <2>4, DoneLocal
<1>5. CASE left[r] # {}
  <2>1. PICK t \in left[r] :
          /\ left' = [left EXCEPT ![r] = @ \ {t}]
          /\ IF sessions[t] # None
               THEN /\ sessions' = [sessions EXCEPT ![t] = None]
                    /\ token' = [token EXCEPT ![r] = t]
                    /\ Goto(r, "forget")
                    /\ UNCHANGED reply
               ELSE /\ UNCHANGED <<sessions, token>>
                    /\ IF call[r].op = "count" THEN UNCHANGED <<pc, reply>> ELSE Answer(r, "error")
    BY <1>5 DEF RevokeNext
  <2>2. t \in Tokens /\ left' \in [Requests -> SUBSET Tokens] /\ left'[r] = left[r] \ {t}
    BY <2>1 DEF TypeOK
  <2>3. sessions' \in SessionTable /\ Drift /\ sessions'[t] = None
    BY <2>1, <2>2 DEF TypeOK, SessionTable, Drift
  <2>4. /\ open'[r] \cap Fresh' = {}
        /\ \A x \in open'[r] : sessions'[x] # None => sessions'[x].user = call'[r].user
        /\ proc' # "up" => open'[r] = {}
    BY <1>2, <1>3, <2>3, OpenStays DEF Local
  <2>5. Revokes(call[r]) => \A x \in open'[r] : sessions'[x] = None \/ x \in left'[r]
    <3>1. open[r] \subseteq Tokens
      BY DEF TypeOK
    <3>2. \A x \in Tokens : sessions'[x] = sessions[x] \/ sessions'[x] = None
      BY <2>1, <2>2 DEF TypeOK, SessionTable
    <3> QED
      BY <1>1, <1>3, <2>2, <2>3, <3>1, <3>2
  <2>6. Covers(r)' \/ pc'[r] \notin {"revoke", "forget"}
    BY <1>2, <2>4, <2>5 DEF Covers, Revokes
  <2>7. CASE sessions[t] # None
    <3>1. pc' \in [Requests -> Steps \cup {"idle", "done"}] /\ pc'[r] = "forget" /\ reply' = reply
      BY <2>1, <2>7, GotoType DEF Steps
    <3>2. token'[r] = t /\ token' \in [Requests -> Tokens \cup {None}]
      BY <2>1, <2>2, <2>7 DEF TypeOK
    <3>3. TypeOK'
      BY <1>2, <2>2, <2>3, <3>1, <3>2 DEF TypeOK, Frame, files, bounds, history
    <3>4. Asks(r)' /\ Holds(r)' /\ MayStore(r)' /\ Earns(r)'
      BY <1>1, <1>2, <2>2, <3>1, <3>2 DEF Asks, Holds, MayStore, Earns
    <3> QED
      BY <1>3, <2>3, <2>6, <3>1, <3>3, <3>4 DEF Local
  <2>8. CASE sessions[t] = None /\ call[r].op = "count"
    <3>1. UNCHANGED <<sessions, token, pc, reply>>
      BY <2>1, <2>8
    <3>2. TypeOK'
      BY <1>2, <2>2, <3>1 DEF TypeOK, Frame, files, bounds, history
    <3>3. pc'[r] = "revoke"
      BY <3>1 DEF RevokeNext
    <3>4. Asks(r)' /\ Holds(r)' /\ MayStore(r)' /\ Earns(r)'
      BY <1>1, <1>2, <3>3 DEF Asks, Holds, MayStore, Earns, Revokes
    <3> QED
      BY <1>3, <2>3, <2>6, <3>2, <3>3, <3>4 DEF Local
  <2>9. CASE sessions[t] = None /\ call[r].op # "count"
    <3>1. Answer(r, "error") /\ UNCHANGED <<sessions, token>>
      BY <2>1, <2>9
    <3>2. /\ pc' \in [Requests -> Steps \cup {"idle", "done"}]
          /\ reply' \in [Requests -> Replies \cup {None}]
          /\ pc'[r] = "done" /\ reply'[r] = "error"
      BY <3>1, AnswerType DEF Replies
    <3>3. TypeOK'
      BY <1>2, <2>2, <3>1, <3>2 DEF TypeOK, Replies, Frame, files, bounds, history
    <3>4. Local(r)'
      BY <1>2, <1>3, <2>3, <3>2, DoneLocal
    <3> QED
      BY <1>3, <2>3, <3>2, <3>3, <3>4
  <2> QED
    BY <2>7, <2>8, <2>9
<1> QED
  BY <1>4, <1>5

(* Accounts.  The new one is built from what is stored and from the call.  *)
LEMMA BuildType ==
  ASSUME TypeOK, NEW r \in Requests, Local(r), Frame,
         NEW u \in Users, NEW a \in Account, Build(r, u, a), Grow,
         UNCHANGED <<memory, files, call, actor, found, token, left, saving, snap, fd, open>>,
         drawn' \in SUBSET [token: Tokens, user: Users, by: Requests], proved' \subseteq Requests,
         issued' \subseteq Users \X RecoveryTokens, granted' \subseteq Users \X Roles,
         exceeded' \subseteq Users \X Roles, chosen' \subseteq Users \X Passwords, pc[r] \notin {"idle", "done"},
         <<u, a.role>> \in granted' \cup exceeded', <<u, a.pwd>> \in chosen',
         a.recovery # None => <<u, a.recovery.token>> \in issued'
  PROVE  TypeOK' /\ Local(r)' /\ pc'[r] = "register"
<1>1. pc' \in [Requests -> Steps \cup {"idle", "done"}] /\ pc'[r] = "register" /\ reply' = reply
  BY GotoType DEF Build, Steps
<1>2. /\ hand'[r] = [id |-> u, acc |-> a] /\ [id |-> u, acc |-> a] \in Person
      /\ hand' \in [Requests -> Holding \cup {None}]
  BY DEF Build, TypeOK, Holding, Person
<1>3. TypeOK'
  BY <1>1, <1>2 DEF TypeOK, Frame, memory, files, bounds
<1>4. call[r] \in Call
  BY DEF Local, Asks
<1>5. MayStore(r)'
  BY <1>1, <1>2 DEF MayStore, Authorized
<1>6. Asks(r)' /\ Holds(r)' /\ Earns(r)'
  BY <1>1, <1>2, <1>4 DEF Asks, Holds, Earns
<1>7. Drift /\ proc' = proc
  BY DEF Drift, memory, Frame
<1>8. Covers(r)'
  BY <1>1, <1>7, CoversStays DEF Revoking
<1> QED
  BY <1>1, <1>3, <1>5, <1>6, <1>8 DEF Local

LEMMA AnsweredType ==
  ASSUME TypeOK, NEW r \in Requests, Local(r), Frame, NEW what \in Replies, Answer(r, what),
         UNCHANGED <<memory, files, call, actor, found, hand, token, left, saving, snap, fd,
                     history>>
  PROVE  TypeOK' /\ Local(r)' /\ pc'[r] = "done" /\ reply'[r] = what
<1>1. /\ pc' \in [Requests -> Steps \cup {"idle", "done"}]
      /\ reply' \in [Requests -> Replies \cup {None}]
      /\ pc'[r] = "done" /\ reply'[r] = what
  BY AnswerType
<1>2. TypeOK'
  BY <1>1 DEF TypeOK, Replies, Frame, memory, files, bounds, history
<1>3. Grow /\ Drift /\ proc' = proc /\ call' = call /\ open' = open
  BY DEF Grow, Drift, history, memory, Frame
<1> QED
  BY <1>1, <1>2, <1>3, DoneLocal

LEMMA NewType ==
  ASSUME TypeOK, NEW r \in Requests, Local(r), Frame, New(r)
  PROVE  TypeOK' /\ Local(r)' /\ (pc'[r] = "done" => reply'[r] = "refused")
<1> DEFINE c == call[r]
           a == [role |-> c.role, active |-> TRUE, from |-> c.from, until |-> c.until,
                 pwd |-> c.pwd, email |-> None, recovery |-> None]
<1>1. /\ c \in Call /\ c.op = "create"
      /\ <<c.user, c.role>> \in granted \cup exceeded /\ <<c.user, c.pwd>> \in chosen
  BY DEF Local, Asks, MayStore, New
<1>2. c.user \in Users /\ a \in Account
  <2>1. /\ c.user \in Users /\ c.role \in Roles /\ c.pwd \in Passwords
        /\ c.from \in 0..(MaxTime + 1) /\ c.until \in 0..(MaxTime + 1)
    BY <1>1, CallFields
  <2> QED
    BY <2>1 DEF Account
<1>3. UNCHANGED <<memory, files, call, actor, found, token, left, saving, snap, fd, history>>
  BY DEF New
<1>4. CASE HasAccount(users, c.user) \/ c.until <= c.from
  <2>1. Answer(r, "refused") /\ hand' = hand
    BY <1>4 DEF New, Refuse
  <2> QED
    BY <1>3, <2>1, AnsweredType DEF Replies
<1>5. CASE ~(HasAccount(users, c.user) \/ c.until <= c.from)
  <2>1. Build(r, c.user, a)
    BY <1>5 DEF New
  <2>2. Grow /\ pc[r] \notin {"idle", "done"}
    BY <1>3 DEF Grow, history, New
  <2>3. a.role = c.role /\ a.pwd = c.pwd /\ a.recovery = None
    OBVIOUS
  <2> HIDE DEF a, c
  <2> QED
    BY <1>1, <1>2, <1>3, <2>1, <2>2, <2>3, BuildType DEF history, TypeOK
<1> QED
  BY <1>4, <1>5

LEMMA ReadTargetType ==
  ASSUME TypeOK, NEW r \in Requests, Local(r), Accounts, Frame, ReadTarget(r)
  PROVE  TypeOK' /\ Local(r)' /\ (pc'[r] = "done" => reply'[r] = "refused")
<1> DEFINE c == call[r]
           a == users[c.user]
<1>1. /\ c \in Call /\ c.op \in {"renew", "status", "role", "profile"} /\ c.user \in Users
      /\ c.op = "renew" => c.until \in 0..(MaxTime + 1)
      /\ c.op = "status" => c.active \in BOOLEAN
      /\ c.op = "role" => c.role \in Roles
  BY CallFields DEF Local, Asks, ReadTarget
<1>2. UNCHANGED <<memory, files, call, actor, found, token, left, saving, snap, fd, history>>
  BY DEF ReadTarget
<1>3. CASE ~HasAccount(users, c.user) \/ Forbidden(r, a)
  <2>1. Answer(r, "refused") /\ hand' = hand
    BY <1>3 DEF ReadTarget, Refuse
  <2> QED
    BY <1>2, <2>1, AnsweredType DEF Replies
<1>4. CASE HasAccount(users, c.user) /\ ~Forbidden(r, a)
  <2> DEFINE b == Changed(a, c)
  <2>1. Build(r, c.user, b)
    BY <1>4 DEF ReadTarget
  <2>2. a \in Account /\ Authorized(c.user, a)
    BY <1>1, <1>4 DEF HasAccount, TypeOK, UserTable, Accounts, AccountTables, AllAuthorized
  <2>3. b \in Account
    BY <1>1, <2>2 DEF Changed, Account
  <2>4. b.pwd = a.pwd /\ b.recovery = None /\ b.role = (IF c.op = "role" THEN c.role ELSE a.role)
    BY <1>1, <2>2 DEF Changed, Account
  <2>5. c.op = "role" => <<c.user, c.role>> \in granted \cup exceeded
    <3>1. c.op = "role" => ~(actor[r].acc.role # "owner" /\ c.role \in Protected)
      BY <1>4 DEF Forbidden
    <3> QED
      BY <3>1 DEF Local, MayStore, ReadTarget
  <2>6. Grow /\ pc[r] \notin {"idle", "done"}
    BY <1>2 DEF Grow, history, ReadTarget
  <2>7. <<c.user, b.role>> \in granted \cup exceeded /\ <<c.user, b.pwd>> \in chosen
    BY <2>2, <2>4, <2>5 DEF Authorized
  <2> HIDE DEF b, c
  <2> QED
    BY <1>1, <1>2, <2>1, <2>3, <2>4, <2>6, <2>7, BuildType DEF history, TypeOK
<1> QED
  BY <1>3, <1>4

LEMMA FindRecoveryType ==
  ASSUME TypeOK, NEW r \in Requests, Local(r), Accounts, Frame, FindRecovery(r)
  PROVE  TypeOK' /\ Local(r)' /\ Grow /\ ~Revokes(call[r])
<1> DEFINE c == call[r]
<1>1. c \in Call /\ c.op = "recover" /\ c.email \in Emails \cup {None} /\ ~Revokes(c)
  BY CallFields DEF Local, Asks, FindRecovery, Revokes
<1>2. UNCHANGED <<memory, files, call, actor, found, token, left, saving, snap, fd,
                  drawn, proved, granted, exceeded, chosen, open>>
  BY DEF FindRecovery
<1>3. CASE Answer(r, "ok") /\ UNCHANGED <<hand, issued>>
  <2>1. Grow
    BY <1>2, <1>3 DEF Grow
  <2> QED
    BY <1>1, <1>2, <1>3, <2>1, AnsweredType DEF Replies, history
<1>4. CASE \E u \in Candidates(c) : \E t \in RecoveryTokens :
             /\ issued' = issued \cup {<<u, t>>}
             /\ Build(r, u, [users[u] EXCEPT !.email = c.email,
                               !.recovery = [token |-> t, until |-> now + RecoveryAge]])
  <2>1. PICK u \in Candidates(c), t \in RecoveryTokens :
          /\ issued' = issued \cup {<<u, t>>}
          /\ Build(r, u, [users[u] EXCEPT !.email = c.email,
                            !.recovery = [token |-> t, until |-> now + RecoveryAge]])
    BY <1>4
  <2> DEFINE a == users[u]
             b == [a EXCEPT !.email = c.email,
                            !.recovery = [token |-> t, until |-> now + RecoveryAge]]
  <2>2. u \in Users /\ HasAccount(users, u)
    <3>1. CASE c.user # None /\ HasAccount(users, c.user)
      <4>1. u = c.user
        BY <3>1 DEF Candidates
      <4>2. c.user \in Users \cup {None}
        BY <1>1 DEF Call, LoginCall, RecoverCall, ResetCall, TokenCall, TargetCall, CreateCall,
                    RenewCall, StatusCall, RoleCall, CountCall
      <4> QED
        BY <3>1, <4>1, <4>2
    <3>2. CASE ~(c.user # None /\ HasAccount(users, c.user))
      BY <3>2 DEF Candidates
    <3> QED
      BY <3>1, <3>2
  <2>3. a \in Account /\ Authorized(u, a)
    BY <2>2 DEF HasAccount, TypeOK, UserTable, Accounts, AccountTables, AllAuthorized
  <2>4. [token |-> t, until |-> now + RecoveryAge]
          \in [token: RecoveryTokens, until: 0..(MaxTime + RecoveryAge)]
    BY ConstantsAssumption DEF TypeOK, Now
  <2>5. b \in Account /\ b.role = a.role /\ b.pwd = a.pwd /\ b.recovery.token = t
    BY <1>1, <2>3, <2>4 DEF Account
  <2>6. Grow /\ issued' \subseteq Users \X RecoveryTokens
    BY <1>2, <2>1, <2>2 DEF Grow, TypeOK
  <2>7. /\ <<u, b.role>> \in granted' \cup exceeded' /\ <<u, b.pwd>> \in chosen'
        /\ <<u, b.recovery.token>> \in issued'
    BY <1>2, <2>1, <2>3, <2>5 DEF Authorized
  <2>8. pc[r] \notin {"idle", "done"}
    BY DEF FindRecovery
  <2>9. Build(r, u, b)
    BY <2>1
  <2>10. /\ drawn' \in SUBSET [token: Tokens, user: Users, by: Requests]
         /\ proved' \subseteq Requests /\ granted' \subseteq Users \X Roles
         /\ exceeded' \subseteq Users \X Roles /\ chosen' \subseteq Users \X Passwords
    BY <1>2 DEF TypeOK
  <2> HIDE DEF a, b, c
  <2>11. TypeOK' /\ Local(r)'
    BY <1>2, <2>2, <2>5, <2>6, <2>7, <2>8, <2>9, <2>10, BuildType
  <2> QED
    BY <1>1, <2>6, <2>11 DEF c
<1> QED
  <2> DEFINE Silent == Answer(r, "ok") /\ UNCHANGED <<hand, issued>>
             Refused(u) == \/ ~IsValid(users[u])
                           \/ users[u].email # None /\ c.email # None /\ users[u].email # c.email
             Given(u, t) ==
               /\ issued' = issued \cup {<<u, t>>}
               /\ Build(r, u, [users[u] EXCEPT !.email = c.email,
                                 !.recovery = [token |-> t, until |-> now + RecoveryAge]])
  <2>1. \/ Silent
        \/ \E u \in Candidates(c) :
             IF Refused(u) THEN Silent ELSE \E t \in RecoveryTokens \ {i[2] : i \in issued} : Given(u, t)
    BY DEF FindRecovery
  <2>2. CASE Silent
    BY <1>3, <2>2
  <2>3. CASE \E u \in Candidates(c) : \E t \in RecoveryTokens : Given(u, t)
    BY <1>4, <2>3
  <2> HIDE DEF Silent, Refused, Given, c
  <2> QED
    BY <2>1, <2>2, <2>3

LEMMA CheckRecoveryType ==
  ASSUME TypeOK, NEW r \in Requests, Local(r), Accounts, Frame, CheckRecovery(r)
  PROVE  TypeOK' /\ Local(r)' /\ Grow /\ (pc'[r] = "done" => reply'[r] = "refused")
<1> DEFINE c == call[r]
           a == users[c.user]
           ok == /\ HasAccount(users, c.user) /\ a.recovery # None
                 /\ now < a.recovery.until /\ a.recovery.token = c.recovery /\ c.pwd \notin Weak
<1>1. c \in Call /\ c.op = "reset" /\ c.user \in Users /\ c.pwd \in Passwords
  BY CallFields DEF Local, Asks, CheckRecovery
<1>2. UNCHANGED <<memory, files, call, actor, found, token, left, saving, snap, fd,
                  drawn, proved, issued, granted, exceeded, open>>
  BY DEF CheckRecovery
<1>3. CASE ~ok
  <2>1. Answer(r, "refused") /\ hand' = hand /\ chosen' = chosen
    BY <1>3 DEF CheckRecovery, Refuse
  <2>2. Grow
    BY <1>2, <2>1 DEF Grow
  <2> QED
    BY <1>2, <2>1, <2>2, AnsweredType DEF Replies, history
<1>4. CASE ok
  <2> DEFINE b == [a EXCEPT !.pwd = c.pwd, !.recovery = None]
  <2>1. Build(r, c.user, b) /\ chosen' = ChosenWith(c)
    BY <1>4 DEF CheckRecovery
  <2>2. a \in Account /\ Authorized(c.user, a)
    BY <1>1, <1>4 DEF HasAccount, TypeOK, UserTable, Accounts, AccountTables, AllAuthorized
  <2>3. <<c.user, c.recovery>> \in issued
    BY <1>4, <2>2 DEF Authorized
  <2>4. chosen' = chosen \cup {<<c.user, c.pwd>>}
    BY <2>1, <2>3 DEF ChosenWith
  <2>5. b \in Account /\ b.role = a.role /\ b.pwd = c.pwd /\ b.recovery = None
    BY <1>1, <2>2 DEF Account
  <2>6. Grow /\ chosen' \subseteq Users \X Passwords /\ pc[r] \notin {"idle", "done"}
    BY <1>1, <1>2, <2>4 DEF Grow, TypeOK, CheckRecovery
  <2>7. <<c.user, b.role>> \in granted' \cup exceeded' /\ <<c.user, b.pwd>> \in chosen'
    BY <1>2, <2>2, <2>4, <2>5 DEF Authorized
  <2> HIDE DEF b, c
  <2> QED
    BY <1>1, <1>2, <2>1, <2>5, <2>6, <2>7, BuildType DEF TypeOK
<1> QED
  BY <1>3, <1>4

LEMMA RegisterType ==
  ASSUME TypeOK, NEW r \in Requests, Local(r), Frame, Register(r)
  PROVE  /\ TypeOK' /\ Local(r)' /\ pc'[r] = "keep"
         /\ \A u \in Users : users'[u] = users[u] \/ Authorized(u, users'[u])
<1>1. /\ call[r] \in Call /\ hand[r] \in Person /\ Authorized(hand[r].id, hand[r].acc)
  BY DEF Local, Asks, Holds, MayStore, Register
<1>2. UNCHANGED <<sessions, repo, files, call, work, reply, history>>
  BY DEF Register
<1>3. pc' \in [Requests -> Steps \cup {"idle", "done"}] /\ pc'[r] = "keep"
  BY GotoType DEF Register, Steps
<1>4. /\ users' \in UserTable
      /\ \A u \in Users : users'[u] = users[u] \/ (u = hand[r].id /\ users'[u] = hand[r].acc)
  BY <1>1 DEF Register, TypeOK, UserTable, Person
<1>5. TypeOK'
  BY <1>2, <1>3, <1>4 DEF TypeOK, Frame, files, work, bounds, history
<1>6. Asks(r)' /\ Holds(r)' /\ MayStore(r)' /\ Earns(r)'
  BY <1>1, <1>2, <1>3 DEF Asks, Holds, MayStore, Earns, Authorized, work, history
<1>7. Grow /\ Drift /\ proc' = proc
  BY <1>2 DEF Grow, Drift, history, Frame
<1>8. Covers(r)'
  BY <1>2, <1>3, <1>7, CoversStays DEF Revoking, history
<1> QED
  BY <1>1, <1>3, <1>4, <1>5, <1>6, <1>8 DEF Local

LEMMA KeepType ==
  ASSUME TypeOK, NEW r \in Requests, Local(r), Frame, Keep(r)
  PROVE  /\ TypeOK' /\ Local(r)' /\ pc'[r] = "open" /\ repo'.sessions = repo.sessions
         /\ \A u \in Users : repo'.users[u] = repo.users[u] \/ Authorized(u, repo'.users[u])
<1>1. /\ call[r] \in Call /\ hand[r] \in Person /\ Authorized(hand[r].id, hand[r].acc)
  BY DEF Local, Asks, Holds, MayStore, Keep
<1>2. UNCHANGED <<users, sessions, files, call, actor, found, hand, token, left, snap, fd,
                  reply, history>>
  BY DEF Keep
<1>3. pc' \in [Requests -> Steps \cup {"idle", "done"}] /\ pc'[r] = "open"
  BY GotoType DEF Keep, BeginSave, Steps
<1>4. /\ repo' \in [users: UserTable, sessions: SessionTable]
      /\ repo'.sessions = repo.sessions
      /\ repo'.users = [repo.users EXCEPT ![hand[r].id] = hand[r].acc]
  BY <1>1 DEF Keep, BeginSave, TypeOK, UserTable, Person
<1>5. \A u \in Users :
        repo'.users[u] = repo.users[u] \/ (u = hand[r].id /\ repo'.users[u] = hand[r].acc)
  BY <1>4 DEF TypeOK, UserTable
<1>6. saving'[r] = "users" /\ saving' \in [Requests -> Stores \cup {None}]
  BY DEF Keep, BeginSave, TypeOK, Stores
<1>7. TypeOK'
  BY <1>2, <1>3, <1>4, <1>6 DEF TypeOK, Frame, files, bounds, history
<1>8. Asks(r)' /\ Holds(r)' /\ MayStore(r)' /\ Earns(r)'
  BY <1>1, <1>2, <1>3, <1>6 DEF Asks, Holds, MayStore, Earns, Stores
<1>9. Grow /\ Drift /\ proc' = proc
  BY <1>2 DEF Grow, Drift, history, Frame
<1>10. Covers(r)'
  BY <1>2, <1>3, <1>6, <1>9, CoversStays DEF Revoking, history
<1> QED
  BY <1>1, <1>3, <1>4, <1>5, <1>7, <1>8, <1>10 DEF Local

-----------------------------------------------------------------------------
(***************************************************************************)
(* What the steps do to the maps and the files, and what they answer.      *)
(***************************************************************************)
Answered(r) ==
  pc[r] = "done" /\ reply[r] = "ok" /\ call[r] # None /\ Revokes(call[r]) =>
    \A t \in open[r] : sessions[t] = None

Sound == Accounts /\ SessionsAreEarned

LEMMA AccountsStay ==
  ASSUME Accounts, Grow, \A table \in AccountTables' : table \in AccountTables \/ AllAuthorized(table)
  PROVE  Accounts'
<1> SUFFICES ASSUME NEW table \in AccountTables', NEW u \in Users, HasAccount(table, u)
             PROVE  Authorized(u, table[u])'
  BY DEF Accounts, AllAuthorized, HasAccount
<1>1. Authorized(u, table[u])
  BY DEF Accounts, AllAuthorized
<1> QED
  BY <1>1, AuthorizedStays DEF Authorized

LEMMA SessionsStay ==
  ASSUME SessionsAreEarned, Grow,
         \A table \in SessionTables' : table \in SessionTables \/ AllEarned(table)
  PROVE  SessionsAreEarned'
<1> SUFFICES ASSUME NEW table \in SessionTables', NEW t \in Tokens, table[t] # None
             PROVE  \/ InitialFiles.sessions # None /\ InitialFiles.sessions[t] = table[t]
                    \/ \E d \in drawn' : d.token = t /\ d.user = table[t].user /\ d.by \in proved'
  BY DEF SessionsAreEarned
<1>1. Earned(t, table[t])
  BY DEF SessionsAreEarned, Earned, AllEarned
<1> QED
  BY <1>1, EarnedStays

LEMMA StoredStays ==
  ASSUME Sound, Grow, UNCHANGED <<users, repo, files>>,
         \A t \in Tokens : sessions'[t] = sessions[t] \/ sessions'[t] = None
  PROVE  Sound'
<1>1. AccountTables' = AccountTables
  BY DEF AccountTables, files
<1>2. AllEarned(sessions')
  <2>1. AllEarned(sessions)
    BY DEF Sound, SessionsAreEarned, SessionTables, AllEarned, Earned
  <2> QED
    BY <2>1 DEF AllEarned
<1>3. \A table \in SessionTables' : table \in SessionTables \/ AllEarned(table)
  BY <1>2 DEF SessionTables, files
<1> QED
  BY <1>1, <1>3, AccountsStay, SessionsStay DEF Sound

LEMMA MemoryStays ==
  ASSUME Sound, Grow, UNCHANGED <<memory, files>>
  PROVE  Sound'
BY StoredStays DEF memory

LEMMA IdentifyStep ==
  ASSUME TypeOK, NEW r \in Requests, Local(r), Sound, Frame, Identify(r)
  PROVE  TypeOK' /\ Local(r)' /\ Grow /\ Drift /\ Sound' /\ Answered(r)'
<1>1. CASE Authenticate(r)
  <2>1. Grow /\ Drift /\ UNCHANGED <<memory, files>>
    BY <1>1 DEF Authenticate, Grow, Drift, history, memory
  <2>2. pc'[r] = "done" => reply'[r] = "refused"
    BY <1>1 DEF Authenticate, Answer, Goto, TypeOK
  <2> QED
    BY <1>1, <2>1, <2>2, AuthenticateType, MemoryStays DEF Answered
<1>2. CASE DropExpired(r) \/ DropInvalid(r)
  <2>1. token[r] \in Tokens /\ UNCHANGED <<users, repo, files, call, work, history>>
    BY <1>2 DEF DropExpired, DropInvalid, Local, Holds
  <2>2. Grow /\ \A t \in Tokens : sessions'[t] = sessions[t] \/ sessions'[t] = None
    BY <1>2, <2>1 DEF DropExpired, DropInvalid, Grow, history, TypeOK, SessionTable
  <2>3. Drift
    BY <2>2 DEF Drift
  <2>4. pc'[r] = "done" => reply'[r] \in {"refused", "error"}
    BY <1>2 DEF DropExpired, DropInvalid, Answer, Goto, TypeOK
  <2> QED
    BY <1>2, <2>1, <2>2, <2>3, <2>4, DropType, StoredStays DEF Answered
<1>3. CASE CheckAccount(r)
  <2>1. Grow /\ Drift /\ UNCHANGED <<memory, files, call>>
    BY <1>3 DEF CheckAccount, Grow, Drift, memory
  <2>2. pc'[r] = "done" => reply'[r] = "refused" \/ call[r].op = "whoami"
    <3>1. \/ call[r].op = "whoami" \/ Answer(r, "refused") \/ Goto(r, "drop")
          \/ Goto(r, AfterAuth(call[r]))
      BY <1>3 DEF CheckAccount
    <3>2. AfterAuth(call[r]) # "done"
      BY DEF AfterAuth
    <3> QED
      BY <3>1, <3>2 DEF Answer, Goto, TypeOK
  <2>3. call[r].op = "whoami" => ~Revokes(call[r])
    BY DEF Revokes
  <2> QED
    BY <1>3, <2>1, <2>2, <2>3, CheckAccountType, MemoryStays DEF Answered
<1> QED
  BY <1>1, <1>2, <1>3 DEF Identify

LEMMA SaveStep ==
  ASSUME TypeOK, NEW r \in Requests, Local(r), Sound, Frame, Save(r)
  PROVE  TypeOK' /\ Local(r)' /\ Grow /\ Drift /\ Sound' /\ Answered(r)'
<1>1. Grow /\ Drift /\ UNCHANGED <<memory, call>>
  BY DEF Save, OpenTemp, WriteTemp, Replace, Grow, Drift, history, memory
<1>2. CASE OpenTemp(r)
  <2>1. disk' = disk /\ temp' = [temp EXCEPT ![saving[r]] = Empty] /\ pc'[r] = "write"
    BY <1>2 DEF OpenTemp, Goto, TypeOK
  <2>2. \A f \in {"users", "sessions"} : disk'[f] = disk[f] /\ temp'[f] \in {temp[f], Empty}
    BY <2>1 DEF TypeOK, Stores
  <2>3. AccountTables' \subseteq AccountTables /\ SessionTables' \subseteq SessionTables
    BY <1>1, <2>2 DEF AccountTables, SessionTables, memory
  <2> QED
    BY <1>1, <1>2, <2>1, <2>3, OpenTempType, AccountsStay, SessionsStay DEF Sound, Answered
<1>3. CASE WriteTemp(r)
  <2>1. \A f \in {"users", "sessions"} :
          /\ disk'[f] \in {disk[f], Torn} \/ (saving[r] = f /\ disk'[f] = snap[r])
          /\ temp'[f] \in {temp[f], Torn} \/ (saving[r] = f /\ temp'[f] = snap[r])
    BY <1>3, WriteTempType
  <2>2. /\ saving[r] = "users" => AllAuthorized(snap[r])
        /\ saving[r] = "sessions" => AllEarned(snap[r])
    BY <1>3 DEF Local, MayStore, Earns, WriteTemp
  <2>3. \A table \in AccountTables' : table \in AccountTables \/ AllAuthorized(table)
    BY <1>1, <2>1, <2>2 DEF AccountTables, memory
  <2>4. \A table \in SessionTables' : table \in SessionTables \/ AllEarned(table)
    BY <1>1, <2>1, <2>2 DEF SessionTables, memory
  <2>5. pc'[r] = "replace"
    BY <1>3 DEF WriteTemp, Goto, TypeOK
  <2> QED
    BY <1>1, <1>3, <2>3, <2>4, <2>5, WriteTempType, AccountsStay, SessionsStay DEF Sound, Answered
<1>4. CASE Replace(r)
  <2>1. \A f \in {"users", "sessions"} : disk'[f] \in {disk[f], temp[f]} /\ temp'[f] \in {temp[f], None}
    BY <1>4, ReplaceType
  <2>2. AccountTables' \subseteq AccountTables /\ SessionTables' \subseteq SessionTables
    BY <1>1, <2>1 DEF AccountTables, SessionTables, memory
  <2> QED
    BY <1>1, <1>4, <2>2, ReplaceType, AccountsStay, SessionsStay DEF Sound, Answered, Revokes
<1> QED
  BY <1>2, <1>3, <1>4 DEF Save

LEMMA SignStep ==
  ASSUME TypeOK, NEW r \in Requests, Local(r), Sound, Frame, Sign(r)
  PROVE  TypeOK' /\ Local(r)' /\ Grow /\ Drift /\ Sound' /\ Answered(r)'
<1>1. CASE Verify(r)
  <2>1. Grow /\ Drift /\ UNCHANGED <<memory, files>>
    BY <1>1 DEF Verify, Grow, Drift, memory
  <2> QED
    BY <1>1, <2>1, VerifyType, MemoryStays DEF Answered
<1>2. CASE Issue(r)
  <2>1. TypeOK' /\ Local(r)' /\ Grow /\ Drift
    BY <1>2, IssueType
  <2>2. UNCHANGED <<users, repo, files, call>> /\ ~Revokes(call[r])
    BY <1>2 DEF Issue, Local, Asks, Revokes
  <2>3. Accounts'
    BY <2>1, <2>2, AccountsStay DEF Sound, AccountTables, files
  <2>4. SessionsAreEarned'
    <3> SUFFICES ASSUME NEW table \in SessionTables', NEW t \in Tokens, table[t] # None
                 PROVE  \/ InitialFiles.sessions # None /\ InitialFiles.sessions[t] = table[t]
                        \/ \E d \in drawn' :
                             d.token = t /\ d.user = table[t].user /\ d.by \in proved'
      BY DEF SessionsAreEarned
    <3>1. CASE table \in SessionTables
      <4>1. Earned(t, table[t])
        BY <3>1 DEF Sound, SessionsAreEarned, Earned
      <4> QED
        BY <2>1, <4>1, EarnedStays
    <3>2. CASE table = sessions'
      <4>1. CASE sessions'[t] = sessions[t]
        <5>1. Earned(t, sessions[t])
          BY <3>2, <4>1 DEF Sound, SessionsAreEarned, SessionTables, Earned
        <5> QED
          BY <2>1, <3>2, <4>1, <5>1, EarnedStays
      <4>2. CASE Earned(t, sessions[t])'
        BY <3>2, <4>2 DEF Earned
      <4> QED
        BY <1>2, <4>1, <4>2, IssueType
    <3> QED
      BY <2>2, <3>1, <3>2 DEF SessionTables, files
  <2> QED
    BY <2>1, <2>2, <2>3, <2>4 DEF Sound, Answered, Revokes
<1>3. CASE Remember(r)
  <2>1. /\ UNCHANGED <<users, sessions, files, history>> /\ repo'.users = repo.users
        /\ repo'.sessions = [repo.sessions EXCEPT ![token[r]] = hand[r]] /\ pc'[r] = "open"
    BY <1>3, RememberType DEF Remember
  <2>2. Grow /\ Drift
    BY <2>1 DEF Grow, Drift, history
  <2>3. Earned(token[r], hand[r]) /\ AllEarned(repo.sessions)
    BY <1>3 DEF Local, Earns, Remember, Sound, SessionsAreEarned, SessionTables, AllEarned, Earned
  <2>4. AllEarned(repo'.sessions)
    BY <2>1, <2>3 DEF AllEarned, TypeOK, SessionTable
  <2>5. /\ AccountTables' = AccountTables
        /\ \A table \in SessionTables' : table \in SessionTables \/ AllEarned(table)
    BY <2>1, <2>4 DEF AccountTables, SessionTables, files
  <2> QED
    BY <1>3, <2>1, <2>2, <2>5, RememberType, AccountsStay, SessionsStay DEF Sound, Answered
<1>4. CASE Logout(r)
  <2>1. TypeOK' /\ Local(r)' /\ Grow /\ Drift /\ ~Revokes(call[r])
    BY <1>4, LogoutType
  <2>2. UNCHANGED <<users, repo, files, call>>
    BY <1>4 DEF Logout
  <2>3. \A t \in Tokens : sessions'[t] = sessions[t] \/ sessions'[t] = None
    BY <1>4 DEF Logout, TypeOK, SessionTable
  <2> QED
    BY <2>1, <2>2, <2>3, StoredStays DEF Answered, Revokes
<1> QED
  BY <1>1, <1>2, <1>3, <1>4 DEF Sign

LEMMA DropStep ==
  ASSUME TypeOK, NEW r \in Requests, Local(r), Sound, Frame, Drop(r)
  PROVE  TypeOK' /\ Local(r)' /\ Grow /\ Drift /\ Sound' /\ Answered(r)'
<1>1. CASE Forget(r)
  <2>1. UNCHANGED <<users, sessions, files, call, history>> /\ repo'.users = repo.users
    BY <1>1, ForgetType DEF Forget
  <2>2. Grow /\ Drift
    BY <2>1 DEF Grow, Drift, history
  <2>3. AllEarned(repo.sessions)
    BY DEF Sound, SessionsAreEarned, SessionTables, AllEarned, Earned
  <2>4. AllEarned(repo'.sessions)
    <3>1. \A t \in Tokens : repo'.sessions[t] = repo.sessions[t] \/ repo'.sessions[t] = None
      BY <1>1, ForgetType DEF TypeOK, SessionTable
    <3> QED
      BY <2>3, <3>1 DEF AllEarned
  <2>5. /\ AccountTables' = AccountTables
        /\ \A table \in SessionTables' : table \in SessionTables \/ AllEarned(table)
    BY <2>1, <2>4 DEF AccountTables, SessionTables, files
  <2> QED
    BY <1>1, <2>1, <2>2, <2>5, ForgetType, AccountsStay, SessionsStay DEF Sound, Answered, Revokes
<1>2. CASE Sweep(r)
  <2>1. Grow /\ Drift /\ UNCHANGED <<memory, files>>
    BY <1>2 DEF Sweep, Grow, Drift, memory, history
  <2> QED
    BY <1>2, <2>1, SweepType, MemoryStays DEF Answered
<1>3. CASE ListSessions(r)
  <2>1. Grow /\ Drift /\ UNCHANGED <<memory, files>>
    BY <1>3 DEF ListSessions, Grow, Drift, memory, history
  <2> QED
    BY <1>3, <2>1, ListSessionsType, MemoryStays DEF Answered
<1>4. CASE RevokeNext(r)
  <2>1. /\ TypeOK' /\ Local(r)' /\ Grow /\ Drift
        /\ pc'[r] = "done" /\ reply'[r] = "ok" /\ Revokes(call[r]) =>
             \A t \in open'[r] : sessions'[t] = None
    BY <1>4, RevokeNextType
  <2>2. UNCHANGED <<users, repo, files, call>>
    BY <1>4 DEF RevokeNext
  <2>3. \A t \in Tokens : sessions'[t] = sessions[t] \/ sessions'[t] = None
    BY <1>4 DEF RevokeNext, TypeOK, SessionTable
  <2> QED
    BY <2>1, <2>2, <2>3, StoredStays DEF Answered, Revokes
<1> QED
  BY <1>1, <1>2, <1>3, <1>4 DEF Drop

LEMMA ChangeStep ==
  ASSUME TypeOK, NEW r \in Requests, Local(r), Sound, Frame, Change(r)
  PROVE  TypeOK' /\ Local(r)' /\ Grow /\ Drift /\ Sound' /\ Answered(r)'
<1>1. CASE New(r) \/ ReadTarget(r)
  <2>1. Grow /\ Drift /\ UNCHANGED <<memory, files>>
    BY <1>1 DEF New, ReadTarget, Grow, Drift, memory, history
  <2> QED
    BY <1>1, <2>1, NewType, ReadTargetType, MemoryStays DEF Answered, Sound
<1>2. CASE FindRecovery(r) \/ CheckRecovery(r)
  <2>1. Drift /\ UNCHANGED <<memory, files, call>>
    BY <1>2 DEF FindRecovery, CheckRecovery, Drift, memory
  <2> QED
    BY <1>2, <2>1, FindRecoveryType, CheckRecoveryType, MemoryStays DEF Answered, Sound, Revokes
<1>3. CASE Register(r)
  <2>1. UNCHANGED <<sessions, repo, files, history>>
    BY <1>3 DEF Register
  <2>2. Grow /\ Drift
    BY <2>1 DEF Grow, Drift, history
  <2>3. AllAuthorized(users)
    BY DEF Sound, Accounts, AccountTables
  <2>4. AllAuthorized(users')
    <3>1. \A u \in Users : users'[u] = users[u] \/ Authorized(u, users'[u])
      BY <1>3, RegisterType
    <3> QED
      BY <2>3, <3>1 DEF AllAuthorized, HasAccount
  <2>5. /\ SessionTables' = SessionTables
        /\ \A table \in AccountTables' : table \in AccountTables \/ AllAuthorized(table)
    BY <2>1, <2>4 DEF AccountTables, SessionTables, files
  <2> QED
    BY <1>3, <2>2, <2>5, RegisterType, AccountsStay, SessionsStay DEF Sound, Answered
<1>4. CASE Keep(r)
  <2>1. UNCHANGED <<users, sessions, files, history>> /\ repo'.sessions = repo.sessions
    BY <1>4, KeepType DEF Keep
  <2>2. Grow /\ Drift
    BY <2>1 DEF Grow, Drift, history
  <2>3. AllAuthorized(repo.users)
    BY DEF Sound, Accounts, AccountTables
  <2>4. AllAuthorized(repo'.users)
    <3>1. \A u \in Users : repo'.users[u] = repo.users[u] \/ Authorized(u, repo'.users[u])
      BY <1>4, KeepType
    <3> QED
      BY <2>3, <3>1 DEF AllAuthorized, HasAccount
  <2>5. /\ SessionTables' = SessionTables
        /\ \A table \in AccountTables' : table \in AccountTables \/ AllAuthorized(table)
    BY <2>1, <2>4 DEF AccountTables, SessionTables, files
  <2> QED
    BY <1>4, <2>2, <2>5, KeepType, AccountsStay, SessionsStay DEF Sound, Answered
<1> QED
  BY <1>1, <1>2, <1>3, <1>4 DEF Change

LEMMA StartStep ==
  ASSUME TypeOK, NEW r \in Requests, Local(r), Sound, Frame, NEW c \in Offered, Start(r, c)
  PROVE  TypeOK' /\ Local(r)' /\ Grow /\ Drift /\ Sound' /\ Answered(r)'
<1>1. Grow /\ Drift /\ UNCHANGED <<memory, files>>
  BY DEF Start, Grow, Drift, memory
<1>2. pc'[r] # "done"
  <2>1. FirstStep(c) # "done"
    BY DEF FirstStep
  <2> QED
    BY <2>1 DEF Start, Goto, TypeOK
<1> QED
  BY <1>1, <1>2, StartType, MemoryStays DEF Answered, Sound

LEMMA SaveFailsStep ==
  ASSUME TypeOK, NEW r \in Requests, Local(r), Sound, SaveFails(r)
  PROVE  TypeOK' /\ Local(r)' /\ Grow /\ Drift /\ Sound' /\ Answered(r)'
<1>1. Grow /\ Drift /\ UNCHANGED <<memory, files>>
  BY DEF SaveFails, Grow, Drift, memory, history
<1> QED
  BY <1>1, SaveFailsType, MemoryStays DEF Answered

-----------------------------------------------------------------------------
(***************************************************************************)
(* The steps of the process.                                               *)
(***************************************************************************)
LEMMA OthersKept ==
  ASSUME TypeOK, NEW r \in Requests, NEW q \in Requests \ {r},
         SaveFails(r) \/ (Step(r) /\ Frame)
  PROVE  Kept(q)
<1> USE DEF TypeOK, Kept, Answer, Goto, work, history
<1>1. CASE SaveFails(r)
  BY <1>1 DEF SaveFails
<1>2. CASE \E c \in Offered : Start(r, c)
  BY <1>2 DEF Start
<1>3. CASE Identify(r)
  <2>1. CASE Authenticate(r)
    BY <2>1 DEF Authenticate
  <2>2. CASE DropExpired(r) \/ DropInvalid(r)
    BY <2>2 DEF DropExpired, DropInvalid
  <2>3. CASE CheckAccount(r)
    BY <2>3 DEF CheckAccount
  <2> QED
    BY <1>3, <2>1, <2>2, <2>3 DEF Identify
<1>4. CASE Save(r)
  <2>1. CASE OpenTemp(r) \/ WriteTemp(r)
    BY <2>1 DEF OpenTemp, WriteTemp
  <2>2. CASE Replace(r)
    BY <2>2 DEF Replace, Continue
  <2> QED
    BY <1>4, <2>1, <2>2 DEF Save
<1>5. CASE Sign(r)
  <2>1. CASE Verify(r) \/ Logout(r)
    BY <2>1 DEF Verify, Logout
  <2>2. CASE Issue(r)
    BY <2>2 DEF Issue
  <2>3. CASE Remember(r)
    BY <2>3 DEF Remember, BeginSave
  <2> QED
    BY <1>5, <2>1, <2>2, <2>3 DEF Sign
<1>6. CASE Drop(r)
  <2>1. CASE Forget(r)
    BY <2>1 DEF Forget, BeginSave, Continue
  <2>2. CASE Sweep(r) \/ ListSessions(r)
    BY <2>2 DEF Sweep, ListSessions
  <2>3. CASE RevokeNext(r)
    BY <2>3 DEF RevokeNext
  <2> QED
    BY <1>6, <2>1, <2>2, <2>3 DEF Drop
<1>7. CASE Change(r)
  <2>1. CASE New(r) \/ ReadTarget(r)
    BY <2>1 DEF New, ReadTarget, Build, Refuse
  <2>2. CASE FindRecovery(r)
    BY <2>2 DEF FindRecovery, Build
  <2>3. CASE CheckRecovery(r)
    BY <2>3 DEF CheckRecovery, Build, Refuse
  <2>4. CASE Register(r) \/ Keep(r)
    BY <2>4 DEF Register, Keep, BeginSave
  <2> QED
    BY <1>7, <2>1, <2>2, <2>3, <2>4 DEF Change
<1> QED
  BY <1>1, <1>2, <1>3, <1>4, <1>5, <1>6, <1>7 DEF Step

LEMMA AnsweredStays ==
  ASSUME TypeOK, NEW q \in Requests, Local(q), Answered(q), Kept(q), Drift
  PROVE  Answered(q)'
<1>1. open[q] \subseteq Tokens /\ open[q] \cap Fresh = {}
  BY DEF TypeOK, Local, Covers
<1>2. \A t \in open[q] : sessions[t] = None => sessions'[t] = None
  BY <1>1 DEF Drift
<1> QED
  BY <1>2 DEF Answered, Kept, Revokes

AllAnswered == \A r \in Requests : Answered(r)

Safe == TypeOK /\ Everyone /\ Sound /\ AllAnswered

LEMMA RequestStep ==
  ASSUME Safe, NEW r \in Requests, SaveFails(r) \/ (Step(r) /\ Frame)
  PROVE  Safe'
<1>1. TypeOK /\ Local(r) /\ Sound
  BY DEF Safe, Everyone
<1>2. TypeOK' /\ Local(r)' /\ Grow /\ Drift /\ Sound' /\ Answered(r)'
  <2>1. CASE SaveFails(r)
    BY <1>1, <2>1, SaveFailsStep
  <2>2. CASE Step(r) /\ Frame
    <3>1. CASE \E c \in Offered : Start(r, c)
      BY <1>1, <2>2, <3>1, StartStep
    <3> QED
      BY <1>1, <2>2, <3>1, IdentifyStep, SaveStep, SignStep, DropStep, ChangeStep DEF Step
  <2> QED
    BY <2>1, <2>2
<1>3. proc' = proc
  BY DEF SaveFails, Frame
<1>4. ASSUME NEW q \in Requests, q # r
      PROVE  Local(q)' /\ Answered(q)'
  <2>1. Local(q) /\ Answered(q) /\ Kept(q)
    BY <1>1, <1>4, OthersKept DEF Safe, Everyone, AllAnswered
  <2> QED
    BY <1>1, <1>2, <1>3, <2>1, OthersStay, AnsweredStays
<1> QED
  BY <1>2, <1>4 DEF Safe, Everyone, AllAnswered

LEMMA TickStep ==
  ASSUME Safe, Tick
  PROVE  Safe'
<1>1. UNCHANGED <<proc, memory, files, pc, call, work, reply, bounds, history>>
  BY DEF Tick
<1>2. Grow /\ Drift
  BY <1>1 DEF Grow, Drift, memory, history
<1>3. TypeOK'
  BY <1>1, ConstantsAssumption
  DEF Tick, Safe, TypeOK, Now, memory, files, work, bounds, history
<1>4. \A q \in Requests : Kept(q)
  BY <1>1 DEF Kept, work, history
<1> QED
  BY <1>1, <1>2, <1>3, <1>4, MemoryStays, OthersStay, AnsweredStays
  DEF Safe, Everyone, AllAnswered

(* What the requests knew is lost, what they wrote stays in the files.     *)
LEMMA CrashStep ==
  ASSUME Safe, Crash
  PROVE  Safe'
<1>1. /\ UNCHANGED <<now, files, call, reply, faults, drawn, proved, issued, granted,
                     exceeded, chosen>>
      /\ proc' = "down" /\ users' = NoUsers /\ sessions' = NoSessions
      /\ repo' = [users |-> NoUsers, sessions |-> NoSessions]
      /\ actor' = Nothing /\ open' = [r \in Requests |-> {}]
  BY DEF Crash
<1>2. \A r \in Requests : pc'[r] \in {"idle", "done"}
  BY DEF Crash
<1>3. Grow
  BY <1>1 DEF Grow
<1>4. TypeOK'
  <2>1. users' \in UserTable /\ sessions' \in SessionTable
        /\ repo' \in [users: UserTable, sessions: SessionTable]
    BY <1>1 DEF UserTable, SessionTable, NoUsers, NoSessions
  <2>2. crashes' \in 0..MaxCrashes
    BY ConstantsAssumption DEF Crash, Safe, TypeOK
  <2>3. pc' \in [Requests -> Steps \cup {"idle", "done"}]
    BY DEF Crash
  <2> QED
    BY <1>1, <2>1, <2>2, <2>3 DEF Crash, Safe, TypeOK, Nothing, files
<1>5. Everyone'
  BY <1>1, <1>2
  DEF Everyone, Local, Asks, Holds, MayStore, Earns, Covers, Revoking, Nothing
<1>6. AllAuthorized(NoUsers) /\ AllEarned(NoSessions)
  BY DEF AllAuthorized, HasAccount, AllEarned, NoUsers, NoSessions
<1>7. Sound'
  <2>1. \A table \in AccountTables' : table \in AccountTables \/ AllAuthorized(table)
    BY <1>1, <1>6 DEF AccountTables, files
  <2>2. \A table \in SessionTables' : table \in SessionTables \/ AllEarned(table)
    BY <1>1, <1>6 DEF SessionTables, files
  <2> QED
    BY <1>3, <2>1, <2>2, AccountsStay, SessionsStay DEF Safe, Sound
<1>8. AllAnswered'
  BY <1>1 DEF AllAnswered, Answered
<1> QED
  BY <1>3, <1>4, <1>5, <1>7, <1>8 DEF Safe

(* A start that changes the maps: what was allowed stays allowed, and what *)
(* the maps and the file hold then is allowed.                             *)
Started(all, ss) ==
  /\ UNCHANGED <<now, pc, call, work, reply, bounds, drawn, proved, issued, exceeded, open>>
  /\ granted \subseteq granted' /\ chosen \subseteq chosen'
  /\ users' = all /\ sessions' = ss
  /\ repo' = [users |-> all, sessions |-> ss]
  /\ \/ UNCHANGED files
     \/ disk' = [disk EXCEPT !.users = all] /\ temp' = [temp EXCEPT !.users = None]

Allowed(u, a) ==
  /\ <<u, a.role>> \in granted' \cup exceeded' /\ <<u, a.pwd>> \in chosen'
  /\ a.recovery # None => <<u, a.recovery.token>> \in issued'

LEMMA RequestsIdle ==
  ASSUME Safe, proc \in {"down", "starting"}, Grow, proc' \in {"starting", "up", "failed"},
         UNCHANGED <<pc, call, work, reply, drawn, proved, issued, open>>
  PROVE  Everyone' /\ AllAnswered'
<1>1. \A r \in Requests : Local(r) /\ open[r] = {}
  BY DEF Safe, Everyone, Local, Covers
<1>2. ASSUME NEW r \in Requests
      PROVE  Local(r)'
  <2>1. Asks(r)' /\ Holds(r)' /\ Earns(r)'
    BY <1>1 DEF Local, Asks, Holds, Earns, Earned, AllEarned, work
  <2>2. UNCHANGED <<pc, call, actor, hand, saving, snap>>
    BY DEF work
  <2>3. MayStore(r)
    BY <1>1 DEF Local
  <2>4. MayStore(r)'
    BY <2>2, <2>3 DEF MayStore, Authorized, AllAuthorized, HasAccount, Grow
  <2>5. Covers(r)'
    BY <1>1 DEF Local, Covers, work
  <2> QED
    BY <2>1, <2>4, <2>5 DEF Local
<1> QED
  BY <1>1, <1>2 DEF Everyone, AllAnswered, Answered

LEMMA StartedSafe ==
  ASSUME Safe, proc \in {"down", "starting"}, proc' \in {"starting", "up"},
         NEW all \in UserTable, NEW ss \in SessionTable, Started(all, ss), AllEarned(ss),
         granted' \subseteq Users \X Roles, chosen' \subseteq Users \X Passwords,
         \A u \in Users : HasAccount(all, u) => Allowed(u, all[u])
  PROVE  Safe'
<1>1. Grow
  BY DEF Started, Grow
<1>2. Everyone' /\ AllAnswered'
  BY <1>1, RequestsIdle DEF Started
<1>3. TypeOK /\ Sound
  BY DEF Safe
<1>4. /\ DOMAIN disk' = Stores /\ DOMAIN temp' = Stores
      /\ disk'["users"] \in {disk["users"], all} /\ disk'["sessions"] = disk["sessions"]
      /\ temp'["users"] \in {temp["users"], None} /\ temp'["sessions"] = temp["sessions"]
  BY <1>3 DEF Started, TypeOK, Stores, files
<1>5. \A f \in {disk', temp'} :
        /\ f["users"] \in UserTable \cup {Empty, Torn, None}
        /\ f["sessions"] \in SessionTable \cup {Empty, Torn, None}
  BY <1>3, <1>4 DEF TypeOK
<1>6. TypeOK'
  BY <1>3, <1>4, <1>5 DEF TypeOK, Started, work, bounds
<1>7. \A table \in AccountTables' : table \in AccountTables \/ table = all
  BY <1>4 DEF AccountTables, Started
<1>8. \A table \in SessionTables' : table \in SessionTables \/ AllEarned(table)
  BY <1>4 DEF SessionTables, Started
<1>9. Accounts'
  <2> SUFFICES ASSUME NEW table \in AccountTables', NEW u \in Users, HasAccount(table, u)
               PROVE  Authorized(u, table[u])'
    BY DEF Accounts, AllAuthorized, HasAccount
  <2>1. CASE table \in AccountTables
    <3>1. Authorized(u, table[u])
      BY <1>3, <2>1 DEF Sound, Accounts, AllAuthorized
    <3> QED
      BY <1>1, <3>1, AuthorizedStays DEF Authorized
  <2>2. CASE table = all
    BY <2>2 DEF Allowed, Authorized
  <2> QED
    BY <1>7, <2>1, <2>2
<1> QED
  BY <1>1, <1>2, <1>3, <1>6, <1>8, <1>9, SessionsStay DEF Safe, Sound

(* A start that leaves the maps and the files.                             *)
LEMMA StartedQuietly ==
  ASSUME Safe, proc \in {"down", "starting"}, proc' \in {"up", "failed"},
         UNCHANGED <<now, memory, files, pc, call, work, reply, bounds, history>>
  PROVE  Safe'
<1>1. Grow
  BY DEF Grow, history
<1>2. Everyone' /\ AllAnswered'
  BY <1>1, RequestsIdle DEF history
<1>3. TypeOK'
  BY DEF Safe, TypeOK, memory, files, work, bounds, history
<1>4. Sound'
  BY <1>1, MemoryStays DEF Safe
<1> QED
  BY <1>2, <1>3, <1>4 DEF Safe

(* What is loaded was stored; the owner is new, or the one that was found, *)
(* with the role the configuration gives.                                  *)
LEMMA BootStep ==
  ASSUME Safe, Boot
  PROVE  Safe'
<1> DEFINE us == Loaded(disk.users, NoUsers)
           ss == Loaded(disk.sessions, NoSessions)
           o == OwnerId(us)
           a == FirstOwner(us)
           all == [us EXCEPT ![o] = a]
           unreadable == disk.users \in {Empty, Torn} \/ disk.sessions \in {Empty, Torn}
           stops == unreadable \/ (us[o] = None /\ StartPassword = None)
<1>1. /\ UNCHANGED <<now, pc, call, work, reply, bounds, drawn, proved, issued, exceeded, open>>
      /\ proc = "down" /\ TypeOK /\ Sound
  BY DEF Boot, Safe
<1>2. CASE stops
  <2>1. proc' = "failed" /\ UNCHANGED <<memory, files, granted, chosen>>
    BY <1>2 DEF Boot
  <2>2. UNCHANGED history
    BY <1>1, <2>1 DEF history
  <2> QED
    BY <1>1, <2>1, <2>2, StartedQuietly
<1>3. CASE ~stops
  <2>1. us \in UserTable /\ AllAuthorized(us)
    <3>1. CASE disk.users = None
      BY <3>1 DEF Loaded, NoUsers, UserTable, AllAuthorized, HasAccount
    <3>2. CASE disk.users # None
      <4>1. us = disk.users /\ us \in AccountTables
        BY <1>3, <3>2 DEF Loaded, AccountTables
      <4> QED
        BY <1>1, <1>3, <3>2, <4>1 DEF Sound, Accounts, TypeOK
    <3> QED
      BY <3>1, <3>2
  <2>2. ss \in SessionTable /\ AllEarned(ss)
    <3>1. CASE disk.sessions = None
      BY <3>1 DEF Loaded, NoSessions, SessionTable, AllEarned
    <3>2. CASE disk.sessions # None
      <4>1. ss = disk.sessions /\ ss \in SessionTables
        BY <1>3, <3>2 DEF Loaded, SessionTables
      <4> QED
        BY <1>1, <1>3, <3>2, <4>1 DEF Sound, SessionsAreEarned, AllEarned, Earned, TypeOK
    <3> QED
      BY <3>1, <3>2
  <2>3. /\ proc' = "starting" /\ sessions' = ss
        /\ chosen' = IF us[o] = None THEN chosen \cup {<<o, StartPassword>>} ELSE chosen
        /\ \/ /\ users' = us /\ repo' = [users |-> us, sessions |-> sessions']
              /\ UNCHANGED <<files, granted>>
           \/ /\ StartWith(all)
              /\ granted' = granted \cup {<<o, "owner">>}
              /\ a # us[o]
    BY <1>3 DEF Boot
  <2>4. o \in Users
    BY ConstantsAssumption DEF OwnerId
  <2>5. us[o] = None => StartPassword \in Passwords
    BY <1>3, ConstantsAssumption DEF StartPassword
  <2> HIDE DEF us, ss, o
  <2>6. granted' \subseteq Users \X Roles
    BY <1>1, <2>3, <2>4 DEF TypeOK, Roles, Protected
  <2>7. chosen' \subseteq Users \X Passwords
    BY <1>1, <2>3, <2>4, <2>5 DEF TypeOK
  <2>8. granted \subseteq granted' /\ chosen \subseteq chosen'
    BY <2>3
  <2>9. ASSUME NEW u \in Users, HasAccount(us, u)
        PROVE  Allowed(u, us[u])
    <3>1. Authorized(u, us[u])
      BY <2>1, <2>9 DEF AllAuthorized
    <3> QED
      BY <1>1, <2>8, <3>1 DEF Allowed, Authorized
  <2>10. CASE users' = us /\ repo' = [users |-> us, sessions |-> sessions'] /\ UNCHANGED files
    <3>1. Started(us, ss)
      BY <1>1, <2>3, <2>8, <2>10 DEF Started
    <3> QED
      BY <1>1, <2>1, <2>2, <2>3, <2>6, <2>7, <2>9, <3>1, StartedSafe
  <2>11. CASE StartWith(all) /\ granted' = granted \cup {<<o, "owner">>} /\ a # us[o]
    <3>1. Started(all, ss)
      BY <1>1, <2>3, <2>8, <2>11 DEF Started, StartWith
    <3>2. a \in Account /\ a.role = "owner"
      <4>1. CASE us[o] = None
        <5>1. a = NewOwner
          BY <4>1 DEF FirstOwner, o
        <5> QED
          BY <2>5, <4>1, <5>1, ConstantsAssumption DEF NewOwner, Account, Roles, Protected
      <4>2. CASE us[o] # None
        <5>1. a = [us[o] EXCEPT !.role = "owner", !.email = OwnerEmail]
          BY <2>11, <4>2 DEF FirstOwner, o
        <5>2. us[o] \in Account
          BY <2>1, <2>4, <4>2 DEF UserTable
        <5> QED
          BY <5>1, <5>2, ConstantsAssumption DEF Account, Roles, Protected
      <4> QED
        BY <4>1, <4>2
    <3>3. Allowed(o, a)
      <4>1. CASE us[o] = None
        <5>1. a.pwd = StartPassword /\ a.recovery = None
          BY <4>1 DEF FirstOwner, NewOwner, o
        <5> QED
          BY <2>3, <2>11, <3>2, <4>1, <5>1 DEF Allowed
      <4>2. CASE us[o] # None
        <5>1. us[o] \in Account
          BY <2>1, <2>4, <4>2 DEF UserTable
        <5>2. a.pwd = us[o].pwd /\ a.recovery = us[o].recovery
          BY <2>11, <4>2, <5>1 DEF FirstOwner, o, Account
        <5>3. Allowed(o, us[o])
          BY <2>4, <2>9, <4>2 DEF HasAccount
        <5> QED
          BY <2>11, <3>2, <5>2, <5>3 DEF Allowed
      <4> QED
        BY <4>1, <4>2
    <3> HIDE DEF a
    <3>4. all \in UserTable
      BY <2>1, <2>4, <3>2 DEF UserTable
    <3>5. ASSUME NEW u \in Users, HasAccount(all, u)
          PROVE  Allowed(u, all[u])
      <4>1. u = o => all[u] = a
        BY <2>1, <2>4 DEF UserTable
      <4>2. u # o => all[u] = us[u] /\ HasAccount(us, u)
        BY <2>1, <3>5 DEF UserTable, HasAccount
      <4> QED
        BY <2>9, <3>3, <4>1, <4>2
    <3> HIDE DEF all
    <3> QED
      BY <1>1, <2>2, <2>3, <2>6, <2>7, <3>1, <3>4, <3>5, StartedSafe
  <2> QED
    BY <2>3, <2>10, <2>11
<1> QED
  BY <1>2, <1>3

LEMMA ServeStep ==
  ASSUME Safe, Serve
  PROVE  Safe'
<1> DEFINE all == [users EXCEPT ![Demo] = DemoUser]
<1>1. /\ UNCHANGED <<now, pc, call, work, reply, bounds, drawn, proved, issued, exceeded, open>>
      /\ proc = "starting" /\ proc' = "up" /\ TypeOK /\ Sound
  BY DEF Serve, Safe
<1>2. CASE Production \/ HasAccount(users, Demo)
  <2>1. UNCHANGED <<memory, files, history>>
    BY <1>1, <1>2 DEF Serve, history
  <2> QED
    BY <1>1, <2>1, StartedQuietly
<1>3. CASE ~(Production \/ HasAccount(users, Demo))
  <2>1. /\ sessions' = sessions /\ StartWith(all)
        /\ granted' = granted \cup {<<Demo, "customer">>}
        /\ chosen' = chosen \cup {<<Demo, DemoPassword>>}
    BY <1>3 DEF Serve
  <2>2. /\ users \in UserTable /\ sessions \in SessionTable
        /\ AllAuthorized(users) /\ AllEarned(sessions)
    BY <1>1 DEF TypeOK, Sound, Accounts, AccountTables, SessionsAreEarned, SessionTables,
                AllEarned, Earned
  <2>3. Demo \in Users /\ DemoUser \in Account
    BY ConstantsAssumption DEF DemoUser, Account, Roles, Protected
  <2>4. all \in UserTable
    BY <2>2, <2>3 DEF UserTable
  <2>5. Allowed(Demo, DemoUser)
    BY <2>1 DEF Allowed, DemoUser
  <2>6. Started(all, sessions)
    BY <1>1, <2>1 DEF Started, StartWith
  <2>7. granted' \subseteq Users \X Roles /\ chosen' \subseteq Users \X Passwords
    BY <1>1, <2>1, <2>3, ConstantsAssumption DEF TypeOK, Roles, Protected
  <2>8. ASSUME NEW u \in Users, HasAccount(all, u)
        PROVE  Allowed(u, all[u])
    <3>1. CASE u = Demo
      BY <2>2, <2>3, <2>5, <3>1 DEF UserTable
    <3>2. CASE u # Demo
      <4>1. all[u] = users[u] /\ Authorized(u, users[u])
        BY <2>2, <2>8, <3>2 DEF UserTable, HasAccount, AllAuthorized
      <4> QED
        BY <1>1, <2>1, <4>1 DEF Allowed, Authorized
    <3> QED
      BY <3>1, <3>2
  <2> HIDE DEF all
  <2> QED
    BY <1>1, <2>2, <2>4, <2>6, <2>7, <2>8, StartedSafe
<1> QED
  BY <1>2, <1>3

-----------------------------------------------------------------------------
(***************************************************************************)
(* The theorems.                                                           *)
(***************************************************************************)
LEMMA SafeInit == Init => Safe
<1> SUFFICES ASSUME Init PROVE Safe
  OBVIOUS
<1> DEFINE us == Loaded(InitialFiles.users, NoUsers)
           has == {u \in Users : us[u] # None}
<1>1. us \in UserTable /\ NoUsers \in UserTable /\ NoSessions \in SessionTable
  BY ConstantsAssumption DEF Loaded, NoUsers, NoSessions, UserTable, SessionTable
<1>2. /\ granted = {<<u, us[u].role>> : u \in has}
      /\ chosen = {<<u, us[u].pwd>> : u \in has}
      /\ issued = {<<u, us[u].recovery.token>> : u \in {v \in has : us[v].recovery # None}}
  BY DEF Init
<1>3. \A u \in has : us[u] \in Account
  BY <1>1 DEF UserTable
<1>4. granted \subseteq Users \X Roles
  BY <1>2, <1>3 DEF Account
<1>5. chosen \subseteq Users \X Passwords
  BY <1>2, <1>3 DEF Account
<1>6. issued \subseteq Users \X RecoveryTokens
  BY <1>2, <1>3 DEF Account
<1>7. AllAuthorized(us)
  BY <1>2 DEF AllAuthorized, Authorized, HasAccount
<1> HIDE DEF us
<1>8. TypeOK
  BY <1>1, <1>4, <1>5, <1>6, ConstantsAssumption DEF Init, TypeOK, Stores, Nothing, Now
<1>9. Everyone
  BY DEF Init, Everyone, Local, Asks, Holds, MayStore, Earns, Covers, Revoking, Nothing
<1>10. Sound
  <2>1. \A table \in AccountTables : table = NoUsers \/ table = us
    BY DEF Init, AccountTables, Stores, us, Loaded
  <2>2. \A table \in SessionTables : table = NoSessions \/ table = InitialFiles.sessions
    BY DEF Init, SessionTables, Stores
  <2>3. \A table \in SessionTables : table # NoSessions => InitialFiles.sessions # None
    BY DEF Init, SessionTables, Stores
  <2>4. AllAuthorized(NoUsers)
    BY DEF AllAuthorized, HasAccount, NoUsers
  <2> QED
    BY <1>7, <2>1, <2>2, <2>3, <2>4 DEF Sound, Accounts, SessionsAreEarned, NoSessions
<1>11. AllAnswered
  BY DEF Init, AllAnswered, Answered
<1> QED
  BY <1>8, <1>9, <1>10, <1>11 DEF Safe

LEMMA SafeStep == Safe /\ [Next]_vars => Safe'
<1> SUFFICES ASSUME Safe, [Next]_vars PROVE Safe'
  OBVIOUS
<1>1. CASE \E r \in Requests : Step(r) \/ SaveFails(r)
  BY <1>1, RequestStep DEF Step, Frame
<1>2. CASE UNCHANGED vars
  <2>1. /\ UNCHANGED <<proc, memory, files, pc, call, work, reply, bounds, history>>
        /\ now' = now
    BY <1>2 DEF vars
  <2>2. Grow /\ Drift
    BY <2>1 DEF Grow, Drift, memory, history
  <2>3. TypeOK'
    BY <2>1 DEF Safe, TypeOK, memory, files, work, bounds, history
  <2>4. \A q \in Requests : Kept(q)
    BY <2>1 DEF Kept, work, history
  <2> QED
    BY <2>1, <2>2, <2>3, <2>4, MemoryStays, OthersStay, AnsweredStays
    DEF Safe, Everyone, AllAnswered
<1> QED
  BY <1>1, <1>2, BootStep, ServeStep, CrashStep, TickStep DEF Next

LEMMA AlwaysSafe == Spec => []Safe
BY SafeInit, SafeStep, PTL DEF Spec

(* Every variable keeps its type: also the files, that hold a whole map,   *)
(* nothing, or the rests of two writes, whatever threads save at once.     *)
THEOREM TypeCorrect == Spec => []TypeOK
<1>1. Safe => TypeOK
  BY DEF Safe
<1> QED
  BY <1>1, AlwaysSafe, PTL

(* Nobody has a role or a password that was not given by a start's         *)
(* configuration, by right, or by an admin who made the account, although  *)
(* accounts are rebuilt from stale copies and saved by threads that        *)
(* overtake one another: for any number of requests, users and restarts.   *)
THEOREM AccountsAuthorized == Spec => []AccountsAreAuthorized
<1>1. Safe => AccountsAreAuthorized
  BY DEF Safe, Sound, Accounts, AllAuthorized, Authorized, AccountsAreAuthorized
<1> QED
  BY <1>1, AlwaysSafe, PTL

(* Every session, in memory or in a file, is of the first file or was made *)
(* by a login that gave the right password.                                *)
THEOREM SessionsEarned == Spec => []SessionsAreEarned
<1>1. Safe => SessionsAreEarned
  BY DEF Safe, Sound
<1> QED
  BY <1>1, AlwaysSafe, PTL

(* A reset, a deactivation or a revocation that succeeds leaves none of    *)
(* the sessions it found: they are listed, and what is listed is dropped,  *)
(* and no token is drawn twice.                                            *)
THEOREM SessionsRevoked == Spec => []RevokedWhenAnswered
<1>1. Safe => RevokedWhenAnswered
  BY DEF Safe, AllAnswered, Answered, RevokedWhenAnswered
<1> QED
  BY <1>1, AlwaysSafe, PTL
=============================================================================
