------------------------- MODULE UserAuthorization -------------------------
(***************************************************************************)
(* Accounts, sessions and password recovery: the service of                *)
(* src/platform/services/user_authorization.py on top of the file backed   *)
(* repository of src/platform/adapters/user_repository.py, as the handler  *)
(* threads of src/platform/server.py run them.                             *)
(*                                                                         *)
(* Neither class has a lock.  An operation on an account builds a whole    *)
(* new account from the copy it has read, stores it in the service's map   *)
(* and in the repository's, and writes the repository's whole map to a     *)
(* temporary file, which every thread shares, before it replaces the file. *)
(* A request is cut at each of these points.                               *)
(***************************************************************************)
EXTENDS Naturals, FiniteSets

CONSTANTS
  Users,            \* user ids
  Owner,            \* config.owner_user_id
  Fallback,         \* "admin_owner", where an owner is looked for after Owner
  Demo,             \* "demo_user"
  Production,       \* APP_ENV is "production"
  Passwords,
  Weak,             \* the passwords of less than six characters
  Emails,           \* recovery e-mail addresses
  Tokens,           \* session tokens
  RecoveryTokens,
  Requests,         \* the requests, one handler thread each
  Offered,          \* the calls a request can make, a set of Call
  InitialFiles,     \* the two files when the server is first started
  InitialPassword,  \* INITIAL_ADMIN_PASSWORD, or None
  DevPassword,      \* the owner's password when none is set in development
  DemoPassword,     \* the demo user's
  OwnerEmail,       \* config.owner_email, or None
  MaxTime,          \* bound: the clock
  SessionAge,       \* max_age_seconds
  RecoveryAge,      \* the hour a recovery token is valid
  MaxCrashes,       \* bound: process crashes
  MaxFaults,        \* bound: saves that raise
  Empty, Torn,      \* a file just truncated, and one with the rests of two writes
  None

Protected == {"owner", "admin"}
Roles == Protected \cup {"customer", "user", "guest"}
Now == 0..MaxTime

(* active, and from when until when: MaxTime + 1 is a time never reached.  *)
Account ==
  [role: Roles, active: BOOLEAN, from: 0..(MaxTime + 1), until: 0..(MaxTime + 1),
   pwd: Passwords, email: Emails \cup {None},
   recovery: [token: RecoveryTokens, until: 0..(MaxTime + RecoveryAge)] \cup {None}]

Session == [user: Users, at: Now]

Holding == [id: Users, acc: Account] \cup Session

UserTable == [Users -> Account \cup {None}]
SessionTable == [Tokens -> Session \cup {None}]

Stores == {"users", "sessions"}
Contents == UserTable \cup SessionTable
Bytes == Contents \cup {Empty, Torn, None}

LoginCall == [op: {"login"}, user: Users, pwd: Passwords]
(* By user id, by address, or by both.                                     *)
RecoverCall == [op: {"recover"}, user: Users \cup {None}, email: Emails \cup {None}]
ResetCall == [op: {"reset"}, user: Users, recovery: RecoveryTokens, pwd: Passwords]
(* The calls that carry a session token.                                   *)
TokenCall == [op: {"logout", "whoami"}, token: Tokens]
TargetCall == [op: {"profile", "revoke"}, token: Tokens, user: Users]
CreateCall == [op: {"create"}, token: Tokens, user: Users, pwd: Passwords, role: Roles,
               from: 0..(MaxTime + 1), until: 0..(MaxTime + 1)]
RenewCall == [op: {"renew"}, token: Tokens, user: Users, until: 0..(MaxTime + 1)]
StatusCall == [op: {"status"}, token: Tokens, user: Users, active: BOOLEAN]
RoleCall == [op: {"role"}, token: Tokens, user: Users, role: Roles]
CountCall == [op: {"count"}]
Call == LoginCall \cup RecoverCall \cup ResetCall \cup TokenCall \cup TargetCall
          \cup CreateCall \cup RenewCall \cup StatusCall \cup RoleCall \cup CountCall

ASSUME ConstantsAssumption ==
  /\ {Owner, Fallback, Demo} \subseteq Users
  /\ Production \in BOOLEAN
  /\ Weak \subseteq Passwords
  /\ Offered \subseteq Call
  /\ InitialFiles \in [users: UserTable \cup {None}, sessions: SessionTable \cup {None}]
  /\ InitialPassword \in Passwords \cup {None}
  /\ {DevPassword, DemoPassword} \subseteq Passwords
  /\ OwnerEmail \in Emails \cup {None}
  /\ MaxTime \in Nat /\ SessionAge \in Nat /\ RecoveryAge \in Nat
  /\ MaxCrashes \in Nat /\ MaxFaults \in Nat

VARIABLES
  proc,       \* the server process: "down", "starting", "up", or "failed" (it
              \* exited on start)
  now,        \* time.time()
  users,      \* the service's _users_by_id
  sessions,   \* the service's _sessions
  repo,       \* the repository's _users and _sessions
  disk,       \* users.json and sessions.json, None while there is none
  temp,       \* users.json.tmp and sessions.json.tmp
  pc,         \* the next step of each request
  call,       \* its call
  actor,      \* the copy of the account its token was found to belong to
  found,      \* the session its token was found to be
  hand,       \* the new account, with its user, or session it is storing
  token,      \* the session token it is creating or deleting
  left,       \* the tokens it has still to delete
  saving,     \* the store it is saving
  snap,       \* the map it has serialised
  fd,         \* what its open file has become: "temp", "disk", or None
  reply,      \* the answer: "ok", "refused" or "error"
  crashes, faults,
  drawn,      \* history: the session tokens made, for whom and by which request
  proved,     \* history: the requests that gave the password of a valid account
  issued,     \* history: the recovery tokens given out, with their users
  granted,    \* history: the roles an account was given by right
  exceeded,   \* history: the roles an admin gave a new account, kept for owners to give
  chosen,     \* history: the passwords an account was given by right
  open        \* history: the target's sessions when a request was received

memory == <<users, sessions, repo>>
files == <<disk, temp>>
work == <<actor, found, hand, token, left, saving, snap, fd>>
bounds == <<crashes, faults>>
history == <<drawn, proved, issued, granted, exceeded, chosen, open>>
vars == <<proc, now, memory, files, pc, call, work, reply, bounds, history>>

NoUsers == [u \in Users |-> None]
NoSessions == [t \in Tokens |-> None]

Goto(r, step) == pc' = [pc EXCEPT ![r] = step]

Answer(r, what) ==
  /\ Goto(r, "done")
  /\ reply' = [reply EXCEPT ![r] = what]

-----------------------------------------------------------------------------
(***************************************************************************)
(* Domain rules of UserAuthorization.                                      *)
(***************************************************************************)

IsProtected(a) == a.role \in Protected

IsValid(a) == IsProtected(a) \/ (a.active /\ a.from <= now /\ now < a.until)

Expired(s) == now - s.at > SessionAge

HasAccount(table, u) == table[u] # None

SessionsOf(u) == {t \in Tokens : sessions[t] # None /\ sessions[t].user = u}

(* What the actor may do at all: users/* routes are for admins, a profile  *)
(* may be one's own.                                                       *)
MayCall(a, c) ==
  \/ c.op = "whoami"
  \/ a.acc.role \in Protected
  \/ c.op = "profile" /\ c.user = a.id

-----------------------------------------------------------------------------
(***************************************************************************)
(* Receiving a request, and its authentication.                            *)
(***************************************************************************)
FirstStep(c) ==
  CASE c.op = "login" -> "verify"
    [] c.op = "logout" -> "logout"
    [] c.op = "recover" -> "find"
    [] c.op = "reset" -> "check"
    [] c.op = "count" -> "sweep"
    [] OTHER -> "auth"

Target(c) == IF c.op \in {"reset", "status", "revoke"} THEN SessionsOf(c.user) ELSE {}

Start(r, c) ==
  /\ proc = "up"
  /\ pc[r] = "idle"
  /\ Goto(r, FirstStep(c))
  /\ call' = [call EXCEPT ![r] = c]
  /\ open' = [open EXCEPT ![r] = Target(c)]
  /\ UNCHANGED <<memory, files, work, reply, drawn, proved, issued, granted, exceeded, chosen>>

(* validate_session_token finds the session ...                            *)
Authenticate(r) ==
  LET t == call[r].token
  IN  /\ pc[r] = "auth"
      /\ IF sessions[t] = None
           THEN Answer(r, "refused") /\ UNCHANGED <<token, found>>
           ELSE /\ Goto(r, IF Expired(sessions[t]) THEN "expire" ELSE "account")
                /\ token' = [token EXCEPT ![r] = t]
                /\ found' = [found EXCEPT ![r] = sessions[t]]
                /\ UNCHANGED reply
      /\ UNCHANGED <<memory, files, call, actor, hand, left, saving, snap, fd, history>>

(* ... drops it when it is too old, which raises if it is gone by now ...  *)
DropExpired(r) ==
  /\ pc[r] = "expire"
  /\ IF sessions[token[r]] = None
       THEN Answer(r, "error") /\ UNCHANGED sessions
       ELSE /\ sessions' = [sessions EXCEPT ![token[r]] = None]
            /\ Goto(r, "forget")
            /\ UNCHANGED reply
  /\ UNCHANGED <<users, repo, files, call, work, history>>

(* The roles that a caller who is authenticated as account a has the right *)
(* to give: an owner every role, an admin those below his own.             *)
Grants(a, c) ==
  IF /\ c.op \in {"role", "create"}
     /\ a.role = "owner" \/ (a.role = "admin" /\ c.role \notin Protected)
    THEN {<<c.user, c.role>>} ELSE {}

(* update_user_role keeps to that; create_customer_account only asks for   *)
(* an admin, who makes an account with whatever role he names.             *)
Exceeds(a, c) ==
  IF c.op = "create" /\ a.role = "admin" /\ c.role \in Protected
    THEN {<<c.user, c.role>>} ELSE {}

NewPasswords(a, c) ==
  IF c.op = "create" /\ a.role \in Protected THEN {<<c.user, c.pwd>>} ELSE {}

AfterAuth(c) ==
  CASE c.op = "create" -> "new"
    [] c.op = "revoke" -> "list"
    [] OTHER -> "target"

(* ... and reads the account: it must be valid by now.                     *)
CheckAccount(r) ==
  LET u == found[r].user
      a == users[u]
  IN  /\ pc[r] = "account"
      /\ IF HasAccount(users, u) /\ IsValid(a)
           THEN LET me == [id |-> u, acc |-> a]
                IN  /\ IF call[r].op = "whoami" THEN Answer(r, "ok")
                       ELSE IF MayCall(me, call[r])
                         THEN Goto(r, AfterAuth(call[r])) /\ UNCHANGED reply
                         ELSE Answer(r, "refused")
                    /\ actor' = [actor EXCEPT ![r] = me]
                    /\ granted' = granted \cup Grants(a, call[r])
                    /\ exceeded' = exceeded \cup Exceeds(a, call[r])
                    /\ chosen' = chosen \cup NewPasswords(a, call[r])
           ELSE Goto(r, "drop") /\ UNCHANGED <<reply, actor, granted, exceeded, chosen>>
      /\ UNCHANGED <<memory, files, call, found, hand, token, left, saving, snap, fd,
                     drawn, proved, issued, open>>

DropInvalid(r) ==
  /\ pc[r] = "drop"
  /\ IF sessions[token[r]] = None
       THEN Answer(r, "refused") /\ UNCHANGED sessions
       ELSE /\ sessions' = [sessions EXCEPT ![token[r]] = None]
            /\ Goto(r, "forget")
            /\ UNCHANGED reply
  /\ UNCHANGED <<users, repo, files, call, work, history>>

-----------------------------------------------------------------------------
(***************************************************************************)
(* Saving: serialise the whole map, write the temporary file, replace.     *)
(***************************************************************************)
Revokes(c) == c.op \in {"reset", "revoke"} \/ (c.op = "status" /\ ~c.active)

NeedsActor(c) == c.op \notin {"login", "logout", "recover", "reset", "count"}

(* What follows a save: the new account's sessions are revoked, the next   *)
(* session is dropped, or the request is answered.                         *)
Continue(r, store) ==
  LET c == call[r]
  IN  IF store = "users" /\ Revokes(c) THEN Goto(r, "list") /\ UNCHANGED reply
      ELSE IF NeedsActor(c) /\ actor[r] = None THEN Answer(r, "refused")
      ELSE IF store = "sessions" /\ (Revokes(c) \/ c.op = "count")
        THEN Goto(r, "revoke") /\ UNCHANGED reply
      ELSE Answer(r, "ok")

BeginSave(r, store, content) ==
  /\ repo' = [repo EXCEPT ![store] = content]
  /\ saving' = [saving EXCEPT ![r] = store]
  /\ Goto(r, "open")

(* The map is serialised and the shared temporary file opened with "w".    *)
OpenTemp(r) ==
  /\ pc[r] = "open"
  /\ Goto(r, "write")
  /\ snap' = [snap EXCEPT ![r] = repo[saving[r]]]
  /\ temp' = [temp EXCEPT ![saving[r]] = Empty]
  /\ fd' = [fd EXCEPT ![r] = "temp"]
  /\ UNCHANGED <<memory, disk, call, actor, found, hand, token, left, saving, reply, history>>

(* What a file that holds b can hold after bytes are written from its      *)
(* start: the rest of a longer text stays behind them.                     *)
Overwritten(b, bytes) == {bytes} \cup (IF b \in {Empty, bytes} THEN {} ELSE {Torn})

(* The text reaches the file that was opened: by now another thread can    *)
(* have renamed it, or replaced it again.                                  *)
WriteTemp(r) ==
  LET s == saving[r]
  IN  /\ pc[r] = "write"
      /\ Goto(r, "replace")
      /\ \/ /\ fd[r] = "temp"
            /\ \E b \in Overwritten(temp[s], snap[r]) : temp' = [temp EXCEPT ![s] = b]
            /\ UNCHANGED disk
         \/ /\ fd[r] = "disk"
            /\ \E b \in Overwritten(disk[s], snap[r]) : disk' = [disk EXCEPT ![s] = b]
            /\ UNCHANGED temp
         \/ fd[r] = None /\ UNCHANGED <<disk, temp>>
      /\ UNCHANGED <<memory, call, work, reply, history>>

Renamed(s) ==
  [q \in Requests |-> IF fd[q] = None \/ saving[q] # s THEN fd[q]
                      ELSE IF fd[q] = "temp" THEN "disk" ELSE None]

(* os.replace, which raises when another thread has renamed the file.      *)
Replace(r) ==
  LET s == saving[r]
  IN  /\ pc[r] = "replace"
      /\ IF temp[s] = None
           THEN Answer(r, "error") /\ fd' = [fd EXCEPT ![r] = None] /\ UNCHANGED files
           ELSE /\ disk' = [disk EXCEPT ![s] = temp[s]]
                /\ temp' = [temp EXCEPT ![s] = None]
                /\ fd' = [Renamed(s) EXCEPT ![r] = None]
                /\ Continue(r, s)
      /\ UNCHANGED <<memory, call, actor, found, hand, token, left, saving, snap, history>>

(* The disk fails: UserRepositoryError, with the maps already changed.     *)
SaveFails(r) ==
  /\ pc[r] \in {"open", "write", "replace"}
  /\ faults < MaxFaults
  /\ faults' = faults + 1
  /\ Answer(r, "error")
  /\ fd' = [fd EXCEPT ![r] = None]
  /\ UNCHANGED <<proc, now, memory, files, call, actor, found, hand, token, left, saving,
                 snap, crashes, history>>

-----------------------------------------------------------------------------
(***************************************************************************)
(* Login, logout and the sweep of dead sessions.                           *)
(***************************************************************************)

(* Mutant: any password will do.                                           *)
VerifyAnyPassword(r) ==
  LET c == call[r]
      known == HasAccount(users, c.user) /\ IsValid(users[c.user])
  IN  /\ pc[r] = "verify"
      /\ IF known THEN Goto(r, "issue") /\ UNCHANGED reply ELSE Answer(r, "refused")
      /\ proved' = IF known /\ users[c.user].pwd = c.pwd THEN proved \cup {r} ELSE proved
      /\ UNCHANGED <<memory, files, call, work, drawn, issued, granted, exceeded, chosen, open>>

Verify(r) ==
  LET c == call[r]
      ok == HasAccount(users, c.user) /\ users[c.user].pwd = c.pwd /\ IsValid(users[c.user])
  IN  /\ pc[r] = "verify"
      /\ IF ok THEN Goto(r, "issue") /\ UNCHANGED reply ELSE Answer(r, "refused")
      /\ proved' = IF ok THEN proved \cup {r} ELSE proved
      /\ UNCHANGED <<memory, files, call, work, drawn, issued, granted, exceeded, chosen, open>>

(* Tokens are drawn at random: none comes twice.                           *)
Fresh ==
  {t \in Tokens : /\ \A d \in drawn : d.token # t
                  /\ InitialFiles.sessions # None => InitialFiles.sessions[t] = None}

(* create_session_token reads the account again; it may answer no token.   *)
Issue(r) ==
  LET u == call[r].user
  IN  /\ pc[r] = "issue"
      /\ IF IsValid(users[u])
           THEN \E t \in Fresh :
                  /\ sessions' = [sessions EXCEPT ![t] = [user |-> u, at |-> now]]
                  /\ hand' = [hand EXCEPT ![r] = [user |-> u, at |-> now]]
                  /\ token' = [token EXCEPT ![r] = t]
                  /\ drawn' = drawn \cup {[token |-> t, user |-> u, by |-> r]}
                  /\ Goto(r, "remember")
                  /\ UNCHANGED reply
           ELSE Answer(r, "ok") /\ UNCHANGED <<sessions, hand, token, drawn>>
      /\ UNCHANGED <<users, repo, files, call, actor, found, left, saving, snap, fd,
                     proved, issued, granted, exceeded, chosen, open>>

(* save_session                                                            *)
Remember(r) ==
  /\ pc[r] = "remember"
  /\ BeginSave(r, "sessions", [repo.sessions EXCEPT ![token[r]] = hand[r]])
  /\ UNCHANGED <<users, sessions, files, call, actor, found, hand, token, left, snap, fd,
                 reply, history>>

Logout(r) ==
  LET t == call[r].token
  IN  /\ pc[r] = "logout"
      /\ IF sessions[t] = None
           THEN Answer(r, "ok") /\ UNCHANGED <<sessions, token>>
           ELSE /\ sessions' = [sessions EXCEPT ![t] = None]
                /\ token' = [token EXCEPT ![r] = t]
                /\ Goto(r, "forget")
                /\ UNCHANGED reply
      /\ UNCHANGED <<users, repo, files, call, actor, found, hand, left, saving, snap, fd, history>>

(* delete_session                                                          *)
Forget(r) ==
  /\ pc[r] = "forget"
  /\ IF repo.sessions[token[r]] = None
       THEN Continue(r, "sessions") /\ UNCHANGED <<repo, saving>>
       ELSE /\ BeginSave(r, "sessions", [repo.sessions EXCEPT ![token[r]] = None])
            /\ UNCHANGED reply
  /\ UNCHANGED <<users, sessions, files, call, actor, found, hand, token, left, snap, fd, history>>

(* count_active_sessions collects the sessions that count no more.         *)
Sweep(r) ==
  /\ pc[r] = "sweep"
  /\ left' = [left EXCEPT ![r] =
       {t \in Tokens : /\ sessions[t] # None
                       /\ Expired(sessions[t]) \/ ~HasAccount(users, sessions[t].user)
                            \/ ~IsValid(users[sessions[t].user])}]
  /\ Goto(r, "revoke")
  /\ UNCHANGED <<memory, files, call, actor, found, hand, token, saving, snap, fd, reply, history>>

(* revoke_user_sessions: the tokens of the user are listed ...             *)
ListSessions(r) ==
  /\ pc[r] = "list"
  /\ IF HasAccount(users, call[r].user)
       THEN /\ left' = [left EXCEPT ![r] = SessionsOf(call[r].user)]
            /\ Goto(r, "revoke")
            /\ UNCHANGED reply
       ELSE Answer(r, "refused") /\ UNCHANGED left
  /\ UNCHANGED <<memory, files, call, actor, found, hand, token, saving, snap, fd, history>>

(* Mutant: one token is dropped, and the others are taken to be.           *)
RevokeOnce(r) ==
  /\ pc[r] = "revoke"
  /\ IF left[r] = {} THEN Answer(r, "ok") /\ UNCHANGED <<sessions, token, left>>
     ELSE \E t \in left[r] :
            /\ left' = [left EXCEPT ![r] = {}]
            /\ sessions' = [sessions EXCEPT ![t] = None]
            /\ token' = [token EXCEPT ![r] = t]
            /\ Goto(r, "forget")
            /\ UNCHANGED reply
  /\ UNCHANGED <<users, repo, files, call, actor, found, hand, saving, snap, fd, history>>

(* ... and dropped one by one: a token that is gone by now raises, except  *)
(* in the sweep.                                                           *)
RevokeNext(r) ==
  /\ pc[r] = "revoke"
  /\ IF left[r] = {} THEN Answer(r, "ok") /\ UNCHANGED <<sessions, token, left>>
     ELSE \E t \in left[r] :
            /\ left' = [left EXCEPT ![r] = @ \ {t}]
            /\ IF sessions[t] # None
                 THEN /\ sessions' = [sessions EXCEPT ![t] = None]
                      /\ token' = [token EXCEPT ![r] = t]
                      /\ Goto(r, "forget")
                      /\ UNCHANGED reply
                 ELSE /\ UNCHANGED <<sessions, token>>
                      /\ IF call[r].op = "count" THEN UNCHANGED <<pc, reply>> ELSE Answer(r, "error")
  /\ UNCHANGED <<users, repo, files, call, actor, found, hand, saving, snap, fd, history>>

-----------------------------------------------------------------------------
(***************************************************************************)
(* Accounts.  Each operation ends with register_user and a save.           *)
(***************************************************************************)
Build(r, u, a) ==
  /\ hand' = [hand EXCEPT ![r] = [id |-> u, acc |-> a]]
  /\ Goto(r, "register")
  /\ UNCHANGED reply

Refuse(r) == Answer(r, "refused") /\ UNCHANGED hand

Register(r) ==
  /\ pc[r] = "register"
  /\ users' = [users EXCEPT ![hand[r].id] = hand[r].acc]
  /\ Goto(r, "keep")
  /\ UNCHANGED <<sessions, repo, files, call, work, reply, history>>

(* save_user                                                               *)
Keep(r) ==
  /\ pc[r] = "keep"
  /\ BeginSave(r, "users", [repo.users EXCEPT ![hand[r].id] = hand[r].acc])
  /\ UNCHANGED <<users, sessions, files, call, actor, found, hand, token, left, snap, fd,
                 reply, history>>

(* create_customer_account                                                 *)
New(r) ==
  LET c == call[r]
  IN  /\ pc[r] = "new"
      /\ IF HasAccount(users, c.user) \/ c.until <= c.from THEN Refuse(r)
         ELSE Build(r, c.user, [role |-> c.role, active |-> TRUE, from |-> c.from,
                                until |-> c.until, pwd |-> c.pwd, email |-> None,
                                recovery |-> None])
      /\ UNCHANGED <<memory, files, call, actor, found, token, left, saving, snap, fd, history>>

(* Mutant: an admin may hand out every role.                               *)
ForbiddenTarget(r, a) ==
  LET c == call[r]
  IN  \/ c.op \in {"renew", "status"} /\ IsProtected(a)
      \/ c.op = "role" /\ actor[r].acc.role # "owner" /\ IsProtected(a)

(* A protected account is neither renewed nor switched on or off, and only *)
(* an owner changes its role or makes one.                                 *)
Forbidden(r, a) ==
  LET c == call[r]
  IN  \/ c.op \in {"renew", "status"} /\ IsProtected(a)
      \/ /\ c.op = "role" /\ actor[r].acc.role # "owner"
         /\ IsProtected(a) \/ c.role \in Protected

(* Mutant: a renewal takes the end away.                                   *)
ChangedNoEnd(a, c) ==
  CASE c.op = "renew" -> [a EXCEPT !.active = TRUE, !.until = None]
    [] c.op = "status" -> [a EXCEPT !.active = c.active, !.recovery = None]
    [] c.op = "role" -> [a EXCEPT !.role = c.role, !.recovery = None]
    [] c.op = "profile" -> [a EXCEPT !.recovery = None]

(* The account that renew_customer_account, set_account_active_status,     *)
(* update_user_role or update_user_profile makes of a: what it does not    *)
(* name is lost, a pending recovery always, the address by a renewal.      *)
Changed(a, c) ==
  CASE c.op = "renew" ->
         [a EXCEPT !.active = TRUE, !.until = c.until, !.email = None, !.recovery = None]
    [] c.op = "status" -> [a EXCEPT !.active = c.active, !.recovery = None]
    [] c.op = "role" -> [a EXCEPT !.role = c.role, !.recovery = None]
    [] c.op = "profile" -> [a EXCEPT !.recovery = None]

ReadTarget(r) ==
  LET c == call[r]
      a == users[c.user]
  IN  /\ pc[r] = "target"
      /\ IF ~HasAccount(users, c.user) \/ Forbidden(r, a) THEN Refuse(r)
         ELSE Build(r, c.user, Changed(a, c))
      /\ UNCHANGED <<memory, files, call, actor, found, token, left, saving, snap, fd, history>>

(* The account that a recovery is for: by its id, else by its address.     *)
Candidates(c) ==
  IF c.user # None /\ HasAccount(users, c.user) THEN {c.user}
  ELSE {u \in Users : HasAccount(users, u) /\ c.email # None /\ users[u].email = c.email}

(* request_password_recovery: the answer never tells whether there was one.*)
FindRecovery(r) ==
  LET c == call[r]
  IN  /\ pc[r] = "find"
      /\ \/ /\ Candidates(c) = {}
            /\ Answer(r, "ok")
            /\ UNCHANGED <<hand, issued>>
         \/ \E u \in Candidates(c) :
              LET a == users[u]
              IN  IF \/ ~IsValid(a)
                     \/ a.email # None /\ c.email # None /\ a.email # c.email
                    THEN Answer(r, "ok") /\ UNCHANGED <<hand, issued>>
                    ELSE \E t \in RecoveryTokens \ {i[2] : i \in issued} :
                           /\ issued' = issued \cup {<<u, t>>}
                           /\ Build(r, u, [a EXCEPT !.email = c.email,
                                 !.recovery = [token |-> t, until |-> now + RecoveryAge]])
      /\ UNCHANGED <<memory, files, call, actor, found, token, left, saving, snap, fd,
                     drawn, proved, granted, exceeded, chosen, open>>

ChosenWith(c) == IF <<c.user, c.recovery>> \in issued THEN chosen \cup {<<c.user, c.pwd>>} ELSE chosen

(* reset_password_with_recovery_token                                      *)
CheckRecovery(r) ==
  LET c == call[r]
      a == users[c.user]
      ok == /\ HasAccount(users, c.user) /\ a.recovery # None
            /\ now < a.recovery.until /\ a.recovery.token = c.recovery /\ c.pwd \notin Weak
  IN  /\ pc[r] = "check"
      /\ IF ok THEN Build(r, c.user, [a EXCEPT !.pwd = c.pwd, !.recovery = None]) ELSE Refuse(r)
      /\ chosen' = IF ok THEN ChosenWith(c) ELSE chosen
      /\ UNCHANGED <<memory, files, call, actor, found, token, left, saving, snap, fd,
                     drawn, proved, issued, granted, exceeded, open>>

-----------------------------------------------------------------------------
(***************************************************************************)
(* The process.                                                            *)
(***************************************************************************)
Loaded(b, nothing) == IF b = None THEN nothing ELSE b

StartPassword == IF InitialPassword # None \/ Production THEN InitialPassword ELSE DevPassword

OwnerId(us) == IF HasAccount(us, Owner) \/ ~HasAccount(us, Fallback) THEN Owner ELSE Fallback

NewOwner ==
  [role |-> "owner", active |-> TRUE, from |-> 0, until |-> MaxTime + 1,
   pwd |-> StartPassword, email |-> OwnerEmail, recovery |-> None]

(* The owner after a start: one is made if there is none, and the account  *)
(* found becomes an owner's when its address is not the configured one.    *)
FirstOwner(us) ==
  LET a == us[OwnerId(us)]
  IN  IF a = None THEN NewOwner
      ELSE IF OwnerEmail \in {None, a.email} THEN a
      ELSE [a EXCEPT !.role = "owner", !.email = OwnerEmail]

(* Active since an hour before the start, for thirty days.                 *)
DemoUser ==
  [role |-> "customer", active |-> TRUE, from |-> 0, until |-> MaxTime + 1,
   pwd |-> DemoPassword, email |-> None, recovery |-> None]

(* register_user on a start, where nothing else runs: in both maps and the *)
(* file, before the next step.  A save that fails ends the process, as a   *)
(* crash before it does.                                                   *)
StartWith(all) ==
  /\ users' = all
  /\ repo' = [users |-> all, sessions |-> sessions']
  /\ disk' = [disk EXCEPT !.users = all]
  /\ temp' = [temp EXCEPT !.users = None]

(* The files are loaded and the owner is made or changed; without a        *)
(* password for a new one, or with a file that cannot be read, it exits.   *)
Boot ==
  LET us == Loaded(disk.users, NoUsers)
      o == OwnerId(us)
      unreadable == disk.users \in {Empty, Torn} \/ disk.sessions \in {Empty, Torn}
  IN  /\ proc = "down"
      /\ IF unreadable \/ (us[o] = None /\ StartPassword = None)
           THEN proc' = "failed" /\ UNCHANGED <<memory, files, granted, chosen>>
           ELSE /\ proc' = "starting"
                /\ sessions' = Loaded(disk.sessions, NoSessions)
                /\ IF FirstOwner(us) = us[o]
                     THEN /\ users' = us
                          /\ repo' = [users |-> us, sessions |-> sessions']
                          /\ UNCHANGED <<files, granted>>
                     ELSE /\ StartWith([us EXCEPT ![o] = FirstOwner(us)])
                          /\ granted' = granted \cup {<<o, "owner">>}
                /\ chosen' = IF us[o] = None THEN chosen \cup {<<o, StartPassword>>} ELSE chosen
      /\ UNCHANGED <<now, pc, call, work, reply, bounds, drawn, proved, issued, exceeded, open>>

(* The demo user is made outside production, unless there is one.          *)
Serve ==
  /\ proc = "starting"
  /\ proc' = "up"
  /\ IF Production \/ HasAccount(users, Demo)
       THEN UNCHANGED <<memory, files, granted, chosen>>
       ELSE /\ UNCHANGED sessions
            /\ StartWith([users EXCEPT ![Demo] = DemoUser])
            /\ granted' = granted \cup {<<Demo, "customer">>}
            /\ chosen' = chosen \cup {<<Demo, DemoPassword>>}
  /\ UNCHANGED <<now, pc, call, work, reply, bounds, drawn, proved, issued, exceeded, open>>

Nothing == [r \in Requests |-> None]

(* Maps and requests are lost; the files stay, the temporary ones too.     *)
Crash ==
  /\ proc \in {"starting", "up"}
  /\ crashes < MaxCrashes
  /\ crashes' = crashes + 1
  /\ proc' = "down"
  /\ users' = NoUsers
  /\ sessions' = NoSessions
  /\ repo' = [users |-> NoUsers, sessions |-> NoSessions]
  /\ pc' = [r \in Requests |-> IF pc[r] = "idle" THEN "idle" ELSE "done"]
  /\ actor' = Nothing /\ found' = Nothing /\ hand' = Nothing /\ token' = Nothing
  /\ saving' = Nothing /\ snap' = Nothing /\ fd' = Nothing
  /\ left' = [r \in Requests |-> {}]
  /\ open' = [r \in Requests |-> {}]
  /\ UNCHANGED <<now, files, call, reply, faults, drawn, proved, issued, granted,
                 exceeded, chosen>>

Tick ==
  /\ now < MaxTime
  /\ now' = now + 1
  /\ UNCHANGED <<proc, memory, files, pc, call, work, reply, bounds, history>>

Init ==
  /\ proc = "down"
  /\ now = 0
  /\ users = NoUsers
  /\ sessions = NoSessions
  /\ repo = [users |-> NoUsers, sessions |-> NoSessions]
  /\ disk = InitialFiles
  /\ temp = [s \in Stores |-> None]
  /\ pc = [r \in Requests |-> "idle"]
  /\ call = Nothing
  /\ actor = Nothing /\ found = Nothing /\ hand = Nothing /\ token = Nothing
  /\ saving = Nothing /\ snap = Nothing /\ fd = Nothing
  /\ left = [r \in Requests |-> {}]
  /\ reply = Nothing
  /\ crashes = 0
  /\ faults = 0
  /\ drawn = {}
  /\ proved = {}
  /\ LET us == Loaded(InitialFiles.users, NoUsers)
         has == {u \in Users : us[u] # None}
     IN  /\ granted = {<<u, us[u].role>> : u \in has}
         /\ chosen = {<<u, us[u].pwd>> : u \in has}
         /\ issued = {<<u, us[u].recovery.token>> : u \in {v \in has : us[v].recovery # None}}
  /\ exceeded = {}
  /\ open = [r \in Requests |-> {}]

Identify(r) == Authenticate(r) \/ DropExpired(r) \/ CheckAccount(r) \/ DropInvalid(r)
Save(r) == OpenTemp(r) \/ WriteTemp(r) \/ Replace(r)
Sign(r) == Verify(r) \/ Issue(r) \/ Remember(r) \/ Logout(r)
Drop(r) == Forget(r) \/ Sweep(r) \/ ListSessions(r) \/ RevokeNext(r)
Change(r) == New(r) \/ ReadTarget(r) \/ FindRecovery(r) \/ CheckRecovery(r) \/ Register(r) \/ Keep(r)

Step(r) ==
  /\ \/ \E c \in Offered : Start(r, c)
     \/ Identify(r) \/ Save(r) \/ Sign(r) \/ Drop(r) \/ Change(r)
  /\ UNCHANGED <<proc, now, bounds>>

Next ==
  \/ \E r \in Requests : Step(r) \/ SaveFails(r)
  \/ Boot
  \/ Serve
  \/ Crash
  \/ Tick

Spec == Init /\ [][Next]_vars

-----------------------------------------------------------------------------
(***************************************************************************)
(* Properties.                                                             *)
(***************************************************************************)
Steps ==
  {"verify", "logout", "find", "check", "sweep", "auth", "expire", "account", "drop", "new",
   "list", "target", "issue", "remember", "forget", "revoke", "register", "keep",
   "open", "write", "replace"}

(* Type invariant.                                                         *)
TypeOK ==
  /\ proc \in {"down", "starting", "up", "failed"}
  /\ now \in Now
  /\ users \in UserTable
  /\ sessions \in SessionTable
  /\ repo \in [users: UserTable, sessions: SessionTable]
  /\ DOMAIN disk = Stores /\ DOMAIN temp = Stores
  /\ \A f \in {disk, temp} :
       /\ f["users"] \in UserTable \cup {Empty, Torn, None}
       /\ f["sessions"] \in SessionTable \cup {Empty, Torn, None}
  /\ pc \in [Requests -> Steps \cup {"idle", "done"}]
  /\ call \in [Requests -> Call \cup {None}]
  /\ actor \in [Requests -> [id: Users, acc: Account] \cup {None}]
  /\ found \in [Requests -> Session \cup {None}]
  /\ hand \in [Requests -> Holding \cup {None}]
  /\ token \in [Requests -> Tokens \cup {None}]
  /\ left \in [Requests -> SUBSET Tokens]
  /\ saving \in [Requests -> Stores \cup {None}]
  /\ snap \in [Requests -> Contents \cup {None}]
  /\ fd \in [Requests -> {"temp", "disk", None}]
  /\ reply \in [Requests -> {"ok", "refused", "error", None}]
  /\ crashes \in 0..MaxCrashes
  /\ faults \in 0..MaxFaults
  /\ drawn \in SUBSET [token: Tokens, user: Users, by: Requests]
  /\ proved \subseteq Requests
  /\ issued \subseteq Users \X RecoveryTokens
  /\ granted \subseteq Users \X Roles
  /\ exceeded \subseteq Users \X Roles
  /\ chosen \subseteq Users \X Passwords
  /\ open \in [Requests -> SUBSET Tokens]

AccountTables == {users, repo.users} \cup ({disk.users, temp.users} \ {Empty, Torn, None})
SessionTables == {sessions, repo.sessions} \cup ({disk.sessions, temp.sessions} \ {Empty, Torn, None})

(* Accounts are rebuilt from copies that may be stale, kept in two maps    *)
(* and written by threads that overtake one another.  Still every account  *)
(* anywhere has a role that was given to the user by the configuration at  *)
(* a start, or by somebody with the right to give it, or by an admin when  *)
(* he made the account: the one way a role is had beyond that right.  And  *)
(* it has a password set by a start, when the account was made, or with a  *)
(* recovery token of the user.                                             *)
AccountsAreAuthorized ==
  \A table \in AccountTables : \A u \in Users :
    HasAccount(table, u) =>
      <<u, table[u].role>> \in granted \cup exceeded /\ <<u, table[u].pwd>> \in chosen

(* A session anywhere, also one that a stale save or a restart brings      *)
(* back, is of the first file or was made for its user by a login that     *)
(* gave the password of that user's valid account.                         *)
SessionsAreEarned ==
  \A table \in SessionTables : \A t \in Tokens :
    table[t] # None =>
      \/ InitialFiles.sessions # None /\ InitialFiles.sessions[t] = table[t]
      \/ \E d \in drawn : d.token = t /\ d.user = table[t].user /\ d.by \in proved

(* When a reset, a deactivation or a revocation is answered with success,  *)
(* no session that its user had when the request came is accepted any more *)
(* in this life of the process, whatever logs in or out in between.        *)
RevokedWhenAnswered ==
  \A r \in Requests :
    pc[r] = "done" /\ reply[r] = "ok" /\ call[r] # None /\ Revokes(call[r]) =>
      \A t \in open[r] : sessions[t] = None

(* The repository's docstring: accounts and sessions are kept across       *)
(* process restarts by atomic disk writes.  So a server whose files hold   *)
(* an owner always starts again.                                           *)
StartsAgain == proc # "failed"

-----------------------------------------------------------------------------
(***************************************************************************)
(* What the sources say and the code does not do.                          *)
(***************************************************************************)

(* update_user_role's docstring and the test beside it: an admin makes     *)
(* nobody an owner or an admin.  So every role was given by right.  False: *)
(* an admin names any role when he makes an account.                       *)
RolesAreGivenByRight ==
  \A table \in AccountTables : \A u \in Users :
    HasAccount(table, u) => <<u, table[u].role>> \in granted
=============================================================================
