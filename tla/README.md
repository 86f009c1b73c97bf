# Verification of the AI Trading Lab Platform

TLA+ models of the platform's server (`src/src/platform/`), TLC runs that check
them on small instances, and proofs, checked by TLAPS, of the properties that
matter most for every instance. Paths below are relative to `src/src/platform/`
unless they begin with `src/`.

## 1. The system

One Python process (`server.py`) serves HTTP with a thread per request
(`ThreadingHTTPServer`). The services behind it keep their state in
dictionaries and in a few JSON files; nothing but the files outlives the
process. "Project 1" is an external producer of trading signals. It sends its
publications to the server, which stores them as authoritative records; users
turn a publication into an *order intent*; an intent that was made from an
authorization can be handed to the *execution boundary*, behind which stands a
broker. The file of authoritative records may be shared by several processes,
every other file belongs to one.

### Components

| component | state | operations | interacts with | what is hard | what makes it correct |
|---|---|---|---|---|---|
| Order intents: `services/order_intent.py`, `adapters/order_intent_repository.py`, `domain/order_intent.py` | service maps; repository maps and indexes; `order_intents.json` | canonical creation from a publication, plain creation with an idempotency key, lifecycle transition, save, load | reads Project 1's record; read by the execution gateway | only the canonical creation holds the service lock; a flush may fail after memory has changed; indexes are rebuilt on restart | one intent per publication, nothing lost or revived in the file, answers are the caller's own |
| Execution gateway: `services/execution_gateway.py` and its port | cached results, attempt lists, reconciliation records, all in memory | request execution, reconcile, fetch a record | reads intents; calls the port | no lock at all: read, call, write | a command is sent on behalf of someone entitled, and not again once answered |
| Project 1 records: `adapters/project1_repository.py`, `services/project1_gateway.py` | records and indexes, flags, a JSON file, a lock file | ingest, lifecycle update, save, resolve | called by the HTTP ingest routes and by order intents | several processes, failing system calls, power failures, three optional ids | a log in which ids name one record with one content for good; what is created is durable |
| Persistence recovery: `services/persistence_recovery.py` | snapshots, staging and rollback directories | create, verify, restore, list, prune | replaces the files of four stores under running repositories | several files, errors and crashes in between, repositories that go on saving | a failed restore leaves no file as its swap made it or half put back, but one whose copy was cut short; each part of a backup was in its file while it was made; backups stay few |
| Users and sessions: `services/user_authorization.py`, `adapters/user_repository.py` | accounts, sessions, recovery tokens, two JSON files | register, login, sessions, recovery, role, status and profile changes | every request resolves its session here | whole accounts are read, rebuilt and saved without a lock, through one temporary file | roles, passwords and sessions are what the configuration or somebody with the right to it made them, but for the roles an admin gives with an account; an answered revocation has dropped every session it was asked to |
| Notifications: `services/notification.py` | an inbox per user, in memory | create, read, archive, delete, create from an event, deliver | fed by the other services' events; reads the preferences in the workspace | get, change, save; replayed events; copies saved late | an inbox holds what passed its user's preferences or the user made, marked as the user asked |
| Workspaces: `services/workspace.py`, `adapters/workspace_repository.py` | a workspace per user, a JSON file | symbol, watchlists, preferences | read by search and notifications | each change saves the whole workspace it read, through one temporary file; a default workspace is made and saved where none was found | the active watchlist exists; everything in a workspace is built in or was chosen by its user or an admin |
| Project 1 contract, presenter and adapter | none | validate, normalise, present | feed ingestion and the views | data rules | a function of the payload |
| Trading decisions: readiness, authorization, trade signal, workflow, strategy validation, backtest assessment | none but what one run carries | validate a strategy, build a signal, assess, authorize, stage an intent | the workflow calls providers, the lab and order intents one after the other | answers of different moments are combined | EXECUTED only on a sound strategy, a valid selection and sane levels; a repeated run stages nothing |
| Providers: registry, access, readiness, selection, validation, monitoring | a registry | register, resolve, validate, monitor, select | read by market data and decisions | classification of partial answers, mixed with what was kept at registration | a provider is selected only on answers that spoke for it |
| Market data, overview, screener, signals, performance | none | read and compose | read providers | absence and staleness | nothing is invented |
| Alerts | none | evaluate a rule | deliver through a port | thresholds | a function of what was observed |
| Outbound delivery (signal, Telegram, e-mail, notification) | none but a list of disabled channels | one attempt per call | external services | an honest outcome | one attempt, reported as it went |
| AI gateway | none | authorize, trim, ask | one external provider | what context may leave | context only within the permission |
| Security boundary, audit control, health, search, timeline | bounded logs | authorize, record, report | called from everywhere | - | pure decisions; logs that nothing reads back |
| Server, configuration, web client | routing tables, view state | HTTP | everything | threads | - |

`PROJECT.json` lists each with its files and says which are modelled: order
intents, the execution gateway, persistence recovery, users and sessions,
notifications and workspaces wholly; the Project 1 repository, the trading
decisions, the providers, market data, delivery and the server in all but what
section 5 names.

## 2. Modules

    OrderIntents            the intents service on its repository
      ExecutionGateway      extends it: the gateway composed with the intents it reads
        ExecutionGatewayProofs    theorems about the composition
      OrderIntentsProofs    theorems, which ExecutionGatewayProofs builds on
        OrderIntentsAnswersProofs   what a client is told, and what is left after restarts
      MCOrderIntents, MCExecutionGateway    instances for TLC
    AuthoritativeLog        abstract specification of the Project 1 repository
    Project1Repository      the repository, which implements it
      Project1RepositoryProofs    theorems: types, mutual exclusion, refinement, answers
      MCProject1Repository        instances for TLC
    PersistenceRecovery     backups and restores under running repositories
      PersistenceRecoveryProofs   theorems about both
      MCPersistenceRecovery
    UserAuthorization       accounts, sessions and recovery on their two files
      UserAuthorizationProofs
      MCUserAuthorization
    Workspaces              workspaces on their file, the inbox that reads their preferences
      WorkspacesProofs
      MCWorkspaces
    Providers               the registry and the verdicts on a provider, as operators
      TradingDecisions      the gates from a backtest to an authorization, as operators
        TradingWorkflow     selections and workflow runs that use both, step by step
          TradingWorkflowProofs
          MCTradingWorkflow

An action of a model is cut where the code can be interrupted with an effect
that others see: at a lock, at a call that takes one, at a system call, and,
where there is no lock, between two accesses to shared dictionaries. Definitions whose comment
says "Mutant" are plausible mistakes; no specification uses them. Replacing the
definition they stand for, each of them must make a property fail.

### OrderIntents

| model | code |
|---|---|
| `mem`, `memOrder`, `idem`, `pubs`, `ambiguous` | the repository's `_intents_by_id` with its insertion order, `_idempotency_map`, `_publication_map`, `_ambiguous_publication_keys` |
| `svc`, `svcIdem`, `svcLock` | the service's two maps and its `RLock` |
| `disk` | `order_intents.json`: intents and their order |
| `p1` | what the Project 1 gateway resolves a publication to, for each user |
| `proc` | the process; "failed" once its constructor has raised |
| `pc`, `call`, `record`, `hid`, `hand`, `reply` | a request's thread: where it is, what it was asked, the record it resolved, the intent it holds, its answer |
| `Start` | the security boundary's check at the head of every operation |
| `Resolve`, `LookupExisting`, `LookupKeyTaken`, `LookupUnsound`, `LookupNew`, `Record`, `Save` | `create_canonical_order_intent_from_publication`, under the service lock |
| `CheckExisting`, `CheckNotGranted`, `CheckNew`, `Record`, `Save` | `create_order_intent`, without a lock |
| `Read`, `Write` | `transition_order_intent_state`, without a lock |
| `Store`, `Refused`, `Persist` | `save_order_intent`: checks, maps, then the flush, which may fail |
| `Boot`, `LoadedIdem`, `LoadedPubs`, `LoadedAmbiguous` | `_load_from_storage` |
| `Crash` | the end of the process at any moment |

One call of the repository is one step, since it holds the repository's lock.
`Record` and `Save` are separate: in between, another thread can see the
service's maps and not the repository's. The flush writes a temporary file and
renames it, so the file is the old one or the new one.

Prices, sizes and the rest of a record are one value of `Contents`; those with
a complete lineage and a direction are `Usable`, those the constructor of
`OrderIntent` accepts `Sound`. `Join` is the string
`f"{user_id}:{idempotency_key}"`. Nothing keeps a colon out of either part, so
the instances join two users and two keys to one string, and no proof needs
`Join` to be injective.

### ExecutionGateway

`epc`, `ecall`, `view`, `outcome`, `report` and `ereply` are a gateway request
and what it holds; `cache`, `attempts` and `records` the service's three maps;
`sent` and `early` are history. `GetIntent`, `LookInCache`, `Send`,
`KeepResult`, `FindLog`, `NewLog`, `AppendLog` are the steps of
`request_execution`, `LookAtIntent`, `FetchEvidence`, `StoreRecord` those of
`reconcile_execution`, and `PeekRecord` is `get_reconciliation_record`. The
port is outside the repository: it answers any status, or raises, which the
service turns into a failed result. The list of attempts
is looked for and then created in two steps, as the code tests and then assigns.

### Project1Repository and AuthoritativeLog

`file` is the JSON file as any process reads it, `stable` the set of files a
power failure could leave (`os.replace` is not durable before the directory is
synced), `up` and `unavailable` the processes and those whose repository has
`_is_unavailable`, `holder` the call that has both the process's `RLock` and
the `flock`. Every operation reads the file again under the lock, so a
process's memory needs no variable of its own. `Decide` is what an operation
computes from the file it read (`Ingest`, `Update`, `Save`, `Resolve` on top of
`Lookup`); `Enter`, `Write`, `Sync` are the critical section, and `LockFails`,
`LoadFails`, `WriteFails`, `SyncFails`, `BootFails` its failures at each system
call. Where the exception leaves the critical section (the lock file cannot be
locked, an update or a save cannot be written) the call is "raised": the locks
are free, and `Raise`, the `except` clause, sets `_is_unavailable` only later.
In between other calls of the process enter and write. A file that cannot be
read (`LoadFails`) and a directory that cannot be synced mark the process while
the locks are held.
`CrashProcess` kills one process, `PowerLoss` all of them and may take the file
back to any of `stable`.

`AuthoritativeLog` says what this amounts to, without processes, locks and
files: records arrive under ids new to their tenant (`Arrive`), the records of
one lineage change state together (`Relabel`), the log is made durable
(`Settle`) or falls back to one not yet superseded (`PowerFailure`).
`ImplementsLog` maps `file` to `log` and `stable` to `kept`.

### PersistenceRecovery

`live` is the file of each store, `mem` the memory of the repositories that
keep one, `reading` what Project 1's repository, which reads its file for every
call, has read and is about to write back. `SaveCached`, `ReadDirect`,
`SaveDirect` are these repositories going on with their work: a save is the
whole of their memory, whatever a restore has put into the file. A backup is
`ReadStore` once per store, `WriteBundle`, `ListOld` and `Prune`; a restore is
`Verify`, `Load`, `CopyStore` once per store, `Stage`, `Swap` once per store,
and `Undo` and `Refill` once per store of which there is a rollback copy, when
something raised. `CopyFails` is the copy itself raising midway: what there is
of it (`Broken`) is then put back over a file nothing had swapped, and `cut`
remembers which. `RestoreFails` is every other operation, `UndoFails` a rollback
that raises. The copies are not renamed but written into the files, which
are emptied first (`Undo`) and filled later (`Refill`): a repository that
renames its own file into place in between leaves the rollback writing to a file
without a name (`into`, `Detach`), and two rollbacks of one file may mix
(`Alone`). `ListOldSlips` is a listing that skips a backup it could not read at
that moment, `RemoveSlips` a removal that fails unnoticed; `slips` counts both.
`Restart` is the end of the process at any of these points: a repository loads
a broken file as empty (`Lenient`), raises, so that nothing starts, or, without
a memory, marks it as corrupt. `InitDirect` is Project 1's repository writing
its first file. `Damage` is a backup file that becomes unreadable.
`taken` is the order of `created_at`; two backups never get one
time here, which the code does not promise. The digests of the manifest are
left out: a damaged backup fails `verify_backup` and the second reading alike.

### UserAuthorization

`users` and `sessions` are the service's maps, `repo` the repository's,
`disk` and `temp` the two files and the two temporary files that all threads
share; `Empty` is a file just truncated, `Torn` one with the rests of two
writes. `actor` is the copy of the account a request's token belonged to,
`hand` the new account or session it is about to store, `snap` the map it has
serialised and `fd` where its open file has ended up. Every request goes
through `Identify` (validation of its token, with the deletion of an expired
one), the operation's own steps, and `Save`, cut at opening, writing and
replacing. `drawn`, `proved`, `issued`, `granted`, `chosen` and `open` are
history: which session was made for whom, who proved a password, which recovery
tokens were given out, which roles and passwords were given by right, and which
sessions a target had when a revocation was received. Hashes are the passwords
themselves; random tokens are fresh model values.

A start has two steps, since it may be cut between them. `Boot` loads the files
and makes or changes the owner: the account of `Owner` or else of `Fallback`
(`admin_owner`) is taken, one with another address than the configured one
becomes an owner's (`FirstOwner`), a new one has the configured password or,
outside production, the default one of development (`StartPassword`). `Serve`
adds the demo user outside production. `Grants` is the documented rule of who
may give which role. An admin who makes an account may name any role, the
owner's too; such a role is not in `granted` but in `exceeded`, by `Exceeds`.

### Workspaces

`mem`, `disk`, `temp`, `snap` and `fd` are as above, for workspaces; `inbox` is
the in-memory repository of notifications. A request of op `workspace` does its
`parts` one after the other, as the handler of `/users/workspace` does, each a
`Fetch`, a `Change` and a save; where `Fetch` finds no workspace, `Make` saves
the default one later, over what another request may have made and changed by
then. `ReadPrefs` and `Post` are
`create_notification_from_event`, in between the preferences may change;
`Look` and `SaveNote` are `mark_as_read` and its like; `ListUnread` and
`MarkNext` are `mark_all_as_read`. `Deliver`, `Mail` and `SetChannel` are the
delivery service and its in-process adapter. `granted`, `drawn` and `shown`
are history.

### Providers, TradingDecisions and TradingWorkflow

`Providers` and `TradingDecisions` are operators: what `validate`, `monitor`,
`assess`, `generate`, `authorize` and their like return for what they are given.
Only the times of candles and quotes, the two sides of a quote, and the words of
a status that differ in effect are kept; ratios are multiplied out.
`TradingWorkflow` runs them: `run` holds the local variables of each call of
`select_provider` or `run_workflow`, `entries` is the registry, `intents` the
index of order intents by joined user and key, `staged` those that runs have
stored, `granted` the setups that were authorized. The repository is shared:
`intents` begins with whatever an earlier process left, and `StoreOther` is
somebody else's save of one of `Others` (a canonical creation, which asks for no
authorization, or a plain one of any user), or a transition, which saves an
older intent again. Each question to a provider, to the lab or to
the intent service is a step of its own (`AssessPreferred`, `AssessNext`,
`Overview`, `ReadLab`, `Look`, `Stage`); between two of them the clock ticks
(`Tick`), a provider is registered (`Register`), and a provider's next answer
may be another. No part of `server.py` builds a `TradingWorkflowService`; the
calls are those its constructor and signature allow.

## 3. Runs

All runs set `CHECK_DEADLOCK FALSE`: the number of requests and of failures is
bounded, so every behaviour of a model ends. Symmetry is used in runs of safety
properties only.

| run | what it shows |
|---|---|
| `intents_mixed` | canonical and plain creations and transitions, by the owner and an admin with the owner's key, with a crash and a failing flush: indexes agree with the intents (`IndexesAgree`), what was answered is in the file and a restart changes nothing while no flush has failed (`AnsweredIsDurable`, `RestartIsTransparent`), canonical answers carry the content resolved (`CanonicalAnswers`), the file only grows and never revives an intent (`PersistedForGood`), once a plain creation has succeeded, no later one under its joined key makes a further intent, restarts included, while no flush has failed (`RetriesCreateNothing`); one user's id and key join to the string of another's |
| `intents_publications` | on a file an earlier build left with two intents for a publication, two tenants and two crashes: one intent per publication (`OnePerPublication`), the ambiguous one fails closed (`AmbiguousFailsClosed`), intents end by their owner or an admin (`EndedByOwnerOrAdmin`), and the inductive invariant of the proofs holds (`RepositoryInv`) |
| `gateway_safe` | two execution requests against a transition, a crash, two tenants with equal keys and two intents of one tenant with one key: commands are sent for someone entitled (`SentOnBehalf`), not again once answered (`NoResendOnceAnswered`), a tenant gets results of its own intents only (`ResultIsOwn`), logs and records are of the intent they are filed under (`LogIsOfSends`, `RecordIsOfIntent`) |
| `intents_live` | every request to the intents service is answered or dies with the process (`RequestsAnswered`), through every failure path of the canonical creation, which holds the lock |
| `p1_safe` | three calls in two processes, on no file and on an ambiguous file of an older version, with a failing system call and a crash or power failure: refinement of the log (`ImplementsLog`), one creation per identity (`CreatedOnce`), durable (`CreatedIsDurable`), accepted means stored (`AcceptedIsStored`), resolution is unambiguous (`ResolvedIsUnique`), states change only by those who may (`LabelsOwn`), once a process is marked unavailable, no call that has not passed its last check writes (`UnavailableStaysOut`) |
| `p1_live` | no failure or crash leaves the file lock taken: calls are answered or die (`CallsAnswered`) |
| `recovery_safe` | two backups or restores under repositories that go on saving, with a crash, a raising file operation, a slip and a damaged backup: when a restore is answered as rolled back every file it had copied is what it was or was written by others since, unless its copy was cut short (`RolledBack`); what a backup holds of a store was in its file while the backup was made (`BackupIsOfItsTime`); answered backups are at most as many as are kept, and one more for each slip (`BackupsAreBounded`) |
| `accounts_safe` | two concurrent requests out of every operation on accounts and sessions, on a tick of the clock, a crash and a failing save: every account, in memory or in a file, has a role given by a start, by right, or by an admin when he made it, and a password set by a start, with the account or with a recovery token of the user (`AccountsAreAuthorized`); every session was earned by a login with the password (`SessionsAreEarned`); after an answered reset, deactivation or revocation the target's earlier sessions are gone (`RevokedWhenAnswered`) |
| `workspaces_safe` | two concurrent requests out of every change of a workspace and an inbox, by its user, an admin and somebody else, events, deliveries, a disabled channel, a crash and a failing save, on a file whose active watchlist is gone: `WorkspacesAreOwn` and `InboxIsEarned` |
| `workflow_safe` | two runs and a repository shared with others: selections by every path of the readiness check, workflows with sound and unsound strategies, a second user whose id and key join to the text of the first one's, while time passes, a provider registers and intents are stored: `ExecutedWasChecked`; a workflow whose key had an intent when it began stages none (`RepeatsStageNothing`) |

Two runs check a sentence of the documents that the code does not keep (the
findings in `PROJECT.json` quote it):

| run | what happens |
|---|---|
| `intents_server_restart` | with `audit_control` wired, as `server.py` does, a restart on an existing file raises: the report of a corrupt file stands outside its `except` clause |
| `accounts_restart` | two threads share `users.json.tmp`; one puts the file in place that the other has just emptied, the process stops, and no restart can load it |

Because of `intents_server_restart`, every other run of the intents sets
`AuditWired` to FALSE: otherwise no model could restart on its own file.

### Known disagreements without a run

The modules state ten more such sentences, under "what the sources say and the
code does not do". Checked instead of a run's properties, TLC refutes them:

| property | run to change | what happens |
|---|---|---|
| `TerminalIsFinal` | `intents_mixed` with `Offered <- RaceCalls`, `Sound <- MCUsable` | two transitions read `STAGED`; the later write replaces `CANCELLED` by `EXPIRED`, though `domain/order_intent.py:23` says terminal states do not change |
| `EveryAnswerIsDurable` | `intents_mixed` | a failed flush leaves the intent in memory; the retry is answered "existing" and a crash loses it |
| `SentOnce` | `gateway_safe` | two requests with one key both find the cache empty and both send |
| `EveryResultIsOfIntent` | `gateway_safe` with `InitialFile <- TwoTenantsFile`, `ExecOffered <- RootExecutes` | an admin executes the intents of two tenants with equal keys and gets the first one's result for the second |
| `AcceptedIsDurable` | `p1_safe` | an ingestion answered `DURABILITY_UNCERTAIN` is retried and accepted as a duplicate, with nothing synced in between |
| `FailedRestoreKeepsSaves` | `recovery_safe` | the rollback writes the copies over what a repository has saved since they were made |
| `RollbackIsSafe` | `recovery_safe` | a failed restore answers "live state was safely rolled back" (`services/persistence_recovery.py:535`), yet a rollback copy that was cut short (line 448) is put back over a file that had not been swapped, and a store that had no file keeps the new one |
| `RolesAreGivenByRight` | `accounts_safe` | an admin makes an account with the role of an owner (`services/user_authorization.py:529`), though nobody but an owner makes an owner or an admin by the docstring at lines 708-711 and `src/tests/test_user_management_workspace.py:90` |
| `PreferencesPersist` | `workspaces_safe` as a `PROPERTY` | notification preferences go back to the default ones, in memory and in the file, when the symbol or a watchlist is set (`domain/workspace.py:148`) or a default workspace is saved late (`services/workspace.py:123`), though `src/DEPLOYMENT_READINESS.md:149` says user-scoped preferences are persisted across restarts |
| `AnswersItsOwn` | `workflow_safe` | a workflow is answered with a canonical intent nobody authorized here (`services/order_intent.py:353`), or with another user's whose id and key join to the same text (`adapters/order_intent_repository.py:218`), though the docstring of `create_order_intent` (line 391) speaks of one staged from the authorization it is given |

Others have no property of their own.

* Intents: the keys of canonical creations are known to the service's own map
  only, so after a restart a key of one publication can be used for another; a
  user's id and key with a colon can find another user's intent; two concurrent plain creations with one key make two intents
  (`services/order_intent.py:434`; the comment at line 430 says one), which then
  share one cached result (`services/execution_gateway.py:217`), so that
  `ResultIsOwn` promises a result of the tenant's own with the key asked for, not
  of the intent asked for; an intent cancelled after the gateway has read it is
  still sent (line 161); a list of attempts created twice loses the first one's
  entry (line 252); a `save_record` with a known integration id but other ids
  takes that record's place (`adapters/project1_repository.py:494`), which
  nothing in `src/src/` calls.
* Accounts: a profile update that read the account before a deactivation puts
  the active one back; two resets with one recovery token both succeed.
* Workspaces: because of `PreferencesPersist`, `WorkspacesAreOwn` allows what is
  built in anywhere. Urgent e-mails are sent whatever the preferences say.
* Recovery: two restores started in one millisecond share their staging and
  rollback directories, which the model keeps apart.
* Trading: the readiness that is assessed is that of the lab's setup, with the
  providers the caller names; neither is compared with the signal's setup or
  with the provider selected. `min_risk_reward` is ignored when no readiness was
  assessed. A freshness or health that is unknown, an empty list of candles and a
  time after the reference all count as ready. A status kept at registration
  hides an availability told now. The default idempotency key is the symbol and
  the whole second, so that a second run in that second is answered with the
  first one's intent, whatever the setup. A run whose staging is denied stays `EXECUTED`, without an
  intent. A strategy whose time is a text makes the run raise. `ExecutedWasChecked`
  and `RepeatsStageNothing` are what holds in spite of these.

### Bounds

Two users, one an ordinary tenant and one an admin (a third where two tenants
must be told apart); one or two publications; keys `k` and the default key of
each publication, and in `intents_mixed` a key that joins with the tenant's id to
the string of the admin's id and `k`; three or four intent ids, so that creations never run out
before the property is decided: a fresh id is needed per creation, and there
are at most three. Three requests are the least in which two racing ones can be
seen by a third; one crash and one failing flush at every possible moment,
two crashes where a restart of a restarted process matters. For the
repository: three calls, two processes, three ids per lineage out of four names,
with lineages that are equal, share one id and differ in another, share one
that is alone, or are apart; two contents. A crash and a fault in one behaviour
are needed for the uncertain durability, and suffice to interrupt each critical
section at each step. Every bound (`MaxCrashes`, `MaxFaults`, `MaxSlips`,
`MaxDamaged`, `MaxTime`, `MaxClock`) is a constant in the guard of the action it limits.

Recovery: three stores, two with a memory and one without, one that has a file
only in `data/` and one that has none; three records, so that a save can come
before, between and after a job's steps; two jobs beside one old backup, and one
backup to be kept, so that the second must remove one. Accounts: two requests
overlap in every pair of operations; a clock of two instants, in which sessions
are valid and then expired; six users: the configured owner's id, the one that
is looked for second and owns here, the demo user, an admin, a customer and
one to be made; an owner and an admin make the last one, the admin as an owner. Workspaces: two requests, one of which makes four changes
in a row, so that each of its saves races the other's; two events, one
delivered with two severities. Workflow: two providers, of which one registers late;
three instants, of which two are fresh; a backtest on either side of every
threshold. Of the two runs the first makes every kind of call and the second the short
ones that race it for an intent: under the first one's default key, and under a
user and key that join to the same text. Two intents are stored by others, one
canonical, one of that user.

### Fairness

The handler threads of `ThreadingHTTPServer` are scheduled by the operating
system, so weak fairness of a started request's next step (`WF(Step(r))`,
`WF(Step(c))`) is justified: nothing in the handlers waits
except for the locks, and `flock` is granted once nobody holds it. Each call of a model is made once,
so that a waiting one is not overtaken for ever and strong fairness is not
needed. New requests, crashes and faults need not happen.

## 4. Proofs

`OrderIntentsProofs`, from `ConstantsAssumption` (the constants have their
types) and `NoneAssumption` (`None` is none of the values), for any number of
users, publications, keys, requests, crashes and faults, and any first file:

* `TypeCorrect`: `Spec => []TypeOK`. The invariant behind it, `TypeInv`, adds
  what a request carries at each step.
* `RepositoryCorrect`: `Spec => []RepositoryInv`. The parts: `IndexInv`, index
  and intents name one another; `FileInv`, the file holds no publication twice
  that it did not hold twice at first; `CoverInv`, memory is never behind the
  file; `UsedInv`, uuids are used once; `HandInv`, what a request holds between
  its steps is still true of the repository; `DownInv`, nothing runs while the
  process is down. None is inductive alone: `FileInv` needs the index to refuse
  a second intent, the index survives a restart because of `FileInv`, and a
  transition, which writes what it has read earlier without a lock, keeps the
  file only because of `HandInv`.
* `PublicationUnique`: `Spec => []OnePerPublication`, from `RepositoryInv`.
* `FileForGood`: `Spec => PersistedForGood`, from `CoverInv` and `HandInv`: a
  flush writes the memory, which continues the file.

`OrderIntentsAnswersProofs`, on `RepositoryInv`, `CallInv` (an intent in hand is
what its request asked for) and `KeyInv` (what the index of keys names has the
key):

* `EndedByRight`: `Spec => EndedByOwnerOrAdmin`; owner and admin are checked
  when a transition reads, and the intent written later still has that owner.
* `CanonicalOwn`: `Spec => CanonicalAnswers`.

Its second part is about restarts:

* `RestartTransparent` and `DurableAnswers`, by `FreshInv`: while no flush has
  failed, the memory is what loading the file would give, so that an answer
  from memory is one from the file (and `FileForGood` keeps it there).
  `DurableAnswers` also uses `ReplyAssumption`: the answer "ok" is not `None`.
* `LegacyFailsClosed`: `Spec => []AmbiguousFailsClosed`. The repository knows
  such a publication as ambiguous whenever the process is up (`LegacyInv`), so
  that lookups find nothing and saves are refused.
* `IndexesComplete`: `Spec => []IndexesAgree`, if `FileIsList`: the first file
  holds the intents it lists, as a JSON list does. Loading takes the last
  intent of a key; that there is a last one is the lemma `LastPosition`, from
  the library's well-foundedness of the natural numbers.
* `RetriesIdempotent`: `Spec => RetriesCreateNothing`, under the same `FileIsList`
  and for any `Join`: an answered plain creation's intent is in the memory, and
  in the file, under its joined key while no flush has failed (`DurableInv`,
  `KeptKeyInv`), and a restart rebuilds the index from all of the file
  (`CompleteInv`).

`Project1RepositoryProofs`, from `RepositoryAssumption` and `NoneAssumption`:

* `TypeCorrect`: `Spec => []TypeOK`, whose last conjunct is mutual exclusion:
  the one call between reading and releasing the file is the lock's holder.
* `FileIsLog`: `SavesAgree` implies `Spec => ImplementsLog`, the refinement. Its
  invariant says that what is about to be written is what the operation decides
  on the file as it *still* is (`DecidedInv`), that a process that could read
  the storage has initialised it (`KnownInv`), and that the file itself is
  among those a power failure can leave (`KeptInv`). `SavesAgree` is
  about `save_record`, which only tests call: a record saved under an integration
  id that its tenant has in use shares one of the three ids with the user of that
  integration id. Then a save that is not refused adds a new record or writes the
  file as it is (`SaveArrives`), because every record in a file is, in all but
  its state, one that arrived or was there at first (`OriginInv`). Without it the
  refinement is false: the save puts a record in the place of another. TLC
  evaluates `SavesAgree` on the instances (`MCProject1Repository`), so the
  theorems speak of everything that `p1_safe` runs.

Its second part is about the answers, on the same invariant:

* `UnavailableKept`: `Spec => UnavailableStaysOut`. A call looks at the mark when it
  has the locks, and not again: one that is past it when another call of its
  process raises goes on to write and to answer, which the property allows, and
  no other.
* `AcceptedStored` and `ResolvedUnique`: what `Decide` answers is true of the
  file it read, and the file is still that when the answer is given.
* `LabelsKept`, `CreatedSurvives`, `CreationOnce`, under `SavesAgree`: positions
  and contents last in every file (`WriteKeeps`), so that what was synced is in
  every file of `stable`, and what is created a second time would have met it.

`ExecutionGatewayProofs`, from the assumptions of both modules: every step of the
composition is one of `OrderIntents` or leaves it alone (`ComposedSteps`), so the
invariants above hold in it, and while the process is up an intent in memory
keeps its identity and its end (`MemoryContinues`). On top:

* `LedgerInv`, of the gateway alone: each command was sent by a request that did
  not find a result, its result is in the cache unless it is just being kept,
  what was answered when a request started is still cached, and each cached
  result is of a command of that user and key. It gives `AnsweredIsFinal`
  (`NoResendOnceAnswered`) and `LogOfSends` (`LogIsOfSends`).
* `PortInv`: what a request checked of its intent is still so when it acts on it
  (`EntitledInv`), all but the lifecycle state, which the gateway does not hold
  on to; nothing outlives the process (`ProcessInv`). It gives
  `CommandsOnBehalf`, `RecordOfIntent` and, with the ledger, `OwnResults`.

`PersistenceRecoveryProofs`, from `RecoveryAssumption` (types; finitely many jobs,
at least one backup to keep, at most one backup when the server is first
started) and `NoneAssumption`, for any stores, records, calls, crashes and faults:

* `TypeCorrect`: `Spec => []TypeOK`, with `CallInv`: a job on a step of a backup,
  or of a restore, has a call for one.
* `RestoreRolledBack`: `Spec => []RolledBack`, by `UndoInv`: before its swap a
  restore has written nothing; while it undoes the swap, every store it is
  through with holds the copy or was written by somebody else since, and the
  one it is writing is emptied; the copies are of the files as they were found,
  all but the one of `cut`; a job without an answer has none, so a crash cannot
  make a half-done restore count as rolled back.
* `BackupOfItsTime`: `Spec => []BackupIsOfItsTime`, by `TimeInv`: while a backup
  reads, it has seen what every file holds, and what it has read so far is of
  its time.
* `BackupsBounded`: `Spec => []BackupsAreBounded`. The invariant is about sets:
  of any set of more backups than are to be kept, and one more for each slip, all
  of jobs that have listed what is too old, one is on the list of a job of the
  set (`SurplusInv`). A full listing preserves it because the oldest of such a set
  has all the others as newer ones (ranks differ, `RankInv`, and a set of
  naturals has a least element); a slip allows the set one more, which pays for
  the backup that was skipped or not removed; and a removal makes it what the
  property says, because what is on a list is never written again (`ListInv`).

`UserAuthorizationProofs`, from `ConstantsAssumption` and `NoneAssumption`, for any
users, passwords, tokens, requests, clock, crashes and failing saves. The
invariant (`Safe`) says of each request what it asks (`Asks`), what it holds
(`Holds`), what it may store (`MayStore`), and of everything at rest:

* `TypeCorrect`: `Spec => []TypeOK`.
* `AccountsAuthorized`: `Spec => []AccountsAreAuthorized`. Not inductive alone: a
  request saves a whole account rebuilt from a copy that may be stale. So the
  copy in hand has to be authorized too, or differ from such an account only in
  what the request was allowed to change (`MayStore`), and so have the serialised
  table and the temporary file, which another thread may put in place. What was
  given stays so (`granted`, `exceeded` and `chosen` only grow), which is why a stale
  copy does no harm here. A start may give roles and passwords too (`Boot`, `Serve`),
  with no request running.
* `SessionsEarned`: `Spec => []SessionsAreEarned`, by the same argument about
  sessions (`Earns`).
* `SessionsRevoked`: `Spec => []RevokedWhenAnswered`. Until it is answered, each
  session its target had at the start is gone, or still to be listed, or listed
  and still to be dropped (`Covers`); no token is drawn twice, so none comes back.

`WorkspacesProofs`, from `WorkspaceAssumption` and `NoneAssumption`:

* `TypeCorrect`: `Spec => []TypeOK`.
* `WorkspacesOwn`: `Spec => []WorkspacesAreOwn`. The invariant adds that the
  workspace a request holds between reading and saving is right for the user it
  is for, that the file, the temporary file and what is being written are tables
  of workspaces their users own (`OwnTable`), and that the parts a request has
  left to do are parts of a call it was allowed.
* `InboxEarned`: `Spec => []InboxIsEarned`. The list of notes a request holds while
  the inbox changes is itself earned (`AllEarned`), which lasts because
  `granted`, `drawn` and `shown` only grow; the preferences a request has read
  were in the memory (`shown`).

`TradingWorkflowProofs`, from the assumptions of its three modules (the types of
the constants; no word and no number is `None`), for any number of runs,
providers, users and instants:

* `ExecutedChecked`: `Spec => []ExecutedWasChecked`. About the operators:
  `ReadyWas`, what a verdict of "ready" says of the answers it was formed on
  (with numeric times there is a latest candle: a set of naturals has a least
  element, `LeastNat`); `TradableResult`, what a tradable signal says of the
  strategy and its backtest; `SaneLevels` and `RewardCompared`, what the gate of
  the readiness says of prices. `GrantsRest` puts them together for the
  authorization. About the steps: `Private` says what a run's own variables hold
  at each step, `Earned` that what it is still to stage was authorized, and
  `Kept` that every intent that can be found was staged or is one of `Others`, and
  is found by the text its user and key join to, whatever that text is.
* `RepeatsIdle`: `Spec => []RepeatsStageNothing`. No step takes an intent from
  the index without putting another there (`Persists`), so what a run's key had
  when it began is still something when it looks (`Repeated`).

Only model-checked: the liveness properties (`RequestsAnswered`,
`CallsAnswered`), which are beyond the prover, and the two
disagreements, which TLC refutes. Every other property of a run is proved,
the refinement and three of the answers of the Project 1 repository
under `SavesAgree`, `IndexesComplete` and `RetriesIdempotent` under `FileIsList`.

## 5. What is not modelled, and the plan

Left out of the modelled components: the wording of answers, audit and
notification records made on the way, read-only listings, files that cannot be
parsed (`_is_corrupt`, backups of corrupt files and their removal), and the
single fields of a record.

Left out altogether, each with its reason in `PROJECT.json`:

* Project 1's contract, presenter and signal adapter, alerts, the screener, search,
  timeline, performance, overview: functions of one payload or of what other
  components return. They keep no state and call nobody back; what could go
  wrong in them is a matter of single fields, which the tests enumerate.
* The AI gateway, health, the audit control: one call or one bounded log each,
  which nothing in the program reads to decide anything.
* The bodies of external providers, of delivery over HTTP and SMTP, and of the
  broker's port: they stand behind ports whose every answer is allowed.
* The web client, and the tests.

To come:

1. The abstract specifications that the proofs suggest: a ledger of accounts in
   which every role and password is given by right, which `UserAuthorization`
   implements.
