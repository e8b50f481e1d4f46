# Formal models of NOX Vault

TLA+ models of NOX Vault (C++20 client with a local unlock agent, FastAPI
server over PostgreSQL), checked with TLC, with theorems proved by TLAPS.
Paths are relative to the repository; `PROJECT.json` maps each definition to
its source lines and lists the runs, mutants, findings, hazards and theorems.

## The system

| Component | State | Operations | Shared with |
|---|---|---|---|
| Vault, secret and restore API (`server/app/api`, `models`) | tables `vaults`, `secrets`, `audit_events` | `POST /vault`, `PUT /vault/key`, `POST/PUT/DELETE /secrets`, `POST /restore`, reads | every client of an account, concurrently |
| Accounts, tokens, `LoginRateLimiter` | table `users`, failures per address and email | register, login | - |
| Middleware, errors, health, settings | none | per request | - |
| Local agent (`run_agent`) | Vault Key, `started`, `last`, `stop`; socket, instance lock | unlock, status, lock, list/get/add/update/remove; watchdog; shutdown | all CLI and GUI processes of a user |
| `AgentClient` | none; startup lock | `available`, `request`, `ensure_running` | the agent, other starters |
| `VaultService`, `CryptoService`, `ApiClient` | none between calls | initialize, unlock, rotate_password, `*_unlocked` | server |
| `BackupService` | backup files | export, import | server |
| `ConfigManager`, `AuthManager` | `config.json`, `session.json`, `accounts.json` | save, clear, activate a session | all processes of a user |
| CLI (`main.cpp`) | none | commands, one process each | all of the above |
| GUI (`app_controller.cpp`) | view, `busy_`, `stateGeneration_`, timers | asynchronous operations, sync timer | all of the above |
| Deployment, packaging, migrations, scripts | none | - | - |

Processes of one user meet at the session file and at the agent, which has the
Vault Key but no idea whose key it is; each request brings account and token of
its own. Devices of one account meet at the server, where each request is a
transaction at READ COMMITTED that reads first and writes later.

What is hard, and what each component has to guarantee:

* **Server**: checks made in one snapshot and relied upon in a later statement;
  restores that replace a whole vault under other requests. Changes must be
  atomic, stay inside the account, keep names unique and modes equal, and be
  accounted for in the audit trail.
* **Agent in operation**: one thread, one mutex held over HTTP calls, a watchdog
  that needs the same mutex, clients that die. The key must leave memory in
  bounded time, and nobody may wait forever.
* **Agent start and stop**: `fork`, two `flock` files and an `unlink` by path,
  with crashes between any two steps. A serving agent must stay reachable,
  starters must not deadlock or fail without cause.
* **Clients**: workflows of several calls that other processes interleave with,
  or that end half way. Each record must stay readable with the master password
  of its account, each backup complete, stale updates refused.
* **Limiter**: three critical sections with a slow password check between them,
  and a clock that is read outside the lock. Logins of one key that run at once
  must not pass the limit by more than there are threads, and a limit must end.
* **Session files**: three files that every process reads, computes and writes in
  steps, without a lock, through temporary files of one name. No reader may meet
  half a file, and a killed command must not lose or keep an account.
* **GUI**: results that arrive after the view, the session or the agent has moved
  on. The view must follow the shared state, never go back behind what the user
  has just done, and keep nothing of an account that has gone.

## Modules

| Module | Models | Steps |
|---|---|---|
| `VaultStore` | the tables and every handler that changes them | one SELECT, or a handler's writes with its commit |
| `AtomicVaults` | abstract specification: what the server promises | one atomic change of one account |
| `AgentSession` | `run_agent` in operation: accept loop, requests, watchdog, time | one request, one look of the watchdog, one tick |
| `AgentStartup` | `ensure_running`, start and end of `run_agent`, locks, socket | one system call that others can see |
| `VaultClient` | commands of CLI and GUI over server, session files, agents | one API call, one agent request, one file write |
| `LoginLimiter` | register, login, `LoginRateLimiter` | one critical section, one verification, one tick |
| `ConfigStore` | `write_json`, `save_session`, `clear_session`, `activate_session`, `set`, `unset` | one file system call that others can see |
| `Gui` | `AppController`: operations, their completions, sync, reveal timer | one call of a worker, one result applied, one click |
| `*_proofs` | theorems about the module they extend | |
| `MC*` | constants for TLC | |

**VaultStore.** `vault`, `secret` and `audit` are the tables; `call[d]` is the
request a device has under way, with the vault id its handler has read (`held`);
`answer` is what the last step sent. Ciphertexts and wrapped keys are opaque, as
for the server. A restore deletes rows on which other requests may be waiting:
PostgreSQL lets them continue with no row, although one with the same id is
there again, and `overtaken` is that possibility. `SecretHome` and `VaultOwner`
say for which vault and account a UUID was generated: UUIDs are random, so two
accounts never generate the same one. Reads (GET) change nothing and appear
where clients use them.

**AgentSession.** Ages of key, use, watchdog and request replace the clock.
Built into the actions are two assumptions on scheduling: the watchdog runs when
it is due and the mutex is free (`Tick`), and it gets the mutex before the next
request if it waits for it (`Begin`). The first is the meaning of a timed wait;
the second is what a fair mutex does and `std::mutex` usually does. The bounds of
the timeouts below depend on both. An answer to a client that has gone ends the
agent by SIGPIPE, which the code neither blocks nor ignores.

**AgentStartup.** POSIX only. `startup` is the set of processes that share the
locked open file description (a forked child shares the lock of its parent).
`path` is whose socket `agent.sock` is; `bind` refuses a path that exists, and the
agent then ends (`Listen`). An agent is "cut" when it crashed or when its listen
failed for a reason outside the model, which is all that excuses one that took the
instance lock from serving (`AgentServes`). `calm` is a history variable that the
properties use: no agent has stopped, crashed, failed to listen or been slow
since the call began.

**VaultClient.** Processes run one command at a time; those of a device share
`session` and `agentKey`. A ciphertext is the pair of key and plaintext.
Passwords are only part of the header: the owner types the right one. A 401 ends
a command of the CLI with session and agent as they were (`Fail`); the GUI's
handlers of `AuthenticationError` clear the session and then lock the agent
(`Expire`, step "relock"). A request to lock an agent that is there is answered;
the lock that fails is in `Gui` (`Trouble`). Server
calls are atomic here: `VaultStore` is shown to implement `AtomicVaults` (run
`store`), and the calls used here are shown to be steps of the same
`AtomicVaults` (run `devices`, `ServerSteps`). The third variable of
`AtomicVaults`, `backups`, is the set of backups that exist: the payloads that
clients hold (constant) in `VaultStore`, the file last written in `VaultClient`.

**LoginLimiter.** `entries` are the deques, `table` the keys of the dictionary in
order of insertion, for the eviction. Instead of a clock the model has ages: of
each failure in the window, and of the time a thread has read for `is_limited`
before it got the lock (`lag`, at most `MaxLag`). Ages stop at the point beyond
which they are all alike (`AgeCap`). `Restart` empties the table, which is only
in memory.

**ConfigStore.** `path` and `tmp` give the contents of each file and of its
temporary one as a set: the accounts or settings it holds, `{None}` when it does
not exist, `{p}` while process `p` has it open and unfilled, `{Torn}` when that
process was cut short. An open file stays the writer's wherever it is renamed to
(`Becomes`). `crowd`, `damaged`, `kept`, `asked` and `gone` are history: two
commands have overlapped, one of them was cut short, and what single commands
have promised. POSIX only.

**Gui.** `job` holds the operation and the sync, which run on threads of their
own; `stale` says that `stateGeneration_` has changed since the sync began, which
is all the code asks of it. `revealed` and `timer` are separate: showing a value
starts `revealTimer_`, hiding one stops it (`HideSensitive`), and `Hide` is what the
user does to hide it. Record lists are the account they were read for. An
operation that `dispatch` would drop because another one runs is an action only
if it changes the view before it dispatches. `seen` is history for `SyncFresh`;
`Elsewhere` is the CLI and the watchdog, whose own behaviour is in the other
modules.

How they compose: `VaultStore` refines `AtomicVaults`; `VaultClient` uses
`AtomicVaults`' steps; the agent as one server of sequential requests with a key
that may go at any time (`Timeout`) is what `AgentSession` shows in detail; that
there is one reachable agent for all processes of a user is `AgentStartup`. The
one `session` of `VaultClient` and `Gui` is what `ConfigStore` shows of commands
that do not overlap (`FilesWhole`, `AccountsKept`, `LogoutSticks`).

## Runs

Deadlock is checked in all runs but `store`, `store_reread` and `gui`: there
`MaxEvents` ends the sending of requests, and here `MaxClicks` what the user does
while an account is being added, when the sync is off. Every property has a mutant of the code
that breaks it.

| Run | Bounds | Shows |
|---|---|---|
| `store` | 2 accounts, 2 requests at once, 3 vault ids, 3 secrets, 1 name and NULL, versions submitted up to 2, 3 audited changes | `TypeOK`, `ModeMatches`, `NamesUnique`, `AuditTrail`, `VaultNeverMissing`, `Isolation`; refinement `TakesEffectAtOnce` |
| `store_reread` | 1 account, 4 audited changes | violated: `UpdatedNeverMissing` |
| `session` | 2 clients, idle 1, absolute 3, period 1, request 1 | `TypeOK`, `AbsoluteTimeout`, `IdleTimeout`, `UnlockEnds`, `ConnectionEnds` |
| `session_late` | idle 2, absolute 4, period 2, request 2 | violated: `UsedInTime` |
| `startup` | 2 clients, 2 agents, 2 polls | `TypeOK`, `ServingReachable`, `FailureExplained`, `EnsureEnds`, `StartupReleased`, `AgentServes` |
| `client` | 1 process, 2 accounts, 2 secrets, all commands | `TypeOK`, `RecordsReadable`, `KeyOfSession`, `LogoutClears` |
| `devices` | 2 devices, 1 account, 2 secrets, 2 names, kills | `RecordsReadable`, `BackupReadable`, `ServerSteps`, `StaleRefusedBeforeBackup` |
| `rewind` | 2 devices, 1 secret, 3 versions | violated: `StaleRefused` |
| `terminals` | 2 processes on 1 device, 2 accounts | violated: `RecordsReadable` |
| `logins` | 2 threads, 1 email from 2 addresses, 2 attempts, window 2, 1 entry before eviction, lag 1 | `TypeOK`, `OvershootBounded`, `NoStaleRefusal`, `LimitLifts` |
| `files` | 2 processes, 2 accounts, 1 setting; symmetric | `TypeOK`, `FilesWhole`, `AccountsKept`, `LogoutSticks`, `FailsOnlyInCrowd` |
| `gui` | 2 accounts, 2 clicks, 1 change from outside or failure | `TypeOK`, `RecordsGone`, `SyncFresh`, `RevealEnds`, `Converges` |

Why the bounds suffice: every conflict on the server is between two requests,
and a restore, an update and a delete fit into three changes with two more under
way; a private vault, an open one and a foreign one tell modes and owners apart.
For the agent, two clients give one that is served while another waits or dies,
and the times are the smallest for which the three delays (timeout, period,
request) differ in their sum. For the start, two clients and two agents give one
agent that ends while another starts and a starter that waits; the theorems
extend the safety part to any number. Commands are between one and five steps
long, and their interference is pairwise. For the limiter, two threads overshoot
a limit of two, a second key evicts the first, and a lag of one puts a clock
reading behind another thread's; the bound on the overshoot is proved for any
number. For the files, one command meets another at every step, a third process
only repeats what the second can do (and is covered by the theorem), and two
accounts tell the one that logs out from the one that stays. In the GUI a hazard
is a click, or two, that meet one change from outside while a sync is under way;
1 click with 2 changes and 2 clicks with 2 changes were checked too and are only
slower.

### Violated by the code

* `UpdatedNeverMissing`: `assert updated is not None` (`server/app/api/secrets.py:82`)
  fails when the secret is deleted, or the vault restored, between commit and
  read-back. The update has taken place; the client sees a 500.
* `UsedInTime`: `run_agent` restarts the idle clock before it compares it with
  the timeout (`client/src/agent.cpp:513`): an operation that arrives between
  the expiry and the next look of the watchdog uses and revives the key, which
  `docs/CRYPTOGRAPHY.md:31` says is retained until the timeout.
* `StaleRefused`: `docs/API.md:30` says that a stale request receives
  `version_conflict`, but a restore rewinds record versions
  (`server/app/api/restore.py:41`), and versions are what staleness is told by.
  Without backups the property holds (`StaleRefusedBeforeBackup`).
* `RecordsReadable` with two terminals: `nox login` saves the new session and then
  locks the agent (`client/src/main.cpp:203-206`). A command of another terminal in
  between is the new account's and meets the old account's key: its `add` stores a
  record that the new account cannot read. A `nox unlock` (`main.cpp:238-246`) that was
  started before the login and delivers its key after it has the same effect for
  longer: the agent does not know whose key it has.

## Fairness

Safety properties are checked without fairness, or with it where a run has both.

* `AgentSession`: weak fairness of the accept loop and of clients' sends (a
  client that has connected sends its frame or dies); strong fairness of
  `Watchdog` and `Tick`, which requests disable again and again: time passes,
  and the mutex is not taken from the watchdog forever. HTTP calls end because
  `ApiClient` sets `CURLOPT_TIMEOUT` (`MaxOp`). No fairness of `Start`, `Quit`
  or `Connect`.
* `AgentStartup`: weak fairness of every running process; strong fairness of
  `TakeStartupLock` (flock serves its waiters) and `Fork` (a process id becomes
  free). None of calls, kills, crashes, lock requests or `ListenFails`. That
  an agent answers a status request is `ConnectionEnds` of `AgentSession`.

* `LoginLimiter`: weak fairness of every thread that has a request (queries,
  password hashing and lock acquisitions end) and strong fairness of `Tick`,
  which a thread at its lag bound disables: time passes.
* `Gui`: weak fairness of both workers, of `Completion`, `SyncStart`, `SyncEnd` and
  `RevealTimeout`: threads run, calls end (`CURLOPT_TIMEOUT` for the server,
  `ConnectionEnds` for the agent), and Qt's event loop delivers queued results and
  timers. None of clicks, of `Hide`, of Retry, of other processes or of failures.

## Proofs

TLAPS proves, for all values of the constants that satisfy the named
assumptions:

* `VaultStore_proofs`: `TypeOK`, `ModeMatches`, `VaultNeverMissing`. The
  inductive invariant is `StoreInv`: handlers remember a vault id and an
  account that had a vault, and `CallsSound` says what of that is still true
  when they write. The mode and owner of a vault id never change, an account that
  has a vault keeps one, and the foreign key ties a secret to the present
  vault. Assumed: `StoreAssumption`, `BackupAssumption` (backups are exports of
  the account's vaults), `NoneAssumption`.
* `AtomicVaults_proofs`: `NamesUnique`, `Isolation`, `AuditTrail`, and the
  refinement of `AtomicVaults` (`TakesEffectAtOnce`). From `StoreInv` follows once
  what each step does to the tables (`StepEffects`: nothing, a new vault, a new
  header, one secret added, updated or deleted, or everything replaced, each for
  one account); each theorem looks only at these effects. `TrailInv` adds to
  `AuditTrail` that an untouched secret is not updated before it is created, and
  that no id is created twice. The refinement needs `NamesUnique` too, for the vault
  a step leaves must be well-formed.
* `AgentSession_proofs`: `TypeOK`, `AbsoluteTimeout`, `IdleTimeout`. The
  invariant `SessionInv` bounds how long the key can have been due: by the
  watchdog's timer while no request runs, and by the request's clock on top of
  that while one does (`WatchdogDue`, `KeyFresh`); `QueueSound` says that queue
  and connection have a client behind them, which types need.
* `AgentStartup_proofs`: `TypeOK`, `ServingReachable`, `FailureExplained`.
  `InstanceHeld` ties the instance lock to the phases in which an agent may touch
  the socket; `SocketRemoved` says that nobody puts a socket back between an agent's
  `unlink` and its `bind`; `CallCalm` says that in a calm call a forked starter always has a
  starting or serving agent to wait for.
* `LoginLimiter_proofs`: `OvershootBounded`. A thread that adds a failure leaves
  `Admitted` as the queue grows, and one that is admitted has just seen fewer than
  `Attempts` failures while at most the other threads are admitted; pruning and
  clearing only shorten the queue. With `QueuesAndThreads` (types of what the
  sums are about) the property is inductive.
  `TypeOK` and `NoStaleRefusal` rest on `TableInv`: the queues are in order of time
  (`InOrder`), since `add_failure` reads the clock under the lock, and each key with
  failures has one entry. In order, the entries that `is_limited` leaves after
  pruning the front are those within the window (`PruneRecent`). Assumed:
  `LimiterAssumption`.
* `ConfigStore_proofs`: `TypeOK`, `FilesWhole`. `FilesWhole` needs to know who can
  still fill a file: `WriterFilling` (a file that is open has its writer at
  work, on this file), `CrowdSound` (two commands at work are a crowd) and
  `TmpWhole` (nobody is about to rename what a cut-short command has left, since
  `write_json` removes the temporary file first); `MineSound` is what the
  types of the contents need. Assumed: `ConfigAssumption`.
  `AccountsKept`, `LogoutSticks` and `FailsOnlyInCrowd` are about commands that do
  not overlap. `AloneInv` follows the one command at work from step to step:
  what it has read is still what is stored, what it has created nobody else has
  touched, and its draft keeps the accounts that it must keep; `CrowdForgets`
  lets go of what is recorded as soon as a second command begins.
* `VaultClient_proofs`. `ClientInv` holds for any use of the commands by any users,
  devices and processes: a vault keeps its id, and its header the key of that id,
  so that headers, backups and keys that commands have read stay those of
  their account (`CommandSound`, `FileSound`), and the key in an agent is somebody's
  (`KeysOwned`). It gives `TypeOK`, the refinement `ServerSteps` and
  `StaleRefusedBeforeBackup` without a further hypothesis; the last by
  `VersionsGrow`: a record that is not what a command has read is gone or has
  a later version, as long as no backup can bring the version back.
  `RecordsReadable` needs more, since `terminals` violates it: the agent must give
  a command the key of that command's account (`Matched`). It does
  where there is one account (`OneUser`: `RecordsReadable` and `BackupReadable` for
  any number of devices and processes, kills and timeouts included, as in
  run `devices`), and where each device runs one command at a time, to its end
  (`OneCommand`: `RecordsReadable`, `KeyOfSession`, `LogoutClears` for any number of
  accounts and devices, as in run `client`). For these, `SessionInv` ties the key
  in the agent to the stored session, except while a login is between saving
  the one and locking the other, or the GUI between clearing an expired one and
  locking; a kill just there is why `OneCommand` excludes
  kills. Assumed: `ClientAssumption`, `NoneAssumption`.
* `Gui_proofs`: `TypeOK`, `RecordsGone`, `SyncFresh`. `GuiInv` says at which places a
  job can be (`JobsSound`), that a sync beside an operation is stale and that a
  logout finds the list emptied (`OpSound`), and that what a sync has read that is
  not stale is among what was true since it began (`SyncSound`). Assumed:
  `GuiAssumption`.

The hypotheses `OneUser` and `OneCommand` are about how the program is used, not
about the code; the runs `devices` and `client` are instances of them, and the
finding `terminals` shows that neither can be dropped altogether.

Only model-checked: the liveness properties (`UnlockEnds`, `ConnectionEnds`,
`EnsureEnds`, `StartupReleased`, `AgentServes`, `LimitLifts`, `RevealEnds`,
`Converges`), because fairness speaks of ENABLED, which is beyond the prover. The
expected violations `UpdatedNeverMissing`, `UsedInTime` and `StaleRefused` are
counterexamples, as is `RecordsReadable` in `terminals`. Every other property of
every run is stated by a theorem.

## Not modelled

* Cryptography (a decryption with the wrong key fails), formats, Base64, HTTP,
  prompts, and the size limits of requests: functions of their arguments.
* The Windows branches: named pipe, mutexes, `MoveFileEx`.
* The temporary file of a backup: written like those of `ConfigStore`, but for one
  process that chooses the path.
* When a token expires: an expiry is a 401, which is an event (`TokenExpires` in `Gui`).
* GUI: health check, clipboard, password generator, and the selection, page,
  language and settings shown, which no other component reads.
* The 32 bits of `record_version` (`server/app/models/secret.py`): no legal
  number of updates reaches them; a restore that
  submits one ends in a database error. Deployment and scripts: no state.
* Requests are not retried by the clients, so duplicates of one request do not
  arise; a lost answer is `Fail` after the call has taken effect in `PasswdWrite`,
  and a kill between two steps elsewhere.

## Observations

Behaviour of the code that the models show and that contradicts no doc; each is
part of a module, as an exception that a property names or a branch of an action.

* `is_limited` inserts every key it is asked about (`server/app/core/middleware.py:89`, a
  `defaultdict`), so the cap in `add_failure` does not bound the table.
* Two processes that write one file at once can rename each other's unfilled
  temporary file, and one update of `accounts.json` can be lost (`crowd`).
* A logout can leave `accounts.json.tmp` of an earlier killed write behind; the
  next write removes it.
* A full disk in `save_session` after `session.json` is written reports a failed
  login although the session is in use.
* GUI: a mistyped password while adding an account is a 401, and ends the session
  of the current account; an `AuthenticationError` clears whatever session is
  stored by then, also a newer one of another process (`app_controller.cpp:169`).
* GUI: `addAccount` during an operation whose completion does not clear
  `addingAccount_` leaves the sync off until the user cancels or signs in.
* GUI: `lock` and `logout` clear the list before `dispatch` drops them because an
  operation is under way; the list stays empty until the records change.
* GUI: a sync that finds another account locks the agent, also when the CLI has
  unlocked it for that account already (`app_controller.cpp:356`).
* GUI: an expired session is cleared before the agent is locked
  (`app_controller.cpp:169-175`, `397-403`), where logout locks first: for a moment
  the agent is unlocked with nobody logged in (the exception of `LogoutClears`), and
  stays so if the lock request fails, since the handler ignores that.
* GUI: a full start through the sync does not hide a revealed value, nor is a reveal
  dropped whose user has begun to add an account; the timer hides it
  (`RevealEnds`).
* GUI: the account popup stays open when a sync changes the screen behind it, so
  that `addAccount` and `switchAccount` can then be called outside "app". In the model
  they need that screen.
* Every `IntegrityError` of a create, also that of the foreign key after a restore,
  is answered as a taken name (`server/app/api/secrets.py:32`).

## Plan

In place: all components with state of their own. Next, in this order:

1. `ConfigStore` under `Gui`: the sync as a reader of `session.json` in its steps.
2. The two reads of the session in `client/src/main.cpp:193` and `223`.
