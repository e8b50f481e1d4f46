------------------------------ MODULE VaultClient ------------------------------
(***************************************************************************)
(* The clients of one server: commands of the CLI (client/src/main.cpp)    *)
(* and operations of the GUI (client/src/gui/app_controller.cpp) run as    *)
(* processes on the users' devices, and carry out the workflows of         *)
(* VaultService and BackupService as sequences of API calls.  Processes of *)
(* one device share its session.json and its agent, which serves one       *)
(* request after the other (AgentSession); processes of several devices    *)
(* meet at the server, whose calls are atomic: that VaultStore keeps the   *)
(* promises of AtomicVaults is checked there, and used here.               *)
(*                                                                         *)
(* The Vault Key that init generates is named after the vault the server   *)
(* creates with it.  A ciphertext is its key and its plaintext; to decrypt *)
(* with another key fails.  The owner of a vault types its right master    *)
(* password when asked.                                                    *)
(***************************************************************************)
EXTENDS Naturals

CONSTANTS
  Users, Devices, Procs,
  DeviceOf,     \* process -> the device it runs on
  VaultIds, SecretIds, Names, Passwords, Texts,
  Private,      \* vault id -> its metadata mode
  None,
  Ops,          \* the commands that are used
  Kills,        \* TRUE: a process may be killed between two of its steps
  MaxVersion    \* bound on record versions

AllOps == {"login", "switch", "logout", "lock", "init", "unlock", "passwd",
           "export", "import", "get", "add", "update", "remove"}

ASSUME ClientAssumption ==
  /\ DeviceOf \in [Procs -> Devices]
  /\ Private \in [VaultIds -> BOOLEAN]
  /\ Ops \subseteq AllOps /\ Kills \in BOOLEAN /\ MaxVersion \in Nat

VARIABLES
  vault, secret,  \* the tables of the server
  session,        \* device -> the account in session.json, or None
  agentKey,       \* device -> the Vault Key in its agent, or None
  serving,        \* device -> the process whose request the agent serves
  proc,           \* process -> the command it runs, or None
  file            \* the backup file last written, or None

vars == <<vault, secret, session, agentKey, serving, proc, file>>
server == <<vault, secret>>
device == <<session, agentKey, serving>>

Headers == [key : VaultIds, pw : Passwords]
Values  == [key : VaultIds, text : Texts]

VaultRow == [id : VaultIds, header : Headers, private : BOOLEAN]
SecretRow == [vault : VaultIds, private : BOOLEAN, name : Names,
              value : Values, version : Nat \ {0}]

(* A backup: the header in the clear, the records under its key.           *)
BackupFile == [user : Users, vault : VaultRow,
               records : [SecretIds -> SecretRow \cup {None}]]

Steps == {"start", "lock", "clear", "activate", "relock", "deliver", "write",
          "meta", "list"}

(* A command under way: its account, the name it is about, the key it      *)
(* works with, and the row of its vault and the record it has read.        *)
Command == [op : AllOps, step : Steps, user : Users \cup {None}, name : Names,
            key : VaultIds \cup {None}, header : VaultRow \cup {None},
            id : SecretIds \cup {None}, row : SecretRow \cup {None}]

ASSUME NoneAssumption ==
  None \notin Users \cup Procs \cup VaultIds \cup SecretIds \cup VaultRow \cup SecretRow
             \cup Command \cup BackupFile

Init ==
  /\ vault = [u \in Users |-> None] /\ secret = [s \in SecretIds |-> None]
  /\ session = [d \in Devices |-> None] /\ agentKey = [d \in Devices |-> None]
  /\ serving = [d \in Devices |-> None]
  /\ proc = [p \in Procs |-> None] /\ file = None
-----------------------------------------------------------------------------
(* The server.                                                             *)

Of(u, s) == vault[u] # None /\ secret[s] # None /\ secret[s].vault = vault[u].id
Records(u) == {s \in SecretIds : Of(u, s)}

PostVault(u, v, pw) ==
  /\ vault[u] = None /\ \A o \in Users : vault[o] # None => vault[o].id # v
  /\ vault' = [vault EXCEPT ![u] = [id |-> v, header |-> [key |-> v, pw |-> pw],
                                    private |-> Private[v]]]
  /\ UNCHANGED secret

PutKey(u, header) ==
  /\ vault[u] # None
  /\ vault' = [vault EXCEPT ![u] = [@ EXCEPT !.header = header]]
  /\ UNCHANGED secret

PostSecret(u, s, name, value) ==
  /\ vault[u] # None /\ secret[s] = None
  /\ \A t \in Records(u) : secret[t].name # name
  /\ secret' = [secret EXCEPT ![s] =
                  [vault |-> vault[u].id, private |-> vault[u].private,
                   name |-> name, value |-> value, version |-> 1]]
  /\ UNCHANGED vault

PutSecret(u, s, version, value) ==
  /\ Of(u, s) /\ secret[s].version = version
  /\ secret' = [secret EXCEPT ![s] = [@ EXCEPT !.value = value,
                                               !.version = version + 1]]
  /\ UNCHANGED vault

DeleteSecret(u, s) ==
  /\ Of(u, s)
  /\ secret' = [secret EXCEPT ![s] = None]
  /\ UNCHANGED vault

(* Mutant: a restore adds the records of the backup to those that are there. *)
PostRestoreMerge(u, b) ==
  /\ b.user = u
  /\ vault' = [vault EXCEPT ![u] = b.vault]
  /\ secret' = [s \in SecretIds |->
                  IF b.records[s] # None THEN b.records[s] ELSE secret[s]]

PostRestore(u, b) ==
  /\ b.user = u
  /\ vault' = [vault EXCEPT ![u] = b.vault]
  /\ secret' = [s \in SecretIds |->
                  IF b.records[s] # None THEN b.records[s]
                  ELSE IF Of(u, s) THEN None ELSE secret[s]]
-----------------------------------------------------------------------------
(* Commands.                                                               *)

At(p, op, step) == proc[p] # None /\ proc[p].op = op /\ proc[p].step = step
Step(p, step) == proc' = [proc EXCEPT ![p] = [@ EXCEPT !.step = step]]
End(p) == proc' = [proc EXCEPT ![p] = None]

(* The agent serves requests in turn.                                      *)
AgentFree(p) == serving[DeviceOf[p]] = None
SetAgentKey(p, k) ==
  /\ AgentFree(p)
  /\ agentKey' = [agentKey EXCEPT ![DeviceOf[p]] = k]
  /\ UNCHANGED serving
SetSession(p, u) == session' = [session EXCEPT ![DeviceOf[p]] = u]

(* A new process: main.cpp loads the session before anything else.  login  *)
(* and switch choose an account.                                           *)
Start(p, op, u, n) ==
  /\ proc[p] = None
  /\ IF op \in {"login", "switch"} THEN u # None
                                   ELSE u = session[DeviceOf[p]]
  /\ u = None => op \in {"lock", "logout"}
  /\ proc' = [proc EXCEPT ![p] =
       [op |-> op, step |-> "start", user |-> u, name |-> n, key |-> None,
        header |-> None, id |-> None, row |-> None]]
  /\ UNCHANGED <<server, device, file>>

(* Mutant: login leaves the agent alone.                                   *)
LoginSaveOnly(p) ==
  /\ At(p, "login", "start")
  /\ SetSession(p, proc[p].user) /\ End(p)
  /\ UNCHANGED <<server, agentKey, serving, file>>

(* login, register: AuthManager::authenticate saves the session.           *)
LoginSave(p) ==
  /\ At(p, "login", "start")
  /\ SetSession(p, proc[p].user) /\ Step(p, "lock")
  /\ UNCHANGED <<server, agentKey, serving, file>>

(* The GUI has been told 401 and has cleared the session (Expire); the     *)
(* agent has yet to be locked.                                             *)
Relocking(p) == proc[p] # None /\ proc[p].step = "relock"

(* The agent is locked, if there is one: the end of login, passwd, lock    *)
(* and an expired session, the first step of logout and of the switch to   *)
(* another account.                                                        *)
LockAgent(p) ==
  /\ SetAgentKey(p, None)
  /\ \/ /\ \/ At(p, "login", "lock") \/ At(p, "passwd", "lock")
           \/ At(p, "lock", "start") \/ Relocking(p)
        /\ End(p)
     \/ At(p, "logout", "start") /\ Step(p, "clear")
     \/ At(p, "switch", "start") /\ Step(p, "activate")
  /\ UNCHANGED <<server, session, file>>

(* Mutant: logout may clear the session first and lock the agent second.   *)
LogoutClearFirst(p) ==
  /\ At(p, "logout", "start") \/ At(p, "logout", "clear")
  /\ SetSession(p, None) /\ Step(p, "relock")
  /\ UNCHANGED <<server, agentKey, serving, file>>

LogoutClear(p) ==
  /\ At(p, "logout", "clear")
  /\ SetSession(p, None) /\ End(p)
  /\ UNCHANGED <<server, agentKey, serving, file>>

SwitchActivate(p) ==
  /\ At(p, "switch", "activate")
  /\ SetSession(p, proc[p].user) /\ End(p)
  /\ UNCHANGED <<server, agentKey, serving, file>>

(* init: the GUI also unlocks the new vault.                               *)
InitPost(p) ==
  /\ At(p, "init", "start")
  /\ \E v \in VaultIds, pw \in Passwords :
       /\ PostVault(proc[p].user, v, pw)
       /\ \/ End(p)
          \/ proc' = [proc EXCEPT ![p] = [@ EXCEPT !.step = "deliver", !.key = v]]
  /\ UNCHANGED <<device, file>>

UnlockRead(p) ==
  /\ At(p, "unlock", "start") /\ vault[proc[p].user] # None
  /\ proc' = [proc EXCEPT ![p] =
       [@ EXCEPT !.step = "deliver", !.key = vault[proc[p].user].header.key]]
  /\ UNCHANGED <<server, device, file>>

(* ensure_running, and the key to the agent.                               *)
Deliver(p) ==
  /\ At(p, "unlock", "deliver") \/ At(p, "init", "deliver")
  /\ SetAgentKey(p, proc[p].key) /\ End(p)
  /\ UNCHANGED <<server, session, file>>

(* Mutant: only the wrapped key is kept, without the id and mode it is for. *)
ReadHeaderOnly(p) ==
  /\ At(p, "passwd", "start") \/ At(p, "export", "start")
  /\ vault[proc[p].user] # None
  /\ proc' = [proc EXCEPT ![p] =
       [@ EXCEPT !.step = "write", !.header = vault[proc[p].user].header]]
  /\ UNCHANGED <<server, device, file>>

(* rotate_password and export_file begin with the header.                  *)
ReadHeader(p) ==
  /\ At(p, "passwd", "start") \/ At(p, "export", "start")
  /\ vault[proc[p].user] # None
  /\ proc' = [proc EXCEPT ![p] =
       [@ EXCEPT !.step = "write", !.header = vault[proc[p].user]]]
  /\ UNCHANGED <<server, device, file>>

(* Mutant: a new password brings a new Vault Key.                          *)
PasswdWriteNewKey(p) ==
  /\ At(p, "passwd", "write")
  /\ \E pw \in Passwords, k \in VaultIds :
       PutKey(proc[p].user, [key |-> k, pw |-> pw])
  /\ Step(p, "lock") \/ End(p)
  /\ UNCHANGED <<device, file>>

(* The agent is locked only if the answer arrives.                         *)
PasswdWrite(p) ==
  /\ At(p, "passwd", "write")
  /\ \E pw \in Passwords :
       PutKey(proc[p].user, [proc[p].header.header EXCEPT !.pw = pw])
  /\ Step(p, "lock") \/ End(p)
  /\ UNCHANGED <<device, file>>

ExportWrite(p) ==
  /\ At(p, "export", "write")
  /\ file' = [user |-> proc[p].user, vault |-> proc[p].header,
              records |-> [s \in SecretIds |->
                 IF Of(proc[p].user, s) THEN secret[s] ELSE None]]
  /\ End(p)
  /\ UNCHANGED <<server, device>>

Import(p) ==
  /\ At(p, "import", "start") /\ file # None
  /\ PostRestore(proc[p].user, file)
  /\ End(p)
  /\ UNCHANGED <<device, file>>
-----------------------------------------------------------------------------
(* list, get, add, update and remove: run_agent and the *_unlocked         *)
(* operations of VaultService, with the account and token of the process   *)
(* that asks and the key that the agent has.                               *)

DataOps == {"get", "add", "update", "remove"}

AgentBegin(p) ==
  /\ \E op \in DataOps : At(p, op, "start")
  /\ AgentFree(p) /\ agentKey[DeviceOf[p]] # None
  /\ serving' = [serving EXCEPT ![DeviceOf[p]] = p]
  /\ proc' = [proc EXCEPT ![p] =
       [@ EXCEPT !.step = "meta", !.key = agentKey[DeviceOf[p]]]]
  /\ UNCHANGED <<server, session, agentKey, file>>

AgentMeta(p) ==
  /\ \E op \in DataOps : At(p, op, "meta")
  /\ vault[proc[p].user] # None
  /\ proc' = [proc EXCEPT ![p] =
       [@ EXCEPT !.step = "list", !.header = vault[proc[p].user]]]
  /\ UNCHANGED <<server, device, file>>

(* find: a private name is decrypted to be compared, which fails when the  *)
(* key of the agent is not that of the record.                             *)
Decrypts(p, s) == ~ proc[p].header.private \/ secret[s].value.key = proc[p].key
Matches(p, s) == Decrypts(p, s) /\ secret[s].name = proc[p].name

Respond(p) == serving' = [serving EXCEPT ![DeviceOf[p]] = None] /\ End(p)

AgentFind(p) ==
  /\ \E op \in {"update", "remove"} : At(p, op, "list")
  /\ \E s \in Records(proc[p].user) :
       /\ Matches(p, s)
       /\ proc' = [proc EXCEPT ![p] =
            [@ EXCEPT !.step = "write", !.id = s, !.row = secret[s]]]
  /\ UNCHANGED <<server, device, file>>

AgentFindNone(p) ==
  /\ At(p, "add", "list")
  /\ \A s \in Records(proc[p].user) : Decrypts(p, s) /\ ~ Matches(p, s)
  /\ Step(p, "write")
  /\ UNCHANGED <<server, device, file>>

AgentGet(p) ==
  /\ At(p, "get", "list")
  /\ \E s \in Records(proc[p].user) :
       /\ Matches(p, s) /\ secret[s].value.key = proc[p].key
  /\ Respond(p)
  /\ UNCHANGED <<server, session, agentKey, file>>

(* random_uuid: an id that is nowhere in use.                              *)
FreshId(s) ==
  /\ secret[s] = None
  /\ file # None => file.records[s] = None
  /\ \A q \in Procs : proc[q] # None => proc[q].id # s

AgentAdd(p) ==
  /\ At(p, "add", "write")
  /\ \E s \in SecretIds, t \in Texts :
       /\ FreshId(s)
       /\ PostSecret(proc[p].user, s, proc[p].name,
                     [key |-> proc[p].key, text |-> t])
  /\ Respond(p)
  /\ UNCHANGED <<session, agentKey, file>>

(* Mutant: the update is sent with the version the record has now.         *)
AgentUpdateBlind(p) ==
  /\ At(p, "update", "write")
  /\ \E t \in Texts :
       /\ secret[proc[p].id] # None
       /\ PutSecret(proc[p].user, proc[p].id, secret[proc[p].id].version,
                    [key |-> proc[p].key, text |-> t])
  /\ Respond(p)
  /\ UNCHANGED <<session, agentKey, file>>

AgentUpdate(p) ==
  /\ At(p, "update", "write") /\ proc[p].row.version < MaxVersion
  /\ \E t \in Texts :
       PutSecret(proc[p].user, proc[p].id, proc[p].row.version,
                 [key |-> proc[p].key, text |-> t])
  /\ Respond(p)
  /\ UNCHANGED <<session, agentKey, file>>

AgentRemove(p) ==
  /\ At(p, "remove", "write")
  /\ DeleteSecret(proc[p].user, proc[p].id)
  /\ Respond(p)
  /\ UNCHANGED <<session, agentKey, file>>

(* A 401 in the GUI, for a token that has expired or a mistyped password:  *)
(* the handlers of AuthenticationError, of operations and of the sync (a   *)
(* get), clear the session first and lock the agent second.  The requests  *)
(* of the agent end in Fail: their 401 reaches the GUI as another error.   *)
Expire(p) ==
  /\ \E op \in {"login", "init", "unlock", "passwd", "export", "import", "get"},
        step \in {"start", "write"} : At(p, op, step)
  /\ SetSession(p, None) /\ Step(p, "relock")
  /\ UNCHANGED <<server, agentKey, serving, file>>

(* Any other failure of a call, and a 401 in the CLI: nothing to find, a   *)
(* conflict, a key that does not decrypt, no answer in time.  The command  *)
(* ends there; so does the agent's work.                                   *)
Fail(p) ==
  /\ proc[p] # None
  /\ \/ proc[p].op \in DataOps /\ ~ Relocking(p)
     \/ proc[p].op \in {"init", "unlock", "passwd", "export", "import"}
          /\ proc[p].step \in {"start", "write", "deliver"}
  /\ IF serving[DeviceOf[p]] = p
       THEN Respond(p) ELSE End(p) /\ UNCHANGED serving
  /\ UNCHANGED <<server, session, agentKey, file>>

(* The process is killed.  A request it has made of the agent goes on.     *)
Killed(p) ==
  /\ Kills /\ proc[p] # None /\ serving[DeviceOf[p]] # p
  /\ End(p)
  /\ UNCHANGED <<server, device, file>>
-----------------------------------------------------------------------------
(* The Vault Key leaves the agent by its idle or absolute timeout.         *)
Timeout(d) ==
  /\ agentKey[d] # None /\ serving[d] = None
  /\ agentKey' = [agentKey EXCEPT ![d] = None]
  /\ UNCHANGED <<server, session, serving, proc, file>>

Work(p) ==
  \/ LoginSave(p) \/ LockAgent(p) \/ LogoutClear(p) \/ SwitchActivate(p)
  \/ InitPost(p) \/ UnlockRead(p) \/ Deliver(p) \/ ReadHeader(p)
  \/ PasswdWrite(p) \/ ExportWrite(p) \/ Import(p)
  \/ AgentBegin(p) \/ AgentMeta(p) \/ AgentFind(p) \/ AgentFindNone(p)
  \/ AgentGet(p) \/ AgentAdd(p) \/ AgentUpdate(p) \/ AgentRemove(p)
  \/ Expire(p)

Next ==
  \/ \E p \in Procs :
       \/ \E op \in Ops, u \in Users \cup {None}, n \in Names : Start(p, op, u, n)
       \/ Work(p) \/ Fail(p) \/ Killed(p)
  \/ \E d \in Devices : Timeout(d)

Spec == Init /\ [][Next]_vars
-----------------------------------------------------------------------------
TypeOK ==
  /\ vault \in [Users -> VaultRow \cup {None}]
  /\ secret \in [SecretIds -> SecretRow \cup {None}]
  /\ session \in [Devices -> Users \cup {None}]
  /\ agentKey \in [Devices -> VaultIds \cup {None}]
  /\ serving \in [Devices -> Procs \cup {None}]
  /\ proc \in [Procs -> Command \cup {None}]
  /\ file \in BackupFile \cup {None}

(* "A separately random 32-byte Vault Key encrypts all records.  It is     *)
(* wrapped by the KEK" (docs/CRYPTOGRAPHY.md:11): whoever opens the header *)
(* of a vault can decrypt each of its records, after any sequence of adds, *)
(* updates, password changes, exports and imports of all its devices.      *)
RecordsReadable ==
  \A u \in Users, s \in SecretIds :
    Of(u, s) => secret[s].value.key = vault[u].header.key

(* A backup is complete in itself: its header opens all of its records,    *)
(* although they are read by two calls between which the vault may change  *)
(* (backup_service.cpp:44, 55), and no two of them clash in a restore.     *)
BackupReadable ==
  file # None =>
    \A s, t \in SecretIds :
      /\ file.records[s] # None =>
           /\ file.records[s].value.key = file.vault.header.key
           /\ file.records[s].vault = file.vault.id
      /\ s # t /\ file.records[s] # None /\ file.records[t] # None
           => file.records[s].name # file.records[t].name

(* Between commands, an unlocked agent holds the key of the account whose  *)
(* session is stored on the device: requests combine the two               *)
(* (agent.cpp:511-514, main.cpp:276-301).                                  *)
KeyOfSession ==
  \A d \in Devices :
    (\A p \in Procs : DeviceOf[p] = d => proc[p] = None) /\ agentKey[d] # None
    => /\ session[d] # None /\ vault[session[d]] # None
       /\ agentKey[d] = vault[session[d]].header.key

(* "nox lock or nox logout clears the local unlocked session"              *)
(* (README.md:233): where nobody is logged in no agent is unlocked, but    *)
(* while a GUI that has met an expired session, which it clears first      *)
(* (app_controller.cpp:169-175), is about to lock it.  No logout, login or *)
(* switch passes through such a state, and an expiry leaves it.            *)
LogoutClears ==
  \A d \in Devices :
    session[d] = None /\ agentKey[d] # None
      => \E p \in Procs : DeviceOf[p] = d /\ Relocking(p) /\ proc[p].op # "logout"

Updates(p) ==
  At(p, "update", "write") /\ proc'[p] = None /\ secret' # secret

(* "a stale request receives 409 version_conflict" (docs/API.md:30): an    *)
(* update replaces the very record it has read, and no later one.          *)
StaleRefused ==
  [][\A p \in Procs : Updates(p) => secret[proc[p].id] = proc[p].row]_vars

(* The same for as long as there is no backup that could bring back a      *)
(* record version: whatever the devices of the account do, an update whose *)
(* record has changed since it was read is refused.                        *)
ReplacesWhatItRead ==
  \A p \in Procs : Updates(p) /\ file = None => secret[proc[p].id] = proc[p].row
StaleRefusedBeforeBackup == [][ReplacesWhatItRead]_vars

(* The clients ask of the server only what AtomicVaults offers; and the    *)
(* file an export leaves holds the records of one moment, and is restored  *)
(* as it is, whatever the other devices do in between.                     *)
Atomic == INSTANCE AtomicVaults
            WITH NoHash <- None,
                 backups <- IF file = None THEN {} ELSE {file}
ServerSteps == Atomic!Spec
=============================================================================
