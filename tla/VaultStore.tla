------------------------------ MODULE VaultStore ------------------------------
(***************************************************************************)
(* The server side of NOX Vault: the tables vaults, secrets and            *)
(* audit_events of server/app/models, and the handlers of server/app/api   *)
(* that change them.                                                       *)
(*                                                                         *)
(* A handler is a synchronous function that FastAPI runs on a thread of    *)
(* its pool, over a session of its own (core/database.py), on PostgreSQL   *)
(* at READ COMMITTED: each SELECT sees what is committed when it starts,   *)
(* and the statements that write hold their row locks until the commit.    *)
(* One step of the model is therefore one SELECT, or the handler's writes  *)
(* together with its commit; the steps of requests that run concurrently   *)
(* interleave.  A device has at most one request under way, because the    *)
(* clients call the API synchronously.                                     *)
(*                                                                         *)
(* Ciphertexts are opaque to the server: a header stands for the columns   *)
(* encrypted_vault_key, vault_key_nonce and kdf_* of a vault, a value for  *)
(* ciphertext and nonce of a secret, and a name for name or name_hash,     *)
(* whichever of the two the metadata mode uses.                            *)
(***************************************************************************)
EXTENDS Naturals, Functions

CONSTANTS
  Users,        \* registered accounts
  Devices,      \* clients, each with one request under way at most
  VaultIds,     \* UUIDs of vaults
  SecretIds,    \* UUIDs of secrets
  Names,        \* names, or name hashes, of secrets
  NoHash,       \* a private secret stored without a name hash (NULL)
  Headers,      \* wrapped vault keys
  Values,       \* encrypted values
  Private,      \* vault id -> the metadata mode its creator asked for
  VaultOwner,   \* vault id -> the account it was generated for
  SecretHome,   \* secret id -> the vault its client generated it for
  Backups,      \* the backup payloads that clients hold
  None,         \* no row, no request
  MaxVersion,   \* bound on the record versions that are submitted
  MaxEvents     \* bound on the audit rows after which no request is sent

VARIABLES
  vault,   \* user -> its row of vaults (user_id is unique), or None
  secret,  \* secret id -> its row of secrets, or None
  audit,   \* <<event type, resource id>> -> number of rows of audit_events
  call,    \* device -> the request it has under way, or None
  answer   \* the answer that the last step sent, "none" if it sent none

vars == <<vault, secret, audit, call, answer>>

-----------------------------------------------------------------------------
(* Rows, payloads and requests.                                            *)

VaultRow == [id : VaultIds, header : Headers, private : BOOLEAN]

SecretRow == [vault : VaultIds, private : BOOLEAN, name : Names \cup {NoHash},
              value : Values, version : Nat \ {0}]

(* schemas/restore.py: RestoreSecret and RestoreRequest, without replace   *)
BackupItem == [private : BOOLEAN, name : Names \cup {NoHash},
               value : Values, version : Nat \ {0}]

Backup == [source : Users, id : VaultIds, header : Headers, private : BOOLEAN,
           secrets : [SecretIds -> BackupItem \cup {None}]]

(* The UUIDs that clients and server generate are random: no two accounts  *)
(* generate the same one, and a client generates a secret's UUID for the   *)
(* vault whose header it has read.  A backup is an export of one vault.    *)
ASSUME StoreAssumption ==
  /\ Private \in [VaultIds -> BOOLEAN]
  /\ VaultOwner \in [VaultIds -> Users]
  /\ SecretHome \in [SecretIds -> VaultIds]
  /\ NoHash \notin Names
  /\ MaxVersion \in Nat
  /\ MaxEvents \in Nat

ASSUME BackupAssumption ==
  \A b \in Backups :
    /\ b \in Backup
    /\ VaultOwner[b.id] = b.source
    /\ b.private = Private[b.id]
    /\ \A s \in SecretIds : b.secrets[s] # None => SecretHome[s] = b.id

SecretOwner(s) == VaultOwner[SecretHome[s]]

(* The schemas of app/schemas: what passes validation.  A request carries  *)
(* the account its bearer token stands for (dependencies.py).              *)
CreateVaultRequest == [op : {"create_vault"}, user : Users, id : VaultIds,
                       header : Headers]
RewrapRequest      == [op : {"update_vault_key"}, user : Users,
                       header : Headers]
CreateRequest      == [op : {"create_secret"}, user : Users, id : SecretIds,
                       private : BOOLEAN, name : Names \cup {NoHash},
                       value : Values]
UpdateRequest      == [op : {"update_secret"}, user : Users, id : SecretIds,
                       private : BOOLEAN, name : Names \cup {NoHash},
                       value : Values, version : 1 .. MaxVersion]
DeleteRequest      == [op : {"delete_secret"}, user : Users, id : SecretIds]
RestoreRequest     == [op : {"restore"}, user : Users, replace : BOOLEAN,
                       backup : Backups]

Request == CreateVaultRequest \cup RewrapRequest \cup CreateRequest
             \cup UpdateRequest \cup DeleteRequest \cup RestoreRequest

(* A request under way: the step it takes next, the vault id it has read   *)
(* (None if it read no vault), and whether a restore of the same account   *)
(* has committed since, so that its next statement may have waited for the *)
(* row locks of that restore.                                              *)
Call == [req : Request, step : {"read", "check", "write", "reread"},
         held : VaultIds \cup {None}, overtaken : BOOLEAN]

(* No row and no identifier is None.                                       *)
ASSUME NoneAssumption ==
  None \notin VaultRow \cup SecretRow \cup BackupItem \cup Call \cup VaultIds

AuditEvent ==
  ({"secret_created", "secret_updated", "secret_deleted"} \X SecretIds)
    \cup ({"master_key_rewrapped", "vault_restored"} \X VaultIds)

Codes == {"none", "200", "201", "204", "404", "403", "422",
          "409 vault_exists", "409 secret_name_exists", "409 version_conflict",
          "409 vault_not_empty", "409 restore_conflict", "500 stale_data",
          "500 assert_vault", "500 assert_updated", "500 refresh"}
-----------------------------------------------------------------------------
(* Queries and constraints of the database.                                *)

(* Mutant: the join with the vault of the caller is forgotten.             *)
FoundForAny(u, s) == secret[s] # None

(* repositories/secrets.py: the secret, if it is in the vault of user u.   *)
FoundForUser(u, s) ==
  secret[s] # None /\ vault[u] # None /\ vault[u].id = secret[s].vault

(* uq_secret_vault_name and uq_secret_vault_name_hash; NULLs never clash.  *)
NameTaken(s, v, private, name) ==
  /\ name # NoHash
  /\ \E t \in SecretIds \ {s} : /\ secret[t] # None
                                /\ secret[t].vault = v
                                /\ secret[t].private = private
                                /\ secret[t].name = name

(* The foreign key of secrets.vault_id.                                    *)
VaultExists(v) == \E u \in Users : vault[u] # None /\ vault[u].id = v

(* services/audit.py, in the transaction of the caller.                    *)
Audit(event) == audit' = [audit EXCEPT ![event] = @ + 1]
-----------------------------------------------------------------------------
(* Requests and answers.                                                   *)

Init ==
  /\ vault = [u \in Users |-> None]
  /\ secret = [s \in SecretIds |-> None]
  /\ audit = [e \in AuditEvent |-> 0]
  /\ call = [d \in Devices |-> None]
  /\ answer = "none"

Pending(d, op, step) ==
  call[d] # None /\ call[d].req.op = op /\ call[d].step = step

Answer(d, code) ==
  /\ call' = [call EXCEPT ![d] = None]
  /\ answer' = code

Refuse(d, code) == Answer(d, code) /\ UNCHANGED <<vault, secret, audit>>

Proceed(d, step, held) ==
  /\ call' = [call EXCEPT ![d] = [@ EXCEPT !.step = step, !.held = held]]
  /\ answer' = "none"
  /\ UNCHANGED <<vault, secret, audit>>

(* The writes of a handler that reads its row back after the commit.       *)
Committed(d) ==
  /\ call' = [call EXCEPT ![d] = [@ EXCEPT !.step = "reread"]]
  /\ answer' = "none"

(* db.refresh after the commit: it fails when the row is gone by then.     *)
Refreshed(d, found, code) == Refuse(d, IF found THEN code ELSE "500 refresh")

(* What a client sends.  A secret is named in the mode of the vault it was *)
(* made for, and only a private one may lack its hash; a new one gets a    *)
(* fresh random UUID.                                                      *)
NamedInMode(r) ==
  r.private = Private[SecretHome[r.id]] /\ (r.name = NoHash => r.private)

Fresh(s) ==
  /\ audit[<<"secret_created", s>>] = 0
  /\ \A e \in Devices : call[e] # None /\ call[e].req.op = "create_secret"
                           => call[e].req.id # s

Admissible(r) ==
  /\ r.op = "create_vault" => VaultOwner[r.id] = r.user
  /\ r.op \in {"create_secret", "update_secret"} => NamedInMode(r)
  /\ r.op = "create_secret" => SecretOwner(r.id) = r.user /\ Fresh(r.id)

Submit(d, r) ==
  /\ call[d] = None
  /\ Admissible(r)
  /\ call' = [call EXCEPT ![d] =
                [req |-> r,
                 step |-> IF r.op = "create_vault" THEN "write" ELSE "read",
                 held |-> None, overtaken |-> FALSE]]
  /\ answer' = "none"
  /\ UNCHANGED <<vault, secret, audit>>
-----------------------------------------------------------------------------
(* POST /vault: create_vault, an INSERT; the row is read back.             *)

CreateVault(d) ==
  /\ Pending(d, "create_vault", "write")
  /\ LET r == call[d].req IN
       /\ vault[r.user] = None /\ ~ VaultExists(r.id)
       /\ vault' = [vault EXCEPT ![r.user] =
                      [id |-> r.id, header |-> r.header,
                       private |-> Private[r.id]]]
  /\ Committed(d)
  /\ UNCHANGED <<secret, audit>>

CreateVaultRefresh(d) ==
  /\ Pending(d, "create_vault", "reread")
  /\ Refreshed(d, VaultExists(call[d].req.id), "201")

CreateVaultExists(d) ==
  /\ Pending(d, "create_vault", "write")
  /\ vault[call[d].req.user] # None \/ VaultExists(call[d].req.id)
  /\ Refuse(d, "409 vault_exists")
-----------------------------------------------------------------------------
(* PUT /vault/key: update_vault_key, a SELECT by user and an UPDATE of the *)
(* row it found by primary key.                                            *)

RewrapRead(d) ==
  /\ Pending(d, "update_vault_key", "read")
  /\ LET u == call[d].req.user IN
       IF vault[u] = None THEN Refuse(d, "404")
                          ELSE Proceed(d, "write", vault[u].id)

RewrapWrite(d) ==
  /\ Pending(d, "update_vault_key", "write")
  /\ LET r == call[d].req IN
       /\ vault[r.user] # None /\ vault[r.user].id = call[d].held
       /\ vault' = [vault EXCEPT ![r.user] = [@ EXCEPT !.header = r.header]]
  /\ Audit(<<"master_key_rewrapped", call[d].held>>)
  /\ Committed(d)
  /\ UNCHANGED secret

RewrapRefresh(d) ==
  /\ Pending(d, "update_vault_key", "reread")
  /\ Refreshed(d, VaultExists(call[d].held), "200")

(* The row is gone, or was deleted while the UPDATE waited for it: the    *)
(* session finds no row to update and the request fails.                   *)
RewrapStale(d) ==
  /\ Pending(d, "update_vault_key", "write")
  /\ LET u == call[d].req.user IN
       call[d].overtaken \/ (vault[u] # None => vault[u].id # call[d].held)
  /\ Refuse(d, "500 stale_data")
-----------------------------------------------------------------------------
(* POST /secrets: create_secret.                                           *)

CreateRead(d) ==
  /\ Pending(d, "create_secret", "read")
  /\ LET r == call[d].req IN
       CASE vault[r.user] = None -> Refuse(d, "404")
         [] vault[r.user] # None /\ vault[r.user].private # r.private ->
              Refuse(d, "422")
         [] OTHER -> Proceed(d, "write", vault[r.user].id)

(* Mutants: no unique constraint on names; no foreign key to the vault.    *)
InsertConflictUnnamed(r, v) == secret[r.id] # None \/ ~ VaultExists(v)
InsertConflictNoKey(r, v) ==
  secret[r.id] # None \/ NameTaken(r.id, v, r.private, r.name)

InsertConflict(r, v) ==
  secret[r.id] # None \/ ~ VaultExists(v) \/ NameTaken(r.id, v, r.private, r.name)

(* Mutant: record versions start from zero.                                *)
CreateWriteVersionZero(d) ==
  /\ Pending(d, "create_secret", "write")
  /\ LET r == call[d].req IN
       /\ ~ InsertConflict(r, call[d].held)
       /\ secret' = [secret EXCEPT ![r.id] =
                       [vault |-> call[d].held, private |-> r.private,
                        name |-> r.name, value |-> r.value, version |-> 0]]
       /\ Audit(<<"secret_created", r.id>>)
  /\ Committed(d)
  /\ UNCHANGED vault

CreateWrite(d) ==
  /\ Pending(d, "create_secret", "write")
  /\ LET r == call[d].req IN
       /\ ~ InsertConflict(r, call[d].held)
       /\ secret' = [secret EXCEPT ![r.id] =
                       [vault |-> call[d].held, private |-> r.private,
                        name |-> r.name, value |-> r.value, version |-> 1]]
       /\ Audit(<<"secret_created", r.id>>)
  /\ Committed(d)
  /\ UNCHANGED vault

CreateRefresh(d) ==
  /\ Pending(d, "create_secret", "reread")
  /\ Refreshed(d, secret[call[d].req.id] # None, "201")

(* Every IntegrityError is reported as a taken name, also the one of the   *)
(* foreign key: an INSERT that waited for the key lock of a vault that a   *)
(* restore replaces finds the old row deleted.                             *)
CreateConflict(d) ==
  /\ Pending(d, "create_secret", "write")
  /\ InsertConflict(call[d].req, call[d].held) \/ call[d].overtaken
  /\ Refuse(d, "409 secret_name_exists")
-----------------------------------------------------------------------------
(* PUT /secrets/{id}: update_secret reads the secret, then its vault,      *)
(* updates by id and record version, commits, and reads the secret again.  *)

UpdateReadSecret(d) ==
  /\ Pending(d, "update_secret", "read")
  /\ LET r == call[d].req IN
       IF FoundForUser(r.user, r.id) THEN Proceed(d, "check", None)
                                     ELSE Refuse(d, "404")

UpdateReadVault(d) ==
  /\ Pending(d, "update_secret", "check")
  /\ LET r == call[d].req IN
       CASE vault[r.user] = None -> Refuse(d, "500 assert_vault")
         [] vault[r.user] # None /\ vault[r.user].private # r.private ->
              Refuse(d, "422")
         [] OTHER -> Proceed(d, "write", vault[r.user].id)

VersionMatches(r) == secret[r.id] # None /\ secret[r.id].version = r.version

UpdateWrite(d) ==
  /\ Pending(d, "update_secret", "write")
  /\ LET r == call[d].req IN
       /\ VersionMatches(r)
       /\ ~ NameTaken(r.id, secret[r.id].vault, r.private, r.name)
       /\ secret' = [secret EXCEPT ![r.id] =
                       [vault |-> @.vault, private |-> r.private,
                        name |-> r.name, value |-> r.value,
                        version |-> @.version + 1]]
       /\ Audit(<<"secret_updated", r.id>>)
  /\ Committed(d)
  /\ UNCHANGED vault

(* No row has the id and the version; or the UPDATE waited for a row that  *)
(* a restore deleted.                                                      *)
UpdateConflict(d) ==
  /\ Pending(d, "update_secret", "write")
  /\ ~ VersionMatches(call[d].req) \/ call[d].overtaken
  /\ Refuse(d, "409 version_conflict")

UpdateNameExists(d) ==
  /\ Pending(d, "update_secret", "write")
  /\ LET r == call[d].req IN
       VersionMatches(r) /\ NameTaken(r.id, secret[r.id].vault, r.private, r.name)
  /\ Refuse(d, "409 secret_name_exists")

UpdateReread(d) ==
  /\ Pending(d, "update_secret", "reread")
  /\ IF FoundForUser(call[d].req.user, call[d].req.id)
       THEN Refuse(d, "200")
       ELSE Refuse(d, "500 assert_updated")
-----------------------------------------------------------------------------
(* DELETE /secrets/{id}: delete_secret, a SELECT and a DELETE by primary   *)
(* key; a DELETE that finds no row is a warning only.                      *)

DeleteRead(d) ==
  /\ Pending(d, "delete_secret", "read")
  /\ LET r == call[d].req IN
       IF FoundForUser(r.user, r.id) THEN Proceed(d, "write", None)
                                     ELSE Refuse(d, "404")

(* Mutant: a deletion leaves no audit event.                               *)
DeleteWriteUnaudited(d) ==
  /\ Pending(d, "delete_secret", "write")
  /\ secret' = [secret EXCEPT ![call[d].req.id] = None]
  /\ Answer(d, "204")
  /\ UNCHANGED <<vault, audit>>

DeleteWrite(d) ==
  /\ Pending(d, "delete_secret", "write")
  /\ secret' = [secret EXCEPT ![call[d].req.id] = None]
  /\ Audit(<<"secret_deleted", call[d].req.id>>)
  /\ Answer(d, "204")
  /\ UNCHANGED vault

(* The DELETE waited for a row that a restore deleted and inserted again.  *)
DeleteMissed(d) ==
  /\ Pending(d, "delete_secret", "write")
  /\ call[d].overtaken
  /\ Audit(<<"secret_deleted", call[d].req.id>>)
  /\ Answer(d, "204")
  /\ UNCHANGED <<vault, secret>>
-----------------------------------------------------------------------------
(* POST /restore: restore_backup reads the vault, then deletes it with its *)
(* secrets and inserts those of the backup, in one transaction.            *)

(* Mutant: the old vault is deleted in a transaction of its own.           *)
RestoreReadDeletes(d) ==
  /\ Pending(d, "restore", "read")
  /\ LET r == call[d].req IN
       /\ r.backup.source = r.user
       /\ vault[r.user] # None => r.replace
       /\ vault' = [vault EXCEPT ![r.user] = None]
       /\ secret' = [s \in SecretIds |->
                       IF FoundForUser(r.user, s) THEN None ELSE secret[s]]
  /\ call' = [call EXCEPT ![d] = [@ EXCEPT !.step = "write", !.held = None]]
  /\ answer' = "none"
  /\ UNCHANGED audit

RestoreRead(d) ==
  /\ Pending(d, "restore", "read")
  /\ LET r == call[d].req IN
       CASE r.backup.source # r.user -> Refuse(d, "403")
         [] r.backup.source = r.user /\ vault[r.user] # None /\ ~ r.replace ->
              Refuse(d, "409 vault_not_empty")
         [] OTHER -> Proceed(d, "write",
                       IF vault[r.user] = None THEN None ELSE vault[r.user].id)

MixedModes(b) ==
  \E s \in SecretIds : b.secrets[s] # None /\ b.secrets[s].private # b.private

(* The secrets that survive the deletion of vault v, and those of backup b *)
Survives(s, v) == secret[s] # None /\ secret[s].vault # v

RestoreConflicts(u, b, v) ==
  \/ IF v = None THEN vault[u] # None ELSE vault[u] # None /\ vault[u].id # v
  \/ \E o \in Users \ {u} : vault[o] # None /\ vault[o].id = b.id
  \/ \E s \in SecretIds : b.secrets[s] # None /\ Survives(s, v)
  \/ \E s, t \in SecretIds :
       /\ s # t /\ b.secrets[s] # None /\ b.secrets[t] # None
       /\ b.secrets[s].name # NoHash
       /\ b.secrets[s].name = b.secrets[t].name
       /\ b.secrets[s].private = b.secrets[t].private

Restored(b, v) ==
  [s \in SecretIds |->
     IF b.secrets[s] # None
       THEN [vault |-> b.id, private |-> b.secrets[s].private,
             name |-> b.secrets[s].name, value |-> b.secrets[s].value,
             version |-> b.secrets[s].version]
       ELSE IF Survives(s, v) THEN secret[s] ELSE None]

Overtake(d, u) ==
  [e \in Devices |->
     IF e = d THEN None
     ELSE IF call[e] # None /\ call[e].req.user = u /\ call[e].step = "write"
            THEN [call[e] EXCEPT !.overtaken = TRUE]
            ELSE call[e]]

RestoreWrite(d) ==
  /\ Pending(d, "restore", "write")
  /\ LET u == call[d].req.user
         b == call[d].req.backup
         v == call[d].held
     IN  /\ ~ MixedModes(b) /\ ~ RestoreConflicts(u, b, v)
         /\ vault' = [vault EXCEPT ![u] = [id |-> b.id, header |-> b.header,
                                           private |-> b.private]]
         /\ secret' = Restored(b, v)
         /\ Audit(<<"vault_restored", b.id>>)
         /\ call' = Overtake(d, u)
  /\ answer' = "201"

(* An IntegrityError rolls everything back, as does a restore that waited  *)
(* for the rows of another restore and then finds the account's new vault. *)
RestoreConflict(d) ==
  /\ Pending(d, "restore", "write")
  /\ \/ RestoreConflicts(call[d].req.user, call[d].req.backup, call[d].held)
     \/ call[d].overtaken
  /\ Refuse(d, "409 restore_conflict")

RestoreMixed(d) ==
  /\ Pending(d, "restore", "write")
  /\ MixedModes(call[d].req.backup)
  /\ Refuse(d, "422")
-----------------------------------------------------------------------------
Handle(d) ==
  \/ CreateVault(d) \/ CreateVaultRefresh(d) \/ CreateVaultExists(d)
  \/ RewrapRead(d) \/ RewrapWrite(d) \/ RewrapRefresh(d) \/ RewrapStale(d)
  \/ CreateRead(d) \/ CreateWrite(d) \/ CreateRefresh(d) \/ CreateConflict(d)
  \/ UpdateReadSecret(d) \/ UpdateReadVault(d) \/ UpdateWrite(d)
  \/ UpdateConflict(d) \/ UpdateNameExists(d) \/ UpdateReread(d)
  \/ DeleteRead(d) \/ DeleteWrite(d) \/ DeleteMissed(d)
  \/ RestoreRead(d) \/ RestoreWrite(d) \/ RestoreConflict(d) \/ RestoreMixed(d)

Next ==
  \/ /\ SumFunction(audit) < MaxEvents
     /\ \E d \in Devices, r \in Request : Submit(d, r)
  \/ \E d \in Devices : Handle(d)

Spec == Init /\ [][Next]_vars
-----------------------------------------------------------------------------
(* Properties.                                                             *)

(* The tables hold rows of their schema, and requests under way and their  *)
(* answers are those of the handlers above.                                *)
TypeOK ==
  /\ vault \in [Users -> VaultRow \cup {None}]
  /\ secret \in [SecretIds -> SecretRow \cup {None}]
  /\ audit \in [AuditEvent -> Nat]
  /\ call \in [Devices -> Call \cup {None}]
  /\ answer \in Codes

(* Every stored secret hangs from the vault of the account that generated  *)
(* it and has that vault's metadata mode, although create_secret and       *)
(* update_secret compare the mode with a vault they read before they write *)
(* and a restore may replace that vault in between (docs/API.md: "must     *)
(* match the vault's fixed metadata mode").                                *)
ModeMatches ==
  \A s \in SecretIds : secret[s] # None =>
    LET u == SecretOwner(s) IN
      /\ vault[u] # None /\ vault[u].id = secret[s].vault
      /\ vault[u].private = secret[s].private

(* No two secrets of a vault share a name or a name hash, whichever of     *)
(* create, rename and restore put them there.                              *)
NamesUnique ==
  \A s, t \in SecretIds :
    /\ s # t /\ secret[s] # None /\ secret[t] # None
    /\ secret[s].vault = secret[t].vault
    /\ secret[s].private = secret[t].private
    /\ secret[s].name # NoHash
    => secret[s].name # secret[t].name

(* "assert vault is not None" in update_secret (api/secrets.py:62) never   *)
(* fails: no interleaving shows a request the account's secret and then no *)
(* vault, because a restore replaces the vault in one transaction.         *)
VaultNeverMissing == answer # "500 assert_vault"

(* "assert updated is not None" in update_secret (api/secrets.py:82): the  *)
(* secret just updated is still there when it is read back.                *)
UpdatedNeverMissing == answer # "500 assert_updated"

(* As long as no restore has touched its account, the audit trail accounts *)
(* for each secret: it was created once, its record version counts its     *)
(* updates, and it does not go missing without a deletion on record.       *)
AuditTrail ==
  \A s \in SecretIds :
    (\A v \in VaultIds : VaultOwner[v] = SecretOwner(s) =>
                            audit[<<"vault_restored", v>>] = 0)
    => /\ secret[s] # None =>
             /\ audit[<<"secret_created", s>>] = 1
             /\ secret[s].version = 1 + audit[<<"secret_updated", s>>]
       /\ (secret[s] = None /\ audit[<<"secret_created", s>>] > 0) =>
             audit[<<"secret_deleted", s>>] > 0

(* A request changes the vault and the secrets of the account that sent it *)
(* and of no other, although the UPDATE and the DELETE of a secret select  *)
(* it by id alone, some time after its ownership was checked.              *)
StaysInAccount ==
  \A u \in Users :
    \/ vault'[u] # vault[u]
    \/ \E s \in SecretIds : SecretOwner(s) = u /\ secret'[s] # secret[s]
    => \E d \in Devices : /\ call[d] # None /\ call[d].req.user = u
                           /\ call'[d] # call[d]
Isolation == [][StaysInAccount]_vars

(* A vault belongs to the account it was generated for, in its mode.       *)
VaultsOwned ==
  \A u \in Users : vault[u] # None =>
    VaultOwner[vault[u].id] = u /\ vault[u].private = Private[vault[u].id]

(* A secret is named in the mode of the vault it was made for.             *)
SecretsInMode ==
  \A s \in SecretIds :
    secret[s] # None => secret[s].private = Private[SecretHome[s]]

(* What a handler has read and still relies on.  The mode and the owner of *)
(* a vault id never change, so they may be remembered; that the account    *)
(* has a vault may be, because it keeps one.                               *)
CallSound(c) ==
  LET r == c.req IN
    /\ r.op = "create_vault" => VaultOwner[r.id] = r.user
    /\ r.op \in {"create_secret", "update_secret"} =>
         r.private = Private[SecretHome[r.id]]
    /\ r.op = "create_secret" => SecretOwner(r.id) = r.user
    /\ r.op \in {"update_secret", "delete_secret"} /\ c.step # "read" =>
         SecretOwner(r.id) = r.user
    /\ r.op = "update_secret" /\ c.step = "check" => vault[r.user] # None
    /\ r.op = "create_secret" /\ c.step = "write" =>
         /\ c.held \in VaultIds /\ VaultOwner[c.held] = r.user
         /\ Private[c.held] = r.private
    /\ r.op = "update_vault_key" /\ c.step # "read" => c.held \in VaultIds
    /\ r.op = "restore" /\ c.step # "read" =>
         /\ r.backup.source = r.user
         /\ c.held # None => VaultOwner[c.held] = r.user

CallsSound == \A d \in Devices : call[d] # None => CallSound(call[d])

(* The inductive invariant behind the properties below.                    *)
StoreInv ==
  /\ TypeOK /\ VaultsOwned /\ SecretsInMode /\ ModeMatches /\ CallsSound
  /\ VaultNeverMissing

(* A backup payload, in the terms of the abstract specification.           *)
AsBackup(b) ==
  [user |-> b.source,
   vault |-> [id |-> b.id, header |-> b.header, private |-> b.private],
   records |-> [s \in SecretIds |->
     IF b.secrets[s] = None THEN None
     ELSE [vault |-> b.id, private |-> b.secrets[s].private,
           name |-> b.secrets[s].name, value |-> b.secrets[s].value,
           version |-> b.secrets[s].version]]]

(* However requests interleave, the tables change only as the abstract     *)
(* specification says: each handler takes effect at once, at its commit,   *)
(* what it checked when it read still holds then, and a restore leaves the *)
(* whole content of its backup and nothing of what it replaces.            *)
Atomic == INSTANCE AtomicVaults WITH backups <- {AsBackup(b) : b \in Backups}
TakesEffectAtOnce == Atomic!Spec
=============================================================================
