-------------------------- MODULE AtomicVaults_proofs --------------------------
(***************************************************************************)
(* What the handlers of VaultStore do to the tables, for every set of      *)
(* accounts, devices, ids and backups: names stay unique, requests stay in *)
(* their account, the audit trail accounts for each secret, and each       *)
(* change is one that AtomicVaults allows.                                 *)
(*                                                                         *)
(* StoreInv (VaultStore_proofs) says what a handler may still rely on when *)
(* it writes.  From it follows, once, what each step does (StepEffects);   *)
(* the theorems only look at that.                                         *)
(***************************************************************************)
EXTENDS VaultStore_proofs

(* The effects a step can have on the tables, for account u.               *)
KeepsOthers(u) == \A o \in Users \ {u} : vault'[o] = vault[o]
KeepsRest(s) == \A t \in SecretIds \ {s} : secret'[t] = secret[t]

Opens(u) ==
  /\ vault[u] = None /\ vault'[u] # None /\ KeepsOthers(u)
  /\ \A o \in Users : vault[o] # None => vault[o].id # vault'[u].id
  /\ UNCHANGED <<secret, audit>>

Rewraps(u) ==
  /\ vault[u] # None /\ vault'[u] # None /\ KeepsOthers(u)
  /\ vault'[u].id = vault[u].id /\ vault'[u].private = vault[u].private
  /\ UNCHANGED secret
  /\ Audit(<<"master_key_rewrapped", vault[u].id>>)

Adds(u, s) ==
  /\ SecretOwner(s) = u /\ vault[u] # None
  /\ secret[s] = None /\ secret'[s] # None
  /\ secret'[s].vault = vault[u].id /\ secret'[s].version = 1
  /\ ~ NameTaken(s, vault[u].id, secret'[s].private, secret'[s].name)
  /\ KeepsRest(s) /\ UNCHANGED vault
  /\ Audit(<<"secret_created", s>>)

Updates(u, s) ==
  /\ SecretOwner(s) = u
  /\ secret[s] # None /\ secret'[s] # None
  /\ secret'[s].vault = secret[s].vault
  /\ secret'[s].version = secret[s].version + 1
  /\ ~ NameTaken(s, secret[s].vault, secret'[s].private, secret'[s].name)
  /\ KeepsRest(s) /\ UNCHANGED vault
  /\ Audit(<<"secret_updated", s>>)

(* The DELETE may find no row, or wait for one that a restore replaces.    *)
Deletes(u, s) ==
  /\ SecretOwner(s) = u
  /\ secret'[s] = None \/ secret'[s] = secret[s]
  /\ KeepsRest(s) /\ UNCHANGED vault
  /\ Audit(<<"secret_deleted", s>>)

Replaces(u, b) ==
  /\ b.source = u /\ VaultOwner[b.id] = u
  /\ vault'[u] = [id |-> b.id, header |-> b.header, private |-> b.private]
  /\ vault'[u] # None /\ KeepsOthers(u)
  /\ \A s \in SecretIds : b.secrets[s] # None =>
       /\ SecretOwner(s) = u
       /\ secret'[s] = [vault |-> b.id, private |-> b.secrets[s].private,
                        name |-> b.secrets[s].name, value |-> b.secrets[s].value,
                        version |-> b.secrets[s].version]
  /\ \A s \in SecretIds : b.secrets[s] = None =>
       secret'[s] = IF SecretOwner(s) = u THEN None ELSE secret[s]
  /\ \A s, t \in SecretIds :
       /\ s # t /\ b.secrets[s] # None /\ b.secrets[t] # None
       /\ b.secrets[s].name # NoHash
       /\ b.secrets[s].private = b.secrets[t].private
       => b.secrets[s].name # b.secrets[t].name
  /\ Audit(<<"vault_restored", b.id>>)

(* The effect of a step that device d takes.                               *)
Effect(d) ==
  LET r == call[d].req
      u == call[d].req.user
  IN  /\ call[d] # None /\ u \in Users /\ call'[d] # call[d]
      /\ \/ UNCHANGED <<vault, secret, audit>>
         \/ Opens(u) \/ Rewraps(u)
         \/ /\ r.op = "create_secret" /\ call[d].step = "write" /\ r.id \in SecretIds
            /\ Adds(u, r.id)
         \/ \E s \in SecretIds : Updates(u, s) \/ Deletes(u, s)
         \/ \E b \in Backups : Replaces(u, b)

(* A step that answers, or goes on to another step, changes its call.      *)
LEMMA CallChanges ==
  ASSUME TypeOK, NEW d \in Devices, call[d] # None,
         \/ \E code : Answer(d, code)
         \/ Committed(d) /\ call[d].step = "write"
         \/ \E step, held : Proceed(d, step, held) /\ step # call[d].step
  PROVE  call'[d] # call[d]
<1>1. call \in [Devices -> Call \cup {None}] /\ call[d] \in Call
  BY DEF TypeOK
<1>2. CASE \E code : Answer(d, code)
  BY <1>1, <1>2 DEF Answer
<1>3. CASE Committed(d) /\ call[d].step = "write"
  <2>1. call'[d].step = "reread"
    BY <1>1, <1>3 DEF Committed, Call
  <2> QED
    BY <1>3, <2>1
<1>4. CASE \E step, held : Proceed(d, step, held) /\ step # call[d].step
  <2>1. PICK step, held : Proceed(d, step, held) /\ step # call[d].step
    BY <1>4
  <2>2. call'[d].step = step
    BY <1>1, <2>1 DEF Proceed, Call
  <2> QED
    BY <2>1, <2>2
<1> QED
  BY <1>2, <1>3, <1>4

(* A secret is its account's; a vault id is that of its account's vault.   *)
LEMMA OwnerHasVault ==
  ASSUME StoreInv, NEW s \in SecretIds, secret[s] # None
  PROVE  /\ SecretOwner(s) \in Users /\ vault[SecretOwner(s)] # None
         /\ secret[s].vault = vault[SecretOwner(s)].id
         /\ secret[s].vault \in VaultIds
         /\ VaultOwner[secret[s].vault] = SecretOwner(s)
<1>1. SecretOwner(s) \in Users
  BY StoreAssumption DEF SecretOwner
<1>2. vault[SecretOwner(s)] # None /\ secret[s].vault = vault[SecretOwner(s)].id
  BY DEF StoreInv, ModeMatches
<1>3. secret[s].vault \in VaultIds
  BY DEF StoreInv, TypeOK, SecretRow
<1>4. VaultOwner[secret[s].vault] = SecretOwner(s)
  BY <1>1, <1>2 DEF StoreInv, VaultsOwned
<1> QED
  BY <1>1, <1>2, <1>3, <1>4

(* Handlers that write nothing.                                            *)
LEMMA QuietEffect ==
  ASSUME StoreInv, NEW d \in Devices,
         \/ CreateVaultRefresh(d) \/ CreateVaultExists(d)
         \/ RewrapRead(d) \/ RewrapRefresh(d) \/ RewrapStale(d)
         \/ CreateRead(d) \/ CreateRefresh(d) \/ CreateConflict(d)
         \/ UpdateReadSecret(d) \/ UpdateReadVault(d)
         \/ UpdateConflict(d) \/ UpdateNameExists(d) \/ UpdateReread(d)
         \/ DeleteRead(d) \/ RestoreRead(d) \/ RestoreConflict(d) \/ RestoreMixed(d)
  PROVE  Effect(d)
<1>1. TypeOK /\ call[d] # None
  BY DEF StoreInv, CreateVaultRefresh, CreateVaultExists, RewrapRead, RewrapRefresh,
     RewrapStale, CreateRead, CreateRefresh, CreateConflict, UpdateReadSecret,
     UpdateReadVault, UpdateConflict, UpdateNameExists, UpdateReread, DeleteRead,
     RestoreRead, RestoreConflict, RestoreMixed, Pending
<1>2. \/ \E code : Refuse(d, code)
      \/ \E step, held : Proceed(d, step, held) /\ step # call[d].step
  <2>1. CASE RewrapRead(d) \/ DeleteRead(d) \/ RestoreRead(d) \/ CreateRead(d)
    <3>1. call[d].step = "read"
      BY <2>1 DEF RewrapRead, DeleteRead, RestoreRead, CreateRead, Pending
    <3>2. \/ \E code : Refuse(d, code)
          \/ \E held : Proceed(d, "write", held)
      BY <2>1 DEF RewrapRead, DeleteRead, RestoreRead, CreateRead
    <3> QED
      BY <3>1, <3>2
  <2>2. CASE UpdateReadSecret(d) \/ UpdateReadVault(d)
    <3>1. CASE UpdateReadSecret(d)
      <4>1. call[d].step = "read" /\ (Proceed(d, "check", None) \/ Refuse(d, "404"))
        BY <3>1 DEF UpdateReadSecret, Pending
      <4> QED
        BY <4>1
    <3>2. CASE UpdateReadVault(d)
      <4>1. /\ call[d].step = "check"
            /\ \/ \E code : Refuse(d, code)
               \/ \E held : Proceed(d, "write", held)
        BY <3>2 DEF UpdateReadVault, Pending
      <4> QED
        BY <4>1
    <3> QED
      BY <2>2, <3>1, <3>2
  <2>3. CASE \/ CreateVaultRefresh(d) \/ CreateVaultExists(d)
             \/ RewrapRefresh(d) \/ RewrapStale(d) \/ CreateRefresh(d) \/ CreateConflict(d)
             \/ UpdateConflict(d) \/ UpdateNameExists(d) \/ UpdateReread(d)
             \/ RestoreConflict(d) \/ RestoreMixed(d)
    BY <2>3 DEF CreateVaultRefresh, CreateVaultExists, RewrapRefresh, RewrapStale,
       CreateRefresh, CreateConflict, UpdateConflict, UpdateNameExists, UpdateReread,
       RestoreConflict, RestoreMixed, Refreshed
  <2> QED
    BY <2>1, <2>2, <2>3
<1>3. UNCHANGED <<vault, secret, audit>>
  BY <1>2 DEF Refuse, Proceed
<1>4. call'[d] # call[d]
  BY <1>1, <1>2, CallChanges DEF Refuse
<1> QED
  BY <1>1, <1>3, <1>4, PendingFields DEF Effect

LEMMA VaultEffect ==
  ASSUME StoreInv, NEW d \in Devices, CreateVault(d) \/ RewrapWrite(d)
  PROVE  Effect(d)
<1> DEFINE r == call[d].req
<1>1. TypeOK /\ call[d] # None /\ call[d].step = "write" /\ Committed(d)
  BY DEF StoreInv, CreateVault, RewrapWrite, Pending
<1>2. r.user \in Users /\ call'[d] # call[d]
  BY <1>1, PendingFields, CallChanges
<1>3. CASE CreateVault(d)
  <2>1. r \in CreateVaultRequest
    BY <1>1, <1>3, PendingFields, RequestFields DEF CreateVault, Pending
  <2>2. [id |-> r.id, header |-> r.header, private |-> Private[r.id]] \in VaultRow
    BY <2>1, StoreAssumption DEF CreateVaultRequest, VaultRow
  <2>3. /\ vault[r.user] = None /\ KeepsOthers(r.user) /\ UNCHANGED <<secret, audit>>
        /\ vault'[r.user] \in VaultRow /\ vault'[r.user].id = r.id
    BY <1>1, <1>2, <1>3, <2>2 DEF CreateVault, TypeOK, KeepsOthers
  <2>4. \A o \in Users : vault[o] # None => vault[o].id # r.id
    BY <1>3 DEF CreateVault, VaultExists
  <2>5. Opens(r.user)
    BY <2>3, <2>4, NotNone DEF Opens
  <2> QED
    BY <1>1, <1>2, <2>5 DEF Effect
<1>4. CASE RewrapWrite(d)
  <2>1. r \in RewrapRequest
    BY <1>1, <1>4, PendingFields, RequestFields DEF RewrapWrite, Pending
  <2>2. vault[r.user] \in VaultRow /\ vault[r.user] # None
    BY <1>1, <1>2, <1>4 DEF RewrapWrite, TypeOK
  <2>3. /\ vault' = [vault EXCEPT ![r.user] = [@ EXCEPT !.header = r.header]]
        /\ vault[r.user].id = call[d].held /\ UNCHANGED secret
        /\ Audit(<<"master_key_rewrapped", call[d].held>>)
    BY <1>4 DEF RewrapWrite
  <2>4. vault'[r.user] = [vault[r.user] EXCEPT !.header = r.header] /\ KeepsOthers(r.user)
    BY <1>1, <1>2, <2>3 DEF TypeOK, KeepsOthers
  <2>5. /\ vault'[r.user] \in VaultRow /\ vault'[r.user].id = vault[r.user].id
        /\ vault'[r.user].private = vault[r.user].private
    BY <2>1, <2>2, <2>4 DEF VaultRow, RewrapRequest
  <2>6. Rewraps(r.user)
    BY <2>2, <2>3, <2>4, <2>5, NotNone DEF Rewraps
  <2> QED
    BY <1>1, <1>2, <2>6 DEF Effect
<1> QED
  BY <1>3, <1>4

LEMMA SecretEffect ==
  ASSUME StoreInv, NEW d \in Devices,
         CreateWrite(d) \/ UpdateWrite(d) \/ DeleteWrite(d) \/ DeleteMissed(d)
  PROVE  Effect(d)
<1> DEFINE r == call[d].req
           s == call[d].req.id
           u == call[d].req.user
<1>1. /\ TypeOK /\ call[d] # None /\ call[d].step = "write" /\ CallSound(call[d])
      /\ secret \in [SecretIds -> SecretRow \cup {None}]
  BY DEF StoreInv, TypeOK, CallsSound, CreateWrite, UpdateWrite, DeleteWrite,
     DeleteMissed, Pending
<1>2. u \in Users /\ r \in Request
  BY <1>1, PendingFields
<1>3. call'[d] # call[d]
  BY <1>1, CallChanges DEF CreateWrite, UpdateWrite, DeleteWrite, DeleteMissed
<1>4. CASE CreateWrite(d)
  <2>1. r.op = "create_secret" /\ r \in CreateRequest
    BY <1>2, <1>4, RequestFields DEF CreateWrite, Pending
  <2>2. s \in SecretIds /\ SecretOwner(s) = u /\ call[d].held \in VaultIds
        /\ VaultOwner[call[d].held] = u
    BY <1>1, <2>1 DEF CallSound, CreateRequest
  <2>3. /\ ~ InsertConflict(r, call[d].held) /\ UNCHANGED vault
        /\ secret' = [secret EXCEPT ![s] =
                        [vault |-> call[d].held, private |-> r.private,
                         name |-> r.name, value |-> r.value, version |-> 1]]
        /\ Audit(<<"secret_created", s>>)
    BY <1>4 DEF CreateWrite
  <2>4. vault[u] # None /\ vault[u].id = call[d].held
    <3>1. PICK o \in Users : vault[o] # None /\ vault[o].id = call[d].held
      BY <2>3 DEF InsertConflict, VaultExists
    <3> QED
      BY <2>2, <3>1 DEF StoreInv, VaultsOwned
  <2>5. /\ secret'[s] = [vault |-> call[d].held, private |-> r.private,
                         name |-> r.name, value |-> r.value, version |-> 1]
        /\ KeepsRest(s)
    BY <1>1, <2>2, <2>3 DEF KeepsRest
  <2>6. secret'[s] \in SecretRow
    BY <2>1, <2>2, <2>5 DEF SecretRow, CreateRequest
  <2>7. Adds(u, s)
    BY <2>2, <2>3, <2>4, <2>5, <2>6, NotNone DEF Adds, InsertConflict
  <2> QED
    BY <1>1, <1>2, <1>3, <2>1, <2>2, <2>7 DEF Effect
<1>5. CASE UpdateWrite(d)
  <2>1. r.op = "update_secret" /\ r \in UpdateRequest
    BY <1>2, <1>5, RequestFields DEF UpdateWrite, Pending
  <2>2. s \in SecretIds /\ SecretOwner(s) = u
    BY <1>1, <2>1 DEF CallSound, UpdateRequest
  <2>3. /\ secret[s] # None /\ ~ NameTaken(s, secret[s].vault, r.private, r.name)
        /\ secret' = [secret EXCEPT ![s] =
                        [vault |-> @.vault, private |-> r.private, name |-> r.name,
                         value |-> r.value, version |-> @.version + 1]]
        /\ Audit(<<"secret_updated", s>>) /\ UNCHANGED vault
    BY <1>5 DEF UpdateWrite, VersionMatches
  <2>4. /\ secret'[s] = [vault |-> secret[s].vault, private |-> r.private,
                         name |-> r.name, value |-> r.value,
                         version |-> secret[s].version + 1]
        /\ KeepsRest(s)
    BY <1>1, <2>2, <2>3 DEF KeepsRest
  <2>5. secret'[s] \in SecretRow
    <3>1. secret[s].vault \in VaultIds /\ secret[s].version + 1 \in Nat \ {0}
      BY <1>1, <2>2, <2>3 DEF SecretRow
    <3> QED
      BY <2>1, <2>4, <3>1 DEF SecretRow, UpdateRequest
  <2>6. Updates(u, s)
    BY <2>2, <2>3, <2>4, <2>5, NotNone DEF Updates
  <2> QED
    BY <1>1, <1>2, <1>3, <2>2, <2>6 DEF Effect
<1>6. CASE DeleteWrite(d) \/ DeleteMissed(d)
  <2>1. r.op = "delete_secret" /\ r \in DeleteRequest
    BY <1>2, <1>6, RequestFields DEF DeleteWrite, DeleteMissed, Pending
  <2>2. s \in SecretIds /\ SecretOwner(s) = u
    BY <1>1, <2>1 DEF CallSound, DeleteRequest
  <2>3. /\ secret' = [secret EXCEPT ![s] = None] \/ UNCHANGED secret
        /\ UNCHANGED vault /\ Audit(<<"secret_deleted", s>>)
    BY <1>6 DEF DeleteWrite, DeleteMissed
  <2>4. KeepsRest(s) /\ (secret'[s] = None \/ secret'[s] = secret[s])
    BY <1>1, <2>2, <2>3 DEF KeepsRest
  <2>5. Deletes(u, s)
    BY <2>2, <2>3, <2>4 DEF Deletes
  <2> QED
    BY <1>1, <1>2, <1>3, <2>2, <2>5 DEF Effect
<1> QED
  BY <1>4, <1>5, <1>6

LEMMA RestoreEffect ==
  ASSUME StoreInv, NEW d \in Devices, RestoreWrite(d)
  PROVE  Effect(d)
<1> DEFINE u == call[d].req.user
           b == call[d].req.backup
           v == call[d].held
<1>1. /\ TypeOK /\ call[d] # None /\ call[d].req.op = "restore"
      /\ call[d].step = "write" /\ CallSound(call[d])
  BY DEF StoreInv, CallsSound, RestoreWrite, Pending
<1>2. call[d].req \in RestoreRequest /\ u \in Users
  BY <1>1, PendingFields, RequestFields
<1>3. /\ b \in Backups /\ b \in Backup /\ VaultOwner[b.id] = b.source
      /\ \A s \in SecretIds : b.secrets[s] # None => SecretHome[s] = b.id
  BY <1>2, BackupAssumption DEF RestoreRequest
<1>4. b.source = u /\ (v # None => VaultOwner[v] = u)
  BY <1>1 DEF CallSound
<1>5. /\ vault' = [vault EXCEPT ![u] = [id |-> b.id, header |-> b.header,
                                        private |-> b.private]]
      /\ secret' = Restored(b, v) /\ call' = Overtake(d, u)
      /\ ~ RestoreConflicts(u, b, v) /\ Audit(<<"vault_restored", b.id>>)
  BY DEF RestoreWrite
<1>6. /\ vault'[u] = [id |-> b.id, header |-> b.header, private |-> b.private]
      /\ KeepsOthers(u)
  BY <1>1, <1>2, <1>5 DEF TypeOK, KeepsOthers
<1>7. vault'[u] # None
  <2>1. vault'[u] \in VaultRow
    BY <1>3, <1>6 DEF Backup, VaultRow
  <2> QED
    BY <2>1, NotNone
<1>8. ASSUME NEW s \in SecretIds, b.secrets[s] # None
      PROVE  /\ SecretOwner(s) = u
             /\ secret'[s] = [vault |-> b.id, private |-> b.secrets[s].private,
                              name |-> b.secrets[s].name, value |-> b.secrets[s].value,
                              version |-> b.secrets[s].version]
  BY <1>3, <1>4, <1>5, <1>8 DEF Restored, SecretOwner
(* The vault that was read is the one the account still has.               *)
<1>9. ASSUME NEW s \in SecretIds, b.secrets[s] = None
      PROVE  secret'[s] = IF SecretOwner(s) = u THEN None ELSE secret[s]
  <2>1. secret'[s] = IF secret[s] # None /\ secret[s].vault # v THEN secret[s] ELSE None
    BY <1>5, <1>9 DEF Restored, Survives
  <2>2. CASE secret[s] = None
    BY <2>1, <2>2
  <2>3. CASE secret[s] # None /\ SecretOwner(s) = u
    <3>1. vault[u] # None /\ secret[s].vault = vault[u].id
      BY <2>3, OwnerHasVault
    <3>2. vault[u].id = v
      BY <1>5, <3>1 DEF RestoreConflicts
    <3> QED
      BY <2>1, <2>3, <3>1, <3>2
  <2>4. CASE secret[s] # None /\ SecretOwner(s) # u
    <3>1. secret[s].vault \in VaultIds /\ VaultOwner[secret[s].vault] # u
      BY <2>4, OwnerHasVault
    <3>2. secret[s].vault # v
      BY <1>4, <3>1, NotNone
    <3> QED
      BY <2>1, <2>4, <3>2
  <2> QED
    BY <2>2, <2>3, <2>4
<1>10. ASSUME NEW s \in SecretIds, NEW t \in SecretIds, s # t,
              b.secrets[s] # None, b.secrets[t] # None, b.secrets[s].name # NoHash,
              b.secrets[s].private = b.secrets[t].private
       PROVE  b.secrets[s].name # b.secrets[t].name
  BY <1>5, <1>10 DEF RestoreConflicts
<1>11. Replaces(u, b)
  BY <1>3, <1>4, <1>5, <1>6, <1>7, <1>8, <1>9, <1>10 DEF Replaces
<1>12. call'[d] # call[d]
  BY <1>1, <1>5 DEF Overtake
<1> QED
  BY <1>1, <1>2, <1>3, <1>11, <1>12 DEF Effect

LEMMA HandleEffect ==
  ASSUME StoreInv, NEW d \in Devices, Handle(d)
  PROVE  Effect(d)
BY QuietEffect, VaultEffect, SecretEffect, RestoreEffect DEF Handle

(* What a step does, then: nothing to the tables, or one of the effects.   *)
LEMMA StepEffects ==
  ASSUME StoreInv, [Next]_vars
  PROVE  \/ UNCHANGED <<vault, secret, audit>>
         \/ \E d \in Devices : Effect(d)
<1>1. CASE UNCHANGED vars
  BY <1>1 DEF vars
<1>2. ASSUME NEW d \in Devices, NEW r \in Request, Submit(d, r)
      PROVE  UNCHANGED <<vault, secret, audit>>
  BY <1>2 DEF Submit
<1> QED
  BY <1>1, <1>2, HandleEffect DEF Next

-----------------------------------------------------------------------------
(* Names.                                                                  *)

LEMMA OwnersNext ==
  ASSUME StoreInv', NEW s \in SecretIds, secret'[s] # None
  PROVE  VaultOwner[secret'[s].vault] = SecretOwner(s)
<1>1. SecretOwner(s) \in Users
  BY StoreAssumption DEF SecretOwner
<1>2. vault'[SecretOwner(s)] # None /\ vault'[SecretOwner(s)].id = secret'[s].vault
  BY DEF StoreInv, ModeMatches, SecretOwner
<1> QED
  BY <1>1, <1>2 DEF StoreInv, VaultsOwned

(* A row after a restore of backup b for account u.                        *)
LEMMA ReplacedRow ==
  ASSUME NEW u, NEW b, Replaces(u, b), NEW s \in SecretIds, secret'[s] # None
  PROVE  /\ SecretOwner(s) # u => b.secrets[s] = None /\ secret'[s] = secret[s]
         /\ SecretOwner(s) = u =>
              /\ b.secrets[s] # None
              /\ secret'[s].vault = b.id
              /\ secret'[s].name = b.secrets[s].name
              /\ secret'[s].private = b.secrets[s].private
<1>1. CASE b.secrets[s] = None
  <2>1. secret'[s] = IF SecretOwner(s) = u THEN None ELSE secret[s]
    BY <1>1 DEF Replaces
  <2> QED
    BY <1>1, <2>1
<1>2. CASE b.secrets[s] # None
  <2>1. SecretOwner(s) = u
    BY <1>2 DEF Replaces
  <2>2. secret'[s] = [vault |-> b.id, private |-> b.secrets[s].private,
                      name |-> b.secrets[s].name, value |-> b.secrets[s].value,
                      version |-> b.secrets[s].version]
    BY <1>2 DEF Replaces
  <2> QED
    BY <1>2, <2>1, <2>2
<1> QED
  BY <1>1, <1>2

LEMMA NamesStep ==
  ASSUME StoreInv, StoreInv', NamesUnique, [Next]_vars
  PROVE  NamesUnique'
<1>1. CASE UNCHANGED <<vault, secret, audit>>
  BY <1>1 DEF NamesUnique
<1>2. ASSUME NEW d \in Devices, Effect(d)
      PROVE  NamesUnique'
  <2> DEFINE u == call[d].req.user
  <2>1. CASE UNCHANGED secret
    BY <2>1 DEF NamesUnique
  <2>2. ASSUME NEW s \in SecretIds, KeepsRest(s),
               ~ NameTaken(s, secret'[s].vault, secret'[s].private, secret'[s].name)
        PROVE  NamesUnique'
    <3> SUFFICES ASSUME NEW a \in SecretIds, NEW b \in SecretIds, a # b,
                        secret'[a] # None, secret'[b] # None,
                        secret'[a].vault = secret'[b].vault,
                        secret'[a].private = secret'[b].private,
                        secret'[a].name # NoHash, secret'[a].name = secret'[b].name
                 PROVE  FALSE
      BY DEF NamesUnique
    <3>1. CASE s \in {a, b}
      <4>1. PICK t \in {a, b} : t # s
        BY <3>1
      <4>2. secret[t] = secret'[t] /\ t \in SecretIds \ {s}
        BY <2>2, <4>1 DEF KeepsRest
      <4> QED
        BY <2>2, <3>1, <4>1, <4>2 DEF NameTaken
    <3>2. CASE s \notin {a, b}
      <4>1. secret[a] = secret'[a] /\ secret[b] = secret'[b]
        BY <2>2, <3>2 DEF KeepsRest
      <4> QED
        BY <4>1 DEF NamesUnique
    <3> QED
      BY <3>1, <3>2
  <2>3. ASSUME NEW s \in SecretIds, Adds(u, s) \/ Updates(u, s)
        PROVE  NamesUnique'
    BY <2>2, <2>3 DEF Adds, Updates
  <2>4. ASSUME NEW s \in SecretIds, Deletes(u, s)
        PROVE  NamesUnique'
    <3>1. \A t \in SecretIds : secret'[t] = None \/ secret'[t] = secret[t]
      BY <2>4 DEF Deletes, KeepsRest
    <3> QED
      BY <3>1 DEF NamesUnique
  <2>5. ASSUME NEW b \in Backups, Replaces(u, b)
        PROVE  NamesUnique'
    <3> SUFFICES ASSUME NEW s \in SecretIds, NEW t \in SecretIds, s # t,
                        secret'[s] # None, secret'[t] # None,
                        secret'[s].vault = secret'[t].vault,
                        secret'[s].private = secret'[t].private,
                        secret'[s].name # NoHash
                 PROVE  secret'[s].name # secret'[t].name
      BY DEF NamesUnique
    <3>1. SecretOwner(s) = SecretOwner(t)
      <4>1. /\ VaultOwner[secret'[s].vault] = SecretOwner(s)
            /\ VaultOwner[secret'[t].vault] = SecretOwner(t)
        BY OwnersNext
      <4> QED
        BY <4>1
    <3>2. CASE SecretOwner(s) # u
      <4>1. secret'[s] = secret[s] /\ secret'[t] = secret[t]
        BY <2>5, <3>1, <3>2, ReplacedRow
      <4> QED
        BY <4>1 DEF NamesUnique
    <3>3. CASE SecretOwner(s) = u
      <4>1. /\ b.secrets[s] # None /\ secret'[s].name = b.secrets[s].name
            /\ secret'[s].private = b.secrets[s].private
        BY <2>5, <3>3, ReplacedRow
      <4>2. /\ b.secrets[t] # None /\ secret'[t].name = b.secrets[t].name
            /\ secret'[t].private = b.secrets[t].private
        <5>1. SecretOwner(t) = u
          BY <3>1, <3>3
        <5> QED
          BY <2>5, <5>1, ReplacedRow
      <4>3. b.secrets[s].name # b.secrets[t].name
        <5>1. b.secrets[s].name # NoHash /\ b.secrets[s].private = b.secrets[t].private
          BY <4>1, <4>2
        <5> QED
          BY <2>5, <4>1, <4>2, <5>1 DEF Replaces
      <4> QED
        BY <4>1, <4>2, <4>3
    <3> QED
      BY <3>2, <3>3
  <2> QED
    BY <1>2, <2>1, <2>3, <2>4, <2>5 DEF Effect, Opens, Rewraps
<1> QED
  BY <1>1, <1>2, StepEffects

(* No two secrets of a vault share a name, whatever creates, renames and   *)
(* restores run at once, for any number of devices and accounts.           *)
THEOREM NamesStayUnique == Spec => []NamesUnique
<1>1. Init => StoreInv /\ NamesUnique
  BY InitInv DEF Init, NamesUnique
<1>2. StoreInv /\ NamesUnique /\ [Next]_vars => (StoreInv /\ NamesUnique)'
  BY NextInv, NamesStep
<1> QED
  BY <1>1, <1>2, PTL DEF Spec
-----------------------------------------------------------------------------
(* Accounts.                                                               *)

LEMMA IsolationStep ==
  ASSUME StoreInv, [Next]_vars, NEW o \in Users,
         \/ vault'[o] # vault[o]
         \/ \E s \in SecretIds : SecretOwner(s) = o /\ secret'[s] # secret[s]
  PROVE  \E d \in Devices : /\ call[d] # None /\ call[d].req.user = o
                            /\ call'[d] # call[d]
<1>1. PICK d \in Devices : Effect(d)
  BY StepEffects
<1> DEFINE u == call[d].req.user
<1>2. o = u
  <2>1. ASSUME o # u, NEW s \in SecretIds, SecretOwner(s) = o
        PROVE  vault'[o] = vault[o] /\ secret'[s] = secret[s]
    BY <1>1, <2>1 DEF Effect, Opens, Rewraps, Adds, Updates, Deletes, Replaces,
       KeepsOthers, KeepsRest
  <2>2. ASSUME o # u
        PROVE  vault'[o] = vault[o]
    BY <1>1, <2>2 DEF Effect, Opens, Rewraps, Adds, Updates, Deletes, Replaces, KeepsOthers
  <2> QED
    BY <2>1, <2>2
<1> QED
  BY <1>1, <1>2 DEF Effect

(* A request changes nothing of another account, also where a handler      *)
(* selects a row by its id alone some time after it has checked the owner. *)
THEOREM RequestsIsolated == Spec => Isolation
<1>1. StoreInv /\ [Next]_vars => StoreInv'
  BY NextInv
<1>2. StoreInv /\ [Next]_vars => [StaysInAccount]_vars
  BY IsolationStep DEF StaysInAccount
<1> QED
  BY <1>1, <1>2, InitInv, PTL DEF Spec, Isolation

-----------------------------------------------------------------------------
(* The audit trail.                                                        *)
(*                                                                         *)
(* An untouched secret that was never created was never updated either,    *)
(* so that a creation finds no update on record; and a client generates an *)
(* id once, so that no two creations of a secret are under way and none is *)
(* under way once the secret was created.                                  *)

Untouched(s) ==
  \A v \in VaultIds :
    VaultOwner[v] = SecretOwner(s) => audit[<<"vault_restored", v>>] = 0

TrailSound ==
  \A s \in SecretIds :
    Untouched(s) /\ audit[<<"secret_created", s>>] = 0 =>
      audit[<<"secret_updated", s>>] = 0

Creating(d, s) ==
  call[d] # None /\ call[d].req.op = "create_secret" /\ call[d].req.id = s

FreshCalls ==
  \A d \in Devices, s \in SecretIds : Creating(d, s) =>
    /\ call[d].step # "reread" => audit[<<"secret_created", s>>] = 0
    /\ \A e \in Devices \ {d} : ~ Creating(e, s)

TrailInv == StoreInv /\ AuditTrail /\ TrailSound /\ FreshCalls

LEMMA SecretEvents ==
  ASSUME NEW s \in SecretIds
  PROVE  /\ <<"secret_created", s>> \in AuditEvent
         /\ <<"secret_updated", s>> \in AuditEvent
         /\ <<"secret_deleted", s>> \in AuditEvent
BY DEF AuditEvent

LEMMA VaultEvents ==
  ASSUME NEW v \in VaultIds
  PROVE  /\ <<"master_key_rewrapped", v>> \in AuditEvent
         /\ <<"vault_restored", v>> \in AuditEvent
BY DEF AuditEvent

(* One audit row is one more of its kind, and of no other.                 *)
LEMMA AuditCounts ==
  ASSUME TypeOK, NEW a \in AuditEvent, Audit(a)
  PROVE  /\ audit'[a] = audit[a] + 1
         /\ \A e \in AuditEvent : e # a => audit'[e] = audit[e]
         /\ \A e \in AuditEvent : audit'[e] = 0 => audit[e] = 0
<1>1. audit \in [AuditEvent -> Nat] /\ audit' = [audit EXCEPT ![a] = audit[a] + 1]
  BY DEF TypeOK, Audit
<1>2. /\ audit'[a] = audit[a] + 1
      /\ \A e \in AuditEvent : e # a => audit'[e] = audit[e]
  BY <1>1
<1>3. audit[a] \in Nat
  BY <1>1
<1> QED
  BY <1>2, <1>3

(* What a handler does to the requests under way: its own goes on or ends, *)
(* and every other one keeps its request and its step.                     *)
LEMMA HandlerCall ==
  ASSUME TypeOK, NEW d \in Devices, Handle(d)
  PROVE  /\ call[d] # None
         /\ \/ \E code : Answer(d, code)
            \/ Committed(d) /\ call[d].step = "write"
            \/ \E step, held : Proceed(d, step, held) /\ call[d].step # "reread"
            \/ call' = Overtake(d, call[d].req.user)
<1>1. CASE \/ CreateVaultRefresh(d) \/ CreateVaultExists(d)
           \/ RewrapRefresh(d) \/ RewrapStale(d) \/ CreateRefresh(d) \/ CreateConflict(d)
           \/ UpdateConflict(d) \/ UpdateNameExists(d) \/ UpdateReread(d)
           \/ RestoreConflict(d) \/ RestoreMixed(d) \/ DeleteWrite(d) \/ DeleteMissed(d)
  BY <1>1 DEF CreateVaultRefresh, CreateVaultExists, RewrapRefresh, RewrapStale,
     CreateRefresh, CreateConflict, UpdateConflict, UpdateNameExists, UpdateReread,
     RestoreConflict, RestoreMixed, DeleteWrite, DeleteMissed, Refreshed, Refuse, Pending
<1>2. CASE CreateVault(d) \/ RewrapWrite(d) \/ CreateWrite(d) \/ UpdateWrite(d)
  BY <1>2 DEF CreateVault, RewrapWrite, CreateWrite, UpdateWrite, Pending
<1>3. CASE \/ RewrapRead(d) \/ CreateRead(d) \/ UpdateReadSecret(d) \/ UpdateReadVault(d)
           \/ DeleteRead(d) \/ RestoreRead(d)
  <2>1. call[d] # None /\ call[d].step # "reread"
    BY <1>3 DEF RewrapRead, CreateRead, UpdateReadSecret, UpdateReadVault, DeleteRead,
       RestoreRead, Pending
  <2>2. (\E code : Refuse(d, code)) \/ (\E step, held : Proceed(d, step, held))
    <3>1. CASE RewrapRead(d)
      BY <3>1 DEF RewrapRead
    <3>2. CASE CreateRead(d)
      BY <3>2 DEF CreateRead
    <3>3. CASE UpdateReadSecret(d) \/ DeleteRead(d)
      BY <3>3 DEF UpdateReadSecret, DeleteRead
    <3>4. CASE UpdateReadVault(d)
      BY <3>4 DEF UpdateReadVault
    <3>5. CASE RestoreRead(d)
      BY <3>5 DEF RestoreRead
    <3> QED
      BY <1>3, <3>1, <3>2, <3>3, <3>4, <3>5
  <2> QED
    BY <2>1, <2>2 DEF Refuse
<1>4. CASE RestoreWrite(d)
  BY <1>4 DEF RestoreWrite, Pending
<1> QED
  BY <1>1, <1>2, <1>3, <1>4 DEF Handle

LEMMA CallStep ==
  ASSUME TypeOK, NEW d \in Devices, Handle(d), NEW e \in Devices, call'[e] # None
  PROVE  /\ call[e] # None /\ call'[e].req = call[e].req
         /\ e # d => call'[e].step = call[e].step
         /\ e = d /\ call'[e].step # "reread" =>
              UNCHANGED audit /\ call[e].step # "reread"
<1>1. call \in [Devices -> Call \cup {None}] /\ call[d] # None /\ call[d] \in Call
  BY HandlerCall DEF TypeOK
<1>2. CASE \E code : Answer(d, code)
  BY <1>1, <1>2 DEF Answer
<1>3. CASE Committed(d)
  BY <1>1, <1>3 DEF Committed, Call
<1>4. CASE \E step, held : Proceed(d, step, held) /\ call[d].step # "reread"
  <2>1. PICK step, held : Proceed(d, step, held) /\ call[d].step # "reread"
    BY <1>4
  <2> QED
    BY <1>1, <2>1 DEF Proceed, Call
<1>5. CASE call' = Overtake(d, call[d].req.user)
  <2>1. e # d
    BY <1>1, <1>5 DEF Overtake
  <2>2. \/ call'[e] = call[e]
        \/ call[e] # None /\ call'[e] = [call[e] EXCEPT !.overtaken = TRUE]
    BY <1>1, <1>5, <2>1 DEF Overtake
  <2>3. call[e] \in Call \cup {None}
    BY <1>1
  <2> QED
    BY <2>1, <2>2, <2>3 DEF Call
<1> QED
  BY <1>2, <1>3, <1>4, <1>5, HandlerCall

(* What an effect adds to the audit trail of secret s.                     *)
LEMMA CreatedOnlyByAdds ==
  ASSUME StoreInv, NEW d \in Devices, Effect(d), NEW s \in SecretIds,
         ~ (Creating(d, s) /\ call[d].step = "write" /\ Adds(call[d].req.user, s))
  PROVE  audit'[<<"secret_created", s>>] = audit[<<"secret_created", s>>]
<1> DEFINE e == <<"secret_created", s>>
           u == call[d].req.user
<1>1. TypeOK /\ e \in AuditEvent
  BY SecretEvents DEF StoreInv
<1>2. CASE UNCHANGED audit
  BY <1>2
<1>3. ASSUME NEW a \in AuditEvent, Audit(a), a # e
      PROVE  audit'[e] = audit[e]
  BY <1>1, <1>3, AuditCounts
<1>4. CASE Rewraps(u)
  <2>1. vault[u].id \in VaultIds /\ Audit(<<"master_key_rewrapped", vault[u].id>>)
    BY <1>1, <1>4 DEF Rewraps, TypeOK, VaultRow, Effect
  <2>2. <<"master_key_rewrapped", vault[u].id>> # e
    OBVIOUS
  <2> QED
    BY <1>3, <2>1, <2>2, VaultEvents
<1>5. ASSUME NEW t \in SecretIds, Updates(u, t) \/ Deletes(u, t)
      PROVE  audit'[e] = audit[e]
  BY <1>3, <1>5, SecretEvents DEF Updates, Deletes
<1>6. ASSUME NEW b \in Backups, Replaces(u, b)
      PROVE  audit'[e] = audit[e]
  <2>1. b.id \in VaultIds /\ Audit(<<"vault_restored", b.id>>)
    BY <1>6, BackupAssumption DEF Replaces, Backup
  <2>2. <<"vault_restored", b.id>> # e
    OBVIOUS
  <2> QED
    BY <1>3, <2>1, <2>2, VaultEvents
<1>7. CASE /\ call[d].req.op = "create_secret" /\ call[d].step = "write"
           /\ call[d].req.id \in SecretIds /\ Adds(u, call[d].req.id)
  <2>1. call[d].req.id # s
    BY <1>7 DEF Effect, Creating
  <2>2. Audit(<<"secret_created", call[d].req.id>>)
    BY <1>7 DEF Adds
  <2> QED
    BY <1>3, <1>7, <2>1, <2>2, SecretEvents
<1> QED
  BY <1>2, <1>4, <1>5, <1>6, <1>7 DEF Effect, Opens

LEMMA FreshStep ==
  ASSUME TrailInv, [Next]_vars
  PROVE  FreshCalls'
<1>1. CASE UNCHANGED vars
  BY <1>1 DEF TrailInv, FreshCalls, Creating, vars
<1>2. ASSUME NEW d \in Devices, NEW r \in Request, Submit(d, r)
      PROVE  FreshCalls'
  <2>1. /\ UNCHANGED audit /\ call[d] = None /\ Admissible(r) /\ call'[d].req = r
        /\ \A e \in Devices \ {d} : call'[e] = call[e]
    BY <1>2 DEF Submit, TrailInv, StoreInv, TypeOK
  <2>2. ASSUME NEW s \in SecretIds, Creating(d, s)'
        PROVE  audit[<<"secret_created", s>>] = 0 /\ \A e \in Devices : ~ Creating(e, s)
    BY <2>1, <2>2 DEF Creating, Admissible, Fresh
  <2>3. \A e \in Devices \ {d}, s \in SecretIds : Creating(e, s)' <=> Creating(e, s)
    BY <2>1 DEF Creating
  <2> SUFFICES ASSUME NEW e \in Devices, NEW s \in SecretIds, Creating(e, s)'
               PROVE  /\ call'[e].step # "reread" => audit'[<<"secret_created", s>>] = 0
                      /\ \A f \in Devices \ {e} : ~ Creating(f, s)'
    BY DEF FreshCalls, Creating
  <2>4. CASE e = d
    BY <2>1, <2>2, <2>3, <2>4
  <2>5. CASE e # d
    <3>1. Creating(e, s) /\ ~ Creating(d, s)'
      BY <2>2, <2>3, <2>5
    <3> QED
      BY <2>1, <2>3, <2>5, <3>1 DEF TrailInv, FreshCalls
  <2> QED
    BY <2>4, <2>5
<1>3. ASSUME NEW d \in Devices, Handle(d)
      PROVE  FreshCalls'
  <2> USE DEF TrailInv, StoreInv
  <2>1. \A e \in Devices, s \in SecretIds : Creating(e, s)' => Creating(e, s)
    BY <1>3, CallStep DEF Creating
  <2> SUFFICES ASSUME NEW e \in Devices, NEW s \in SecretIds, Creating(e, s)',
                      call'[e].step # "reread"
               PROVE  audit'[<<"secret_created", s>>] = 0
    BY <2>1 DEF FreshCalls, Creating
  <2>2. Creating(e, s) /\ call'[e] # None
    BY <2>1 DEF Creating
  <2>3. CASE e = d
    <3>1. UNCHANGED audit /\ call[e].step # "reread"
      BY <1>3, <2>2, <2>3, CallStep
    <3> QED
      BY <2>2, <3>1 DEF FreshCalls
  <2>4. CASE e # d
    <3>1. call[e].step # "reread" /\ ~ Creating(d, s)
      BY <1>3, <2>2, <2>4, CallStep DEF FreshCalls
    <3>2. audit'[<<"secret_created", s>>] = audit[<<"secret_created", s>>]
      BY <1>3, <3>1, HandleEffect, CreatedOnlyByAdds
    <3> QED
      BY <2>2, <3>1, <3>2 DEF FreshCalls
  <2> QED
    BY <2>3, <2>4
<1> QED
  BY <1>1, <1>2, <1>3 DEF Next

LEMMA EffectAudits ==
  ASSUME StoreInv, NEW d \in Devices, Effect(d)
  PROVE  UNCHANGED audit \/ \E a \in AuditEvent : Audit(a)
<1> DEFINE u == call[d].req.user
<1>1. CASE Rewraps(u)
  <2>1. vault[u].id \in VaultIds
    BY <1>1 DEF Rewraps, StoreInv, TypeOK, VaultRow, Effect
  <2> QED
    BY <1>1, <2>1, VaultEvents DEF Rewraps
<1>2. CASE call[d].req.id \in SecretIds /\ Adds(u, call[d].req.id)
  BY <1>2, SecretEvents DEF Adds
<1>3. ASSUME NEW t \in SecretIds, Updates(u, t) \/ Deletes(u, t)
      PROVE  \E a \in AuditEvent : Audit(a)
  BY <1>3, SecretEvents DEF Updates, Deletes
<1>4. ASSUME NEW b \in Backups, Replaces(u, b)
      PROVE  \E a \in AuditEvent : Audit(a)
  <2>1. b.id \in VaultIds
    BY BackupAssumption DEF Backup
  <2> QED
    BY <1>4, <2>1, VaultEvents DEF Replaces
<1> QED
  BY <1>1, <1>2, <1>3, <1>4 DEF Effect, Opens

(* What a step does to an untouched secret and its audit rows.             *)
LEMMA UntouchedEffect ==
  ASSUME StoreInv, NEW d \in Devices, Effect(d), NEW s \in SecretIds, Untouched(s)'
  PROVE  LET created == <<"secret_created", s>>
             updated == <<"secret_updated", s>>
             deleted == <<"secret_deleted", s>>
         IN  /\ Untouched(s)
             /\ \/ /\ secret'[s] = secret[s]
                   /\ audit'[created] = audit[created]
                   /\ audit'[updated] = audit[updated]
                   /\ audit'[deleted] \in {audit[deleted], audit[deleted] + 1}
                \/ /\ Creating(d, s) /\ call[d].step = "write"
                   /\ secret[s] = None /\ secret'[s] # None /\ secret'[s].version = 1
                   /\ audit'[created] = audit[created] + 1
                   /\ audit'[updated] = audit[updated]
                \/ /\ secret[s] # None /\ secret'[s] # None
                   /\ secret'[s].version = secret[s].version + 1
                   /\ audit'[created] = audit[created]
                   /\ audit'[updated] = audit[updated] + 1
                \/ /\ secret'[s] = None
                   /\ audit'[created] = audit[created]
                   /\ audit'[updated] = audit[updated]
                   /\ audit'[deleted] = audit[deleted] + 1
<1> DEFINE created == <<"secret_created", s>>
           updated == <<"secret_updated", s>>
           deleted == <<"secret_deleted", s>>
           u == call[d].req.user
           Same == /\ audit'[created] = audit[created]
                   /\ audit'[updated] = audit[updated]
                   /\ audit'[deleted] = audit[deleted]
<1>1. /\ TypeOK /\ created \in AuditEvent /\ updated \in AuditEvent
      /\ deleted \in AuditEvent /\ created # updated /\ created # deleted
      /\ updated # deleted
  BY SecretEvents DEF StoreInv
<1>2. ASSUME NEW a \in AuditEvent, Audit(a), a \notin {created, updated, deleted}
      PROVE  Same
  BY <1>1, <1>2, AuditCounts
<1>3. Untouched(s)
  <2>1. \A e \in AuditEvent : audit'[e] = 0 => audit[e] = 0
    <3>1. UNCHANGED audit \/ \E a \in AuditEvent : Audit(a)
      BY EffectAudits
    <3> QED
      BY <1>1, <3>1, AuditCounts
  <2> QED
    BY <2>1, VaultEvents DEF Untouched
<1>4. CASE UNCHANGED <<secret, audit>>
  BY <1>3, <1>4
<1>5. CASE Rewraps(u)
  <2>1. vault[u].id \in VaultIds /\ Audit(<<"master_key_rewrapped", vault[u].id>>)
    BY <1>1, <1>5 DEF Rewraps, TypeOK, VaultRow, Effect
  <2>2. <<"master_key_rewrapped", vault[u].id>> \notin {created, updated, deleted}
    OBVIOUS
  <2>3. Same /\ secret'[s] = secret[s]
    BY <1>2, <1>5, <2>1, <2>2, VaultEvents DEF Rewraps
  <2> QED
    BY <1>3, <2>3
<1>6. ASSUME NEW t \in SecretIds, t # s,
             NEW kind \in {"secret_created", "secret_updated", "secret_deleted"},
             KeepsRest(t), Audit(<<kind, t>>)
      PROVE  Same /\ secret'[s] = secret[s]
  <2>1. <<kind, t>> \in AuditEvent /\ <<kind, t>> \notin {created, updated, deleted}
    BY <1>6, SecretEvents
  <2> QED
    BY <1>2, <1>6, <2>1 DEF KeepsRest
<1>7. CASE /\ call[d].req.op = "create_secret" /\ call[d].step = "write"
           /\ call[d].req.id \in SecretIds /\ Adds(u, call[d].req.id)
  <2>1. CASE call[d].req.id # s
    <3>1. Same /\ secret'[s] = secret[s]
      BY <1>6, <1>7, <2>1 DEF Adds
    <3> QED
      BY <1>3, <3>1
  <2>2. CASE call[d].req.id = s
    <3>1. /\ Creating(d, s) /\ call[d].step = "write"
          /\ secret[s] = None /\ secret'[s] # None /\ secret'[s].version = 1
          /\ Audit(created)
      BY <1>7, <2>2 DEF Adds, Effect, Creating
    <3>2. audit'[created] = audit[created] + 1 /\ audit'[updated] = audit[updated]
      BY <1>1, <3>1, AuditCounts
    <3> QED
      BY <1>3, <3>1, <3>2
  <2> QED
    BY <2>1, <2>2
<1>8. ASSUME NEW t \in SecretIds, t # s, Updates(u, t) \/ Deletes(u, t)
      PROVE  Same /\ secret'[s] = secret[s]
  BY <1>6, <1>8 DEF Updates, Deletes
<1>9. CASE Updates(u, s)
  <2>1. /\ secret[s] # None /\ secret'[s] # None
        /\ secret'[s].version = secret[s].version + 1 /\ Audit(updated)
    BY <1>9 DEF Updates
  <2>2. audit'[updated] = audit[updated] + 1 /\ audit'[created] = audit[created]
    BY <1>1, <2>1, AuditCounts
  <2> QED
    BY <1>3, <2>1, <2>2
<1>10. CASE Deletes(u, s)
  <2>1. (secret'[s] = None \/ secret'[s] = secret[s]) /\ Audit(deleted)
    BY <1>10 DEF Deletes
  <2>2. /\ audit'[deleted] = audit[deleted] + 1 /\ audit'[created] = audit[created]
        /\ audit'[updated] = audit[updated]
    BY <1>1, <2>1, AuditCounts
  <2> QED
    BY <1>3, <2>1, <2>2
(* A restore touches its account, so it is one of another account.         *)
<1>11. ASSUME NEW b \in Backups, Replaces(u, b)
       PROVE  Same /\ secret'[s] = secret[s]
  <2>1. /\ b.id \in VaultIds /\ Audit(<<"vault_restored", b.id>>)
        /\ VaultOwner[b.id] = u
    BY <1>11, BackupAssumption DEF Replaces, Backup
  <2>2. /\ <<"vault_restored", b.id>> \notin {created, updated, deleted}
        /\ <<"vault_restored", b.id>> \in AuditEvent
    BY <2>1, VaultEvents
  <2>3. SecretOwner(s) # u
    <3>1. audit'[<<"vault_restored", b.id>>] = audit[<<"vault_restored", b.id>>] + 1
      BY <1>1, <2>1, <2>2, AuditCounts
    <3>2. audit[<<"vault_restored", b.id>>] \in Nat
      BY <1>1, <2>2 DEF TypeOK
    <3>3. audit'[<<"vault_restored", b.id>>] # 0
      BY <3>1, <3>2
    <3> QED
      BY <2>1, <3>3 DEF Untouched
  <2>4. secret'[s] = secret[s]
    <3>1. b.secrets[s] = None
      BY <1>11, <2>3 DEF Replaces
    <3>2. secret'[s] = IF SecretOwner(s) = u THEN None ELSE secret[s]
      BY <1>11, <3>1 DEF Replaces
    <3> QED
      BY <2>3, <3>2
  <2> QED
    BY <1>2, <2>1, <2>2, <2>4
<1>12. CASE \E t \in SecretIds : Updates(u, t) \/ Deletes(u, t)
  <2>1. PICK t \in SecretIds : Updates(u, t) \/ Deletes(u, t)
    BY <1>12
  <2>2. CASE t # s
    BY <1>3, <1>8, <2>1, <2>2
  <2>3. CASE t = s
    BY <1>9, <1>10, <2>1, <2>3
  <2> QED
    BY <2>2, <2>3
<1>13. CASE \E b \in Backups : Replaces(u, b)
  BY <1>3, <1>11, <1>13
<1> QED
  BY <1>4, <1>5, <1>7, <1>12, <1>13 DEF Effect, Opens

LEMMA TrailStep ==
  ASSUME TrailInv, [Next]_vars
  PROVE  TrailInv'
<1> USE DEF TrailInv
<1>1. StoreInv' /\ FreshCalls'
  BY NextInv, FreshStep
<1>2. CASE UNCHANGED <<vault, secret, audit>>
  BY <1>1, <1>2 DEF AuditTrail, TrailSound, Untouched
<1>3. ASSUME NEW d \in Devices, Effect(d)
      PROVE  AuditTrail' /\ TrailSound'
  <2> SUFFICES ASSUME NEW s \in SecretIds, Untouched(s)'
               PROVE  LET created == <<"secret_created", s>>
                          updated == <<"secret_updated", s>>
                          deleted == <<"secret_deleted", s>>
                      IN  /\ secret'[s] # None =>
                               /\ audit'[created] = 1
                               /\ secret'[s].version = 1 + audit'[updated]
                          /\ secret'[s] = None /\ audit'[created] > 0 =>
                               audit'[deleted] > 0
                          /\ audit'[created] = 0 => audit'[updated] = 0
    BY DEF AuditTrail, TrailSound, Untouched
  <2> DEFINE created == <<"secret_created", s>>
             updated == <<"secret_updated", s>>
             deleted == <<"secret_deleted", s>>
  <2>1. /\ audit[created] \in Nat /\ audit[updated] \in Nat /\ audit[deleted] \in Nat
    BY SecretEvents DEF StoreInv, TypeOK
  <2>2. Untouched(s)
    BY <1>3, UntouchedEffect
  <2>3. /\ secret[s] # None =>
             /\ audit[created] = 1
             /\ secret[s].version = 1 + audit[updated]
        /\ secret[s] = None /\ audit[created] > 0 => audit[deleted] > 0
        /\ audit[created] = 0 => audit[updated] = 0
    BY <2>2 DEF AuditTrail, TrailSound, Untouched
  <2>4. CASE /\ secret'[s] = secret[s]
             /\ audit'[created] = audit[created]
             /\ audit'[updated] = audit[updated]
             /\ audit'[deleted] \in {audit[deleted], audit[deleted] + 1}
    BY <2>1, <2>3, <2>4
  <2>5. CASE /\ Creating(d, s) /\ call[d].step = "write"
             /\ secret[s] = None /\ secret'[s] # None /\ secret'[s].version = 1
             /\ audit'[created] = audit[created] + 1
             /\ audit'[updated] = audit[updated]
    <3>1. audit[created] = 0
      BY <2>5 DEF FreshCalls
    <3> QED
      BY <2>3, <2>5, <3>1
  <2>6. CASE /\ secret[s] # None /\ secret'[s] # None
             /\ secret'[s].version = secret[s].version + 1
             /\ audit'[created] = audit[created]
             /\ audit'[updated] = audit[updated] + 1
    BY <2>1, <2>3, <2>6
  <2>7. CASE /\ secret'[s] = None
             /\ audit'[created] = audit[created]
             /\ audit'[updated] = audit[updated]
             /\ audit'[deleted] = audit[deleted] + 1
    BY <2>1, <2>3, <2>7
  <2> QED
    BY <1>3, <2>4, <2>5, <2>6, <2>7, UntouchedEffect
<1> QED
  BY <1>1, <1>2, <1>3, StepEffects

(* Until a restore touches its account, the audit trail accounts for each  *)
(* secret: one creation, a record version that counts its updates, and no  *)
(* disappearance without a deletion on record.                             *)
THEOREM TrailAccounts == Spec => []AuditTrail
<1>1. Init => TrailInv
  <2>1. Init => AuditTrail /\ TrailSound /\ FreshCalls
    <3> SUFFICES ASSUME Init
                 PROVE  AuditTrail /\ TrailSound /\ FreshCalls
      OBVIOUS
    <3>1. \A s \in SecretIds :
            /\ secret[s] = None
            /\ audit[<<"secret_created", s>>] = 0 /\ audit[<<"secret_updated", s>>] = 0
      BY SecretEvents DEF Init
    <3>2. \A d \in Devices : call[d] = None
      BY DEF Init
    <3> QED
      BY <3>1, <3>2 DEF AuditTrail, TrailSound, FreshCalls, Creating
  <2> QED
    BY <2>1, InitInv DEF TrailInv
<1>2. TrailInv /\ [Next]_vars => TrailInv'
  BY TrailStep
<1>3. TrailInv => AuditTrail
  BY DEF TrailInv
<1> QED
  BY <1>1, <1>2, <1>3, PTL DEF Spec

-----------------------------------------------------------------------------
(* The abstract specification.  Each effect is a change that AtomicVaults  *)
(* allows to the account, because what it leaves is well-formed.           *)

LEMMA OnlyOne ==
  ASSUME StoreInv', NamesUnique', NEW u \in Users, KeepsOthers(u), vault'[u] # None
  PROVE  Atomic!Only(u)
<1>1. /\ vault' \in [Users -> Atomic!VaultRow \cup {None}]
      /\ secret' \in [SecretIds -> Atomic!SecretRow \cup {None}]
  BY DEF StoreInv, TypeOK, VaultRow, SecretRow, Atomic!VaultRow, Atomic!SecretRow
<1>2. \A o \in Users \ {u} : vault'[o] = vault[o]
  BY DEF KeepsOthers
<1>3. VaultOwner[vault'[u].id] = u
  BY DEF StoreInv, VaultsOwned
<1>4. \A s \in Atomic!Contents(secret', vault'[u].id) :
        /\ s \in SecretIds /\ secret'[s] # None /\ secret'[s].vault = vault'[u].id
        /\ SecretOwner(s) = u
  BY <1>3, OwnersNext DEF Atomic!Contents
<1>5. \A s \in Atomic!Contents(secret', vault'[u].id) :
        secret'[s].private = vault'[u].private
  BY <1>4 DEF StoreInv, ModeMatches, SecretOwner
<1>6. \A r, s \in Atomic!Contents(secret', vault'[u].id) :
        r # s /\ secret'[r].name # NoHash => secret'[r].name # secret'[s].name
  BY <1>4, <1>5 DEF NamesUnique
<1> QED
  BY <1>1, <1>2, <1>5, <1>6 DEF Atomic!Only, Atomic!WellFormed

LEMMA OwnIsOwner ==
  ASSUME StoreInv, NEW u \in Users, NEW s \in SecretIds
  PROVE  Atomic!Own(u, s) <=> secret[s] # None /\ SecretOwner(s) = u
<1>1. Atomic!Own(u, s) <=>
        /\ vault[u] # None /\ secret[s] # None /\ secret[s].vault = vault[u].id
  BY DEF Atomic!Own, Atomic!Contents
<1>2. ASSUME vault[u] # None, secret[s] # None, secret[s].vault = vault[u].id
      PROVE  SecretOwner(s) = u
  BY <1>2, OwnerHasVault DEF StoreInv, VaultsOwned
<1>3. ASSUME secret[s] # None, SecretOwner(s) = u
      PROVE  vault[u] # None /\ secret[s].vault = vault[u].id
  BY <1>3, OwnerHasVault
<1> QED
  BY <1>1, <1>2, <1>3

LEMMA OneSecretStep ==
  ASSUME StoreInv, StoreInv', NamesUnique', NEW u \in Users, NEW s \in SecretIds,
         vault[u] # None, UNCHANGED vault, KeepsRest(s)
  PROVE  Atomic!OneSecret(u, s)
<1>1. KeepsOthers(u) /\ vault'[u] # None
  BY DEF KeepsOthers
<1> QED
  BY <1>1, OnlyOne DEF Atomic!OneSecret, KeepsRest

LEMMA RestoreStep ==
  ASSUME StoreInv, StoreInv', NamesUnique', NEW u \in Users, NEW b \in Backups,
         Replaces(u, b)
  PROVE  Atomic!Restore(u)
<1> DEFINE a == AsBackup(b)
<1>1. a \in {AsBackup(c) : c \in Backups} /\ a.user = u
  BY DEF AsBackup, Replaces
<1>2. Atomic!Only(u)
  BY OnlyOne DEF Replaces
<1>3. \A o \in Users \ {u} : vault[o] # None => vault[o].id # a.vault.id
  BY DEF AsBackup, Replaces, StoreInv, VaultsOwned
<1>4. vault'[u] = a.vault
  BY DEF AsBackup, Replaces
<1>5. ASSUME NEW s \in SecretIds
      PROVE  secret'[s] = IF a.records[s] # None THEN a.records[s]
                          ELSE IF Atomic!Own(u, s) THEN None ELSE secret[s]
  <2>1. CASE b.secrets[s] # None
    <3>1. secret'[s] = a.records[s]
      BY <1>5, <2>1 DEF AsBackup, Replaces
    <3>2. a.records[s] \in SecretRow
      <4>1. b \in Backup
        BY BackupAssumption
      <4>2. b.id \in VaultIds /\ b.secrets[s] \in BackupItem
        BY <1>5, <2>1, <4>1 DEF Backup
      <4>3. a.records[s] = [vault |-> b.id, private |-> b.secrets[s].private,
                            name |-> b.secrets[s].name, value |-> b.secrets[s].value,
                            version |-> b.secrets[s].version]
        BY <1>5, <2>1 DEF AsBackup
      <4> QED
        BY <4>2, <4>3 DEF BackupItem, SecretRow
    <3> QED
      BY <3>1, <3>2, NotNone
  <2>2. CASE b.secrets[s] = None
    <3>1. a.records[s] = None
      BY <1>5, <2>2 DEF AsBackup
    <3>2. secret'[s] = IF SecretOwner(s) = u THEN None ELSE secret[s]
      BY <1>5, <2>2 DEF Replaces
    <3>3. Atomic!Own(u, s) <=> secret[s] # None /\ SecretOwner(s) = u
      BY <1>5, OwnIsOwner
    <3> QED
      BY <3>1, <3>2, <3>3
  <2> QED
    BY <2>1, <2>2
<1>6. secret' = [s \in SecretIds |->
                   IF a.records[s] # None THEN a.records[s]
                   ELSE IF Atomic!Own(u, s) THEN None ELSE secret[s]]
  <2>1. secret' = [s \in SecretIds |-> secret'[s]]
    BY DEF StoreInv, TypeOK
  <2> QED
    BY <1>5, <2>1
<1> QED
  BY <1>1, <1>2, <1>3, <1>4, <1>6 DEF Atomic!Restore

LEMMA AtomicStep ==
  ASSUME StoreInv, StoreInv', NamesUnique', [Next]_vars
  PROVE  [Atomic!Next]_(Atomic!vars)
<1>0. UNCHANGED {AsBackup(b) : b \in Backups}
  BY DEF AsBackup
<1>1. ASSUME UNCHANGED <<vault, secret>>
      PROVE  [Atomic!Next]_(Atomic!vars)
  BY <1>0, <1>1 DEF Atomic!vars
<1>2. ASSUME NEW u \in Users, Atomic!Change(u)
      PROVE  Atomic!Next
  BY <1>0, <1>2 DEF Atomic!Next
<1>3. ASSUME NEW d \in Devices, Effect(d)
      PROVE  [Atomic!Next]_(Atomic!vars)
  <2> DEFINE u == call[d].req.user
  <2>0. u \in Users
    BY <1>3 DEF Effect
  <2>1. CASE Opens(u)
    <3>1. Atomic!NewVault(u)
      BY <2>0, <2>1, OnlyOne DEF Opens, Atomic!NewVault
    <3> QED
      BY <1>2, <2>0, <3>1 DEF Atomic!Change
  <2>2. CASE Rewraps(u)
    <3>1. Atomic!Rewrap(u)
      BY <2>0, <2>2, OnlyOne DEF Rewraps, Atomic!Rewrap
    <3> QED
      BY <1>2, <2>0, <3>1 DEF Atomic!Change
  <2>3. ASSUME NEW s \in SecretIds, Adds(u, s)
        PROVE  Atomic!Next
    <3>1. Atomic!Add(u, s)
      BY <2>0, <2>3, OneSecretStep DEF Adds, Atomic!Add
    <3> QED
      BY <1>2, <2>0, <3>1 DEF Atomic!Change
  <2>4. ASSUME NEW s \in SecretIds, Updates(u, s)
        PROVE  Atomic!Next
    <3>1. Atomic!Own(u, s) /\ vault[u] # None
      BY <2>0, <2>4, OwnIsOwner, OwnerHasVault DEF Updates
    <3>2. Atomic!Update(u, s)
      BY <2>0, <2>4, <3>1, OneSecretStep DEF Updates, Atomic!Update
    <3> QED
      BY <1>2, <2>0, <3>2 DEF Atomic!Change
  <2>5. ASSUME NEW s \in SecretIds, Deletes(u, s)
        PROVE  [Atomic!Next]_(Atomic!vars)
    <3>1. CASE secret'[s] = secret[s]
      <4>1. \A t \in SecretIds : secret'[t] = secret[t]
        BY <2>5, <3>1 DEF Deletes, KeepsRest
      <4>2. /\ secret = [t \in SecretIds |-> secret[t]]
            /\ secret' = [t \in SecretIds |-> secret'[t]]
        BY DEF StoreInv, TypeOK
      <4> QED
        BY <1>1, <2>5, <4>1, <4>2 DEF Deletes
    <3>2. CASE secret'[s] # secret[s]
      <4>1. secret[s] # None /\ secret'[s] = None /\ SecretOwner(s) = u
        BY <2>5, <3>2 DEF Deletes
      <4>2. Atomic!Own(u, s) /\ vault[u] # None
        BY <2>0, <4>1, OwnIsOwner, OwnerHasVault
      <4>3. Atomic!Remove(u, s)
        BY <2>0, <2>5, <4>1, <4>2, OneSecretStep DEF Deletes, Atomic!Remove
      <4> QED
        BY <1>2, <2>0, <4>3 DEF Atomic!Change
    <3> QED
      BY <3>1, <3>2
  <2>6. ASSUME NEW b \in Backups, Replaces(u, b)
        PROVE  Atomic!Next
    BY <1>2, <2>0, <2>6, RestoreStep DEF Atomic!Change
  <2>7. CASE \E s \in SecretIds : Updates(u, s) \/ Deletes(u, s)
    BY <2>4, <2>5, <2>7
  <2>8. CASE \E b \in Backups : Replaces(u, b)
    BY <2>6, <2>8
  <2>9. CASE \E s \in SecretIds : Adds(u, s)
    BY <2>3, <2>9
  <2> QED
    BY <1>1, <1>3, <2>1, <2>2, <2>7, <2>8, <2>9 DEF Effect
<1> QED
  BY <1>1, <1>3, StepEffects

(* However requests interleave, each handler takes effect at once, as the  *)
(* abstract specification says: the handlers implement AtomicVaults.       *)
THEOREM HandlersAreAtomic == Spec => TakesEffectAtOnce
<1>1. Init => StoreInv /\ NamesUnique /\ Atomic!Init
  BY InitInv DEF Init, NamesUnique, Atomic!Init
<1>2. StoreInv /\ NamesUnique /\ [Next]_vars => (StoreInv /\ NamesUnique)'
  BY NextInv, NamesStep
<1>3. StoreInv /\ StoreInv' /\ NamesUnique' /\ [Next]_vars => [Atomic!Next]_(Atomic!vars)
  BY AtomicStep
<1> QED
  BY <1>1, <1>2, <1>3, PTL DEF Spec, TakesEffectAtOnce, Atomic!Spec
=============================================================================
