-------------------------- MODULE VaultStore_proofs --------------------------
(***************************************************************************)
(* Theorems about VaultStore, for every set of accounts, devices, ids and  *)
(* backups that satisfies the assumptions of that module.                  *)
(***************************************************************************)
EXTENDS VaultStore, TLAPS

(* A request with a given op has the fields of that op.                    *)
LEMMA RequestFields ==
  ASSUME NEW r \in Request
  PROVE  /\ r.user \in Users
         /\ r.op = "create_vault" => r \in CreateVaultRequest
         /\ r.op = "update_vault_key" => r \in RewrapRequest
         /\ r.op = "create_secret" => r \in CreateRequest
         /\ r.op = "update_secret" => r \in UpdateRequest
         /\ r.op = "delete_secret" => r \in DeleteRequest
         /\ r.op = "restore" => r \in RestoreRequest
BY DEF Request, CreateVaultRequest, RewrapRequest, CreateRequest,
       UpdateRequest, DeleteRequest, RestoreRequest

(* Every row and identifier differs from None.                             *)
LEMMA NotNone ==
  /\ \A x \in VaultRow : x # None
  /\ \A x \in SecretRow : x # None
  /\ \A x \in BackupItem : x # None
  /\ \A x \in Call : x # None
  /\ \A x \in VaultIds : x # None
BY NoneAssumption

(* A handler that refuses or answers without writing keeps the types.      *)
LEMMA RefuseType ==
  ASSUME TypeOK, NEW d \in Devices, NEW code \in Codes, Refuse(d, code)
  PROVE  TypeOK'
BY DEF TypeOK, Refuse, Answer

(* A handler that only reads keeps the types.                              *)
LEMMA ProceedType ==
  ASSUME TypeOK, NEW d \in Devices, call[d] # None,
         NEW step \in {"check", "write"},
         NEW held \in VaultIds \cup {None},
         Proceed(d, step, held)
  PROVE  TypeOK'
BY DEF TypeOK, Proceed, Codes, Call

LEMMA CommittedType ==
  ASSUME TypeOK, NEW d \in Devices, call[d] # None, Committed(d)
  PROVE  call' \in [Devices -> Call \cup {None}] /\ answer' \in Codes
BY DEF TypeOK, Committed, Codes, Call

LEMMA AuditType ==
  ASSUME TypeOK, NEW e \in AuditEvent, Audit(e)
  PROVE  audit' \in [AuditEvent -> Nat]
BY DEF TypeOK, Audit

LEMMA InitType == Init => TypeOK
BY DEF Init, TypeOK, Codes

(* The request a pending handler works on, and its vault and secret rows.  *)
LEMMA PendingFields ==
  ASSUME TypeOK, NEW d \in Devices, call[d] # None
  PROVE  /\ call[d] \in Call
         /\ call[d].req \in Request
         /\ call[d].req.user \in Users
         /\ call[d].held \in VaultIds \cup {None}
         /\ vault[call[d].req.user] # None =>
              /\ vault[call[d].req.user] \in VaultRow
              /\ vault[call[d].req.user].id \in VaultIds
<1>1. call[d] \in Call  BY DEF TypeOK
<1>2. call[d].req \in Request /\ call[d].held \in VaultIds \cup {None}
  BY <1>1 DEF Call
<1>3. call[d].req.user \in Users  BY <1>2, RequestFields
<1>4. vault[call[d].req.user] \in VaultRow \cup {None}
  BY <1>3 DEF TypeOK
<1> QED  BY <1>1, <1>2, <1>3, <1>4 DEF VaultRow

(* A type-correct state has only type-correct successors.  Each action is  *)
(* a read, a refusal or a write; only the writes touch the tables.         *)
LEMMA NextType ==
  ASSUME TypeOK, CallsSound, [Next]_vars
  PROVE  TypeOK'
<1>1. ASSUME NEW d \in Devices, NEW r \in Request, Submit(d, r)
      PROVE  TypeOK'
  <2>1. [req |-> r, step |-> IF r.op = "create_vault" THEN "write" ELSE "read",
         held |-> None, overtaken |-> FALSE] \in Call
    BY DEF Call
  <2> QED  BY <1>1, <2>1 DEF Submit, TypeOK, Codes
<1>2. ASSUME NEW d \in Devices, CreateVault(d)  PROVE TypeOK'
  <2>1. call[d] # None /\ call[d].req \in CreateVaultRequest
    BY <1>2, PendingFields, RequestFields DEF CreateVault, Pending
  <2>2. [id |-> call[d].req.id, header |-> call[d].req.header,
         private |-> Private[call[d].req.id]] \in VaultRow
    BY <2>1, StoreAssumption DEF CreateVaultRequest, VaultRow
  <2>3. vault' \in [Users -> VaultRow \cup {None}]
    BY <1>2, <2>1, <2>2 DEF CreateVault, TypeOK
  <2>4. call' \in [Devices -> Call \cup {None}] /\ answer' \in Codes
    BY <1>2, <2>1, CommittedType DEF CreateVault
  <2> QED  BY <1>2, <2>3, <2>4 DEF CreateVault, TypeOK
<1>3. ASSUME NEW d \in Devices,
             CreateVaultRefresh(d) \/ CreateVaultExists(d)
               \/ RewrapRefresh(d) \/ RewrapStale(d)
               \/ CreateRefresh(d) \/ CreateConflict(d)
               \/ UpdateConflict(d) \/ UpdateNameExists(d) \/ UpdateReread(d)
               \/ RestoreConflict(d) \/ RestoreMixed(d)
      PROVE  TypeOK'
  <2>1. PICK code \in Codes : Refuse(d, code)
    BY <1>3 DEF CreateVaultRefresh, CreateVaultExists, RewrapRefresh,
         RewrapStale, CreateRefresh, CreateConflict, UpdateConflict,
         UpdateNameExists, UpdateReread, RestoreConflict, RestoreMixed,
         Refreshed, Codes
  <2> QED  BY <2>1, RefuseType
<1>4. ASSUME NEW d \in Devices,
             RewrapRead(d) \/ CreateRead(d) \/ UpdateReadSecret(d)
               \/ UpdateReadVault(d) \/ DeleteRead(d) \/ RestoreRead(d)
      PROVE  TypeOK'
  <2>1. call[d] # None
    BY <1>4 DEF RewrapRead, CreateRead, UpdateReadSecret, UpdateReadVault,
         DeleteRead, RestoreRead, Pending
  <2>2. \/ \E code \in Codes : Refuse(d, code)
        \/ \E step \in {"check", "write"}, held \in VaultIds \cup {None} :
             Proceed(d, step, held)
    BY <1>4, <2>1, PendingFields DEF RewrapRead, CreateRead, UpdateReadSecret,
         UpdateReadVault, DeleteRead, RestoreRead, Codes
  <2> QED  BY <2>1, <2>2, RefuseType, ProceedType
<1>5. ASSUME NEW d \in Devices, RewrapWrite(d)  PROVE TypeOK'
  <2>1. call[d] # None /\ call[d].req \in RewrapRequest
    BY <1>5, PendingFields, RequestFields DEF RewrapWrite, Pending
  <2>2. vault' \in [Users -> VaultRow \cup {None}]
    BY <1>5, <2>1 DEF RewrapWrite, TypeOK, RewrapRequest, VaultRow
  <2>3. <<"master_key_rewrapped", call[d].held>> \in AuditEvent
    BY <1>5, <2>1, PendingFields DEF RewrapWrite, AuditEvent
  <2>4. audit' \in [AuditEvent -> Nat]
    BY <1>5, <2>3, AuditType DEF RewrapWrite
  <2>5. call' \in [Devices -> Call \cup {None}] /\ answer' \in Codes
    BY <1>5, <2>1, CommittedType DEF RewrapWrite
  <2> QED  BY <1>5, <2>2, <2>4, <2>5 DEF RewrapWrite, TypeOK
<1>6. ASSUME NEW d \in Devices, CreateWrite(d)  PROVE TypeOK'
  <2>1. call[d] # None /\ call[d].req \in CreateRequest
    BY <1>6, PendingFields, RequestFields DEF CreateWrite, Pending
  <2>2. call[d].held \in VaultIds
    <3>1. CallSound(call[d])  BY <2>1 DEF CallsSound
    <3> QED  BY <1>6, <3>1 DEF CreateWrite, CallSound, Pending
  <2>3. secret' \in [SecretIds -> SecretRow \cup {None}]
    <3>1. [vault |-> call[d].held, private |-> call[d].req.private,
           name |-> call[d].req.name, value |-> call[d].req.value,
           version |-> 1] \in SecretRow
      BY <2>1, <2>2 DEF CreateRequest, SecretRow
    <3> QED  BY <1>6, <3>1 DEF CreateWrite, TypeOK
  <2>4. <<"secret_created", call[d].req.id>> \in AuditEvent
    BY <2>1 DEF CreateRequest, AuditEvent
  <2>5. audit' \in [AuditEvent -> Nat]
    BY <1>6, <2>4, AuditType DEF CreateWrite
  <2>6. call' \in [Devices -> Call \cup {None}] /\ answer' \in Codes
    BY <1>6, <2>1, CommittedType DEF CreateWrite
  <2> QED  BY <1>6, <2>3, <2>5, <2>6 DEF CreateWrite, TypeOK
<1>7. ASSUME NEW d \in Devices, UpdateWrite(d)  PROVE TypeOK'
  <2>1. call[d] # None /\ call[d].req \in UpdateRequest
    BY <1>7, PendingFields, RequestFields DEF UpdateWrite, Pending
  <2>2. secret[call[d].req.id] \in SecretRow
    BY <1>7, <2>1 DEF UpdateWrite, VersionMatches, TypeOK, UpdateRequest
  <2>3. secret' \in [SecretIds -> SecretRow \cup {None}]
    BY <1>7, <2>1, <2>2 DEF UpdateWrite, TypeOK, UpdateRequest, SecretRow
  <2>4. <<"secret_updated", call[d].req.id>> \in AuditEvent
    BY <2>1 DEF UpdateRequest, AuditEvent
  <2>5. audit' \in [AuditEvent -> Nat]
    BY <1>7, <2>4, AuditType DEF UpdateWrite
  <2>6. call' \in [Devices -> Call \cup {None}] /\ answer' \in Codes
    BY <1>7, <2>1, CommittedType DEF UpdateWrite
  <2> QED  BY <1>7, <2>3, <2>5, <2>6 DEF UpdateWrite, TypeOK
<1>8. ASSUME NEW d \in Devices, DeleteWrite(d) \/ DeleteMissed(d)
      PROVE  TypeOK'
  <2>1. call[d] # None /\ call[d].req \in DeleteRequest
    BY <1>8, PendingFields, RequestFields DEF DeleteWrite, DeleteMissed, Pending
  <2>2. <<"secret_deleted", call[d].req.id>> \in AuditEvent
    BY <2>1 DEF DeleteRequest, AuditEvent
  <2>3. audit' \in [AuditEvent -> Nat]
    BY <1>8, <2>2, AuditType DEF DeleteWrite, DeleteMissed
  <2>4. secret' \in [SecretIds -> SecretRow \cup {None}]
    BY <1>8 DEF DeleteWrite, DeleteMissed, TypeOK
  <2> QED  BY <1>8, <2>3, <2>4 DEF DeleteWrite, DeleteMissed, Answer, TypeOK, Codes
<1>9. ASSUME NEW d \in Devices, RestoreWrite(d)  PROVE TypeOK'
  <2> DEFINE u == call[d].req.user
             b == call[d].req.backup
             v == call[d].held
  <2>1. call[d] # None /\ call[d].req \in RestoreRequest
    BY <1>9, PendingFields, RequestFields DEF RestoreWrite, Pending
  <2>2. u \in Users /\ b \in Backup
    BY <2>1, BackupAssumption DEF RestoreRequest
  <2>3. vault' \in [Users -> VaultRow \cup {None}]
    BY <1>9, <2>2 DEF RestoreWrite, TypeOK, Backup, VaultRow
  <2>4. ASSUME NEW s \in SecretIds
        PROVE  Restored(b, v)[s] \in SecretRow \cup {None}
    <3>1. b.secrets[s] \in BackupItem \cup {None} /\ b.id \in VaultIds
      BY <2>2 DEF Backup
    <3>2. secret[s] \in SecretRow \cup {None}  BY DEF TypeOK
    <3> QED  BY <3>1, <3>2 DEF Restored, BackupItem, SecretRow
  <2>5. secret' \in [SecretIds -> SecretRow \cup {None}]
    BY <1>9, <2>4 DEF RestoreWrite, Restored
  <2>6. <<"vault_restored", b.id>> \in AuditEvent
    BY <2>2 DEF Backup, AuditEvent
  <2>7. audit' \in [AuditEvent -> Nat]
    BY <1>9, <2>6, AuditType DEF RestoreWrite
  <2>8. ASSUME NEW e \in Devices PROVE Overtake(d, u)[e] \in Call \cup {None}
    <3>1. call[e] \in Call \cup {None}  BY DEF TypeOK
    <3> QED  BY <3>1 DEF Overtake, Call
  <2>9. call' \in [Devices -> Call \cup {None}]
    BY <1>9, <2>8 DEF RestoreWrite, Overtake
  <2> QED  BY <1>9, <2>3, <2>5, <2>7, <2>9 DEF RestoreWrite, TypeOK, Codes
<1>10. CASE UNCHANGED vars  BY <1>10 DEF vars, TypeOK
<1> QED
  BY <1>1, <1>2, <1>3, <1>4, <1>5, <1>6, <1>7, <1>8, <1>9, <1>10
  DEF Next, Handle

(* What a handler remembers stays sound while other handlers take steps.   *)
LEMMA CallsFrame ==
  ASSUME StoreInv, TypeOK', NEW d \in Devices,
         \A u \in Users : vault[u] # None => vault'[u] # None,
         \A e \in Devices \ {d} :
           call'[e] = call[e] \/ (/\ call[e] # None
                                 /\ call'[e] = [call[e] EXCEPT !.overtaken = TRUE]),
         (call[d] # None => CallSound(call[d]))'
  PROVE  CallsSound'
<1> SUFFICES ASSUME NEW e \in Devices \ {d}, (call[e] # None)'
             PROVE  CallSound(call[e])'
  BY DEF CallsSound
<1>1. call[e] # None  BY DEF StoreInv
<1>2. CallSound(call[e])  BY <1>1 DEF StoreInv, CallsSound
<1>3. call[e].req.user \in Users  BY <1>1, PendingFields DEF StoreInv
<1>4. call[e] \in Call  BY <1>1, PendingFields DEF StoreInv
<1>5. /\ call'[e].req = call[e].req /\ call'[e].step = call[e].step
      /\ call'[e].held = call[e].held
  BY <1>4 DEF Call
<1>6. vault[call[e].req.user] # None => vault'[call[e].req.user] # None
  BY <1>3
<1> QED  BY <1>2, <1>5, <1>6 DEF CallSound

(* A handler that answers without writing keeps the invariant.             *)
LEMMA RefuseInv ==
  ASSUME StoreInv, TypeOK', NEW d \in Devices,
         NEW code \in Codes \ {"500 assert_vault"}, Refuse(d, code)
  PROVE  StoreInv'
<1>1. VaultsOwned' /\ SecretsInMode' /\ ModeMatches' /\ VaultNeverMissing'
  BY DEF StoreInv, Refuse, Answer, VaultsOwned, SecretsInMode, ModeMatches,
         VaultNeverMissing
<1>2. call'[d] = None /\ \A e \in Devices \ {d} : call'[e] = call[e]
  BY DEF Refuse, Answer, StoreInv, TypeOK
<1>3. UNCHANGED vault  BY DEF Refuse
<1>4. CallsSound'  BY <1>2, <1>3, CallsFrame
<1> QED  BY <1>1, <1>4 DEF StoreInv

(* A handler that reads keeps it if what it has read is sound.             *)
LEMMA ProceedInv ==
  ASSUME StoreInv, TypeOK', NEW d \in Devices, call[d] # None,
         NEW step, NEW held, Proceed(d, step, held),
         CallSound([call[d] EXCEPT !.step = step, !.held = held])
  PROVE  StoreInv'
<1>1. VaultsOwned' /\ SecretsInMode' /\ ModeMatches' /\ VaultNeverMissing'
  BY DEF StoreInv, Proceed, VaultsOwned, SecretsInMode, ModeMatches,
         VaultNeverMissing
<1>2. /\ call'[d] = [call[d] EXCEPT !.step = step, !.held = held]
      /\ \A e \in Devices \ {d} : call'[e] = call[e]
  BY DEF Proceed, StoreInv, TypeOK
<1>3. UNCHANGED vault  BY DEF Proceed
<1>4. CallSound(call[d])'  BY <1>2, <1>3 DEF CallSound
<1>5. CallsSound'  BY <1>2, <1>3, <1>4, CallsFrame
<1> QED  BY <1>1, <1>5 DEF StoreInv

(* A handler that has written reads its row back with what it remembered.  *)
LEMMA CommittedInv ==
  ASSUME StoreInv, TypeOK', NEW d \in Devices, call[d] # None,
         call[d].step = "write", call[d].req.op # "update_vault_key"
           \/ call[d].held \in VaultIds, Committed(d),
         \A u \in Users : vault[u] # None => vault'[u] # None
  PROVE  CallsSound' /\ VaultNeverMissing'
<1>1. /\ call'[d] = [call[d] EXCEPT !.step = "reread"]
      /\ \A e \in Devices \ {d} : call'[e] = call[e]
  BY DEF Committed, StoreInv, TypeOK
<1>2. CallSound(call[d])  BY DEF StoreInv, CallsSound
<1>3. call[d] \in Call  BY PendingFields DEF StoreInv
<1>4. /\ call'[d].req = call[d].req /\ call'[d].step = "reread"
      /\ call'[d].held = call[d].held
  BY <1>1, <1>3 DEF Call
<1>5. CallSound(call[d])'  BY <1>2, <1>4 DEF CallSound
<1> QED  BY <1>1, <1>5, CallsFrame DEF VaultNeverMissing, Committed

(* The secret that a handler has found for its account is the account's.   *)
LEMMA FoundOwner ==
  ASSUME StoreInv, NEW u \in Users, NEW s \in SecretIds, FoundForUser(u, s)
  PROVE  SecretOwner(s) = u /\ vault[u] # None
<1>1. secret[s] # None /\ vault[u] # None /\ vault[u].id = secret[s].vault
  BY DEF FoundForUser
<1>2. SecretOwner(s) \in Users  BY StoreAssumption DEF SecretOwner
<1>3. /\ vault[SecretOwner(s)] # None
      /\ vault[SecretOwner(s)].id = secret[s].vault
  BY <1>1 DEF StoreInv, ModeMatches
<1>4. VaultOwner[vault[u].id] = u
  BY <1>1 DEF StoreInv, VaultsOwned
<1>5. VaultOwner[vault[SecretOwner(s)].id] = SecretOwner(s)
  BY <1>2, <1>3 DEF StoreInv, VaultsOwned
<1> QED  BY <1>1, <1>3, <1>4, <1>5

(* The invariant is inductive.                                             *)
LEMMA NextInv ==
  ASSUME StoreInv, [Next]_vars
  PROVE  StoreInv'
<1>0. TypeOK /\ TypeOK'  BY NextType DEF StoreInv
<1>1. ASSUME NEW d \in Devices, NEW r \in Request, Submit(d, r)
      PROVE  StoreInv'
  <2>1. /\ call'[d].req = r /\ call'[d].held = None
        /\ call'[d].step = IF r.op = "create_vault" THEN "write" ELSE "read"
        /\ \A e \in Devices \ {d} : call'[e] = call[e]
    BY <1>0, <1>1 DEF Submit, TypeOK
  <2>2. CallSound(call[d])'
    BY <1>1, <2>1 DEF CallSound, Submit, Admissible, NamedInMode
  <2>3. CallsSound'  BY <1>0, <1>1, <2>1, <2>2, CallsFrame DEF Submit
  <2> QED
    BY <1>0, <1>1, <2>3 DEF StoreInv, Submit, VaultsOwned, SecretsInMode,
         ModeMatches, VaultNeverMissing
<1>2. ASSUME NEW d \in Devices, CreateVault(d)  PROVE StoreInv'
  <2> DEFINE r == call[d].req
  <2>1. call[d] # None /\ r \in CreateVaultRequest /\ call[d].step = "write"
    BY <1>0, <1>2, PendingFields, RequestFields DEF CreateVault, Pending
  <2>2. VaultOwner[r.id] = r.user
    BY <1>2, <2>1 DEF StoreInv, CallsSound, CallSound, CreateVault, Pending
  <2>3. /\ vault[r.user] = None
        /\ vault'[r.user].id = r.id /\ vault'[r.user].private = Private[r.id]
        /\ \A u \in Users \ {r.user} : vault'[u] = vault[u]
        /\ UNCHANGED secret
    BY <1>0, <1>2, <2>1 DEF CreateVault, TypeOK, CreateVaultRequest
  <2>4. VaultsOwned'  BY <2>2, <2>3 DEF StoreInv, VaultsOwned
  <2>5. SecretsInMode' /\ ModeMatches'
    <3>1. \A s \in SecretIds : SecretOwner(s) \in Users
      BY StoreAssumption DEF SecretOwner
    <3> QED  BY <2>3, <3>1 DEF StoreInv, SecretsInMode, ModeMatches, SecretOwner
  <2>6. \A u \in Users : vault[u] # None => vault'[u] # None  BY <2>3
  <2>7. r.op # "update_vault_key"  BY <2>1 DEF CreateVaultRequest
  <2>8. CallsSound' /\ VaultNeverMissing'
    BY <1>0, <1>2, <2>1, <2>6, <2>7, CommittedInv DEF CreateVault
  <2> QED  BY <1>0, <2>4, <2>5, <2>8 DEF StoreInv
<1>3. ASSUME NEW d \in Devices,
             CreateVaultRefresh(d) \/ CreateVaultExists(d)
               \/ RewrapRefresh(d) \/ RewrapStale(d)
               \/ CreateRefresh(d) \/ CreateConflict(d)
               \/ UpdateConflict(d) \/ UpdateNameExists(d) \/ UpdateReread(d)
               \/ RestoreConflict(d) \/ RestoreMixed(d)
      PROVE  StoreInv'
  <2>1. PICK code \in Codes \ {"500 assert_vault"} : Refuse(d, code)
    BY <1>3 DEF CreateVaultRefresh, CreateVaultExists, RewrapRefresh,
         RewrapStale, CreateRefresh, CreateConflict, UpdateConflict,
         UpdateNameExists, UpdateReread, RestoreConflict, RestoreMixed,
         Refreshed, Codes
  <2> QED  BY <1>0, <2>1, RefuseInv
<1>4. ASSUME NEW d \in Devices,
             RewrapRead(d) \/ CreateRead(d) \/ UpdateReadSecret(d)
               \/ UpdateReadVault(d) \/ DeleteRead(d) \/ RestoreRead(d)
      PROVE  StoreInv'
  <2> DEFINE r == call[d].req
             Read(step, held) == [call[d] EXCEPT !.step = step, !.held = held]
  <2>1. call[d] # None /\ call[d] \in Call /\ r \in Request /\ r.user \in Users
    BY <1>0, <1>4, PendingFields DEF RewrapRead, CreateRead, UpdateReadSecret,
         UpdateReadVault, DeleteRead, RestoreRead, Pending
  <2>2. CallSound(call[d])  BY <2>1 DEF StoreInv, CallsSound
  <2>3. vault[r.user] # None =>
          /\ vault[r.user].id \in VaultIds /\ VaultOwner[vault[r.user].id] = r.user
          /\ vault[r.user].private = Private[vault[r.user].id]
    BY <1>0, <2>1, PendingFields DEF StoreInv, VaultsOwned
  <2>4. ASSUME NEW step, NEW held
        PROVE  /\ Read(step, held).req = r /\ Read(step, held).step = step
               /\ Read(step, held).held = held
    BY <2>1 DEF Call
  <2>5. \/ \E code \in Codes \ {"500 assert_vault"} : Refuse(d, code)
        \/ \E step, held : Proceed(d, step, held) /\ CallSound(Read(step, held))
    <3> DEFINE id == vault[r.user].id
    <3>1. CASE RewrapRead(d)
      <4>1. vault[r.user] # None => CallSound(Read("write", id))
        BY <2>2, <2>3, <2>4, <3>1 DEF RewrapRead, Pending, CallSound
      <4> QED  BY <3>1, <4>1 DEF RewrapRead, Codes
    <3>2. CASE CreateRead(d)
      <4>1. vault[r.user] # None /\ vault[r.user].private = r.private
              => CallSound(Read("write", id))
        BY <2>2, <2>3, <2>4, <3>2 DEF CreateRead, Pending, CallSound
      <4> QED  BY <3>2, <4>1 DEF CreateRead, Codes
    <3>3. CASE UpdateReadSecret(d)
      <4>1. r.id \in SecretIds /\ r.op = "update_secret"
        BY <2>1, <3>3, RequestFields DEF UpdateReadSecret, Pending, UpdateRequest
      <4>2. FoundForUser(r.user, r.id) => CallSound(Read("check", None))
        BY <2>1, <2>2, <2>4, <4>1, FoundOwner DEF CallSound
      <4> QED  BY <3>3, <4>2 DEF UpdateReadSecret, Codes
    <3>4. CASE UpdateReadVault(d)
      <4>1. vault[r.user] # None /\ CallSound(Read("write", id))
        BY <2>2, <2>4, <3>4 DEF UpdateReadVault, Pending, CallSound
      <4> QED  BY <3>4, <4>1 DEF UpdateReadVault, Codes
    <3>5. CASE DeleteRead(d)
      <4>1. r.id \in SecretIds /\ r.op = "delete_secret"
        BY <2>1, <3>5, RequestFields DEF DeleteRead, Pending, DeleteRequest
      <4>2. FoundForUser(r.user, r.id) => CallSound(Read("write", None))
        BY <2>1, <2>2, <2>4, <4>1, FoundOwner DEF CallSound
      <4> QED  BY <3>5, <4>2 DEF DeleteRead, Codes
    <3>6. CASE RestoreRead(d)
      <4> DEFINE h == IF vault[r.user] = None THEN None ELSE id
      <4>0. h # None => VaultOwner[h] = r.user  BY <2>3
      <4>1. r.backup.source = r.user => CallSound(Read("write", h))
        <5>1. r.op = "restore"  BY <3>6 DEF RestoreRead, Pending
        <5> HIDE DEF h
        <5> QED  BY <2>4, <4>0, <5>1 DEF CallSound
      <4> QED  BY <3>6, <4>1 DEF RestoreRead, Codes
    <3> QED  BY <1>4, <3>1, <3>2, <3>3, <3>4, <3>5, <3>6
  <2> QED  BY <1>0, <2>1, <2>5, RefuseInv, ProceedInv
<1>5. ASSUME NEW d \in Devices, RewrapWrite(d)  PROVE StoreInv'
  <2> DEFINE r == call[d].req
  <2>1. call[d] # None /\ r \in RewrapRequest /\ call[d].step = "write"
    BY <1>0, <1>5, PendingFields, RequestFields DEF RewrapWrite, Pending
  <2>2. vault[r.user] \in VaultRow /\ vault'[r.user] \in VaultRow
    BY <1>0, <1>5, <2>1 DEF RewrapWrite, TypeOK, RewrapRequest, VaultRow
  <2>3. /\ vault[r.user] # None
        /\ vault'[r.user].id = vault[r.user].id
        /\ vault'[r.user].private = vault[r.user].private
        /\ \A u \in Users \ {r.user} : vault'[u] = vault[u]
        /\ UNCHANGED secret
    BY <1>0, <1>5, <2>1, <2>2 DEF RewrapWrite, TypeOK, RewrapRequest, VaultRow
  <2>4. vault'[r.user] # None  BY <2>2, NotNone
  <2>5. VaultsOwned'  BY <2>3 DEF StoreInv, VaultsOwned
  <2>6. SecretsInMode' /\ ModeMatches'
    <3>1. \A s \in SecretIds : SecretOwner(s) \in Users
      BY StoreAssumption DEF SecretOwner
    <3> QED
      BY <2>3, <2>4, <3>1 DEF StoreInv, SecretsInMode, ModeMatches, SecretOwner
  <2>7. call[d].held \in VaultIds
    BY <1>0, <1>5, <2>1, PendingFields DEF RewrapWrite
  <2>8. \A u \in Users : vault[u] # None => vault'[u] # None
    BY <2>3, <2>4
  <2>9. CallsSound' /\ VaultNeverMissing'
    BY <1>0, <1>5, <2>1, <2>7, <2>8, CommittedInv DEF RewrapWrite
  <2> QED  BY <1>0, <2>5, <2>6, <2>9 DEF StoreInv
<1>6. ASSUME NEW d \in Devices, CreateWrite(d)  PROVE StoreInv'
  <2> DEFINE r == call[d].req
             v == call[d].held
  <2>1. call[d] # None /\ r \in CreateRequest /\ call[d].step = "write"
    BY <1>0, <1>6, PendingFields, RequestFields DEF CreateWrite, Pending
  <2>2. /\ SecretOwner(r.id) = r.user /\ r.private = Private[SecretHome[r.id]]
        /\ v \in VaultIds /\ VaultOwner[v] = r.user /\ Private[v] = r.private
    <3>1. CallSound(call[d])  BY <2>1 DEF StoreInv, CallsSound
    <3> QED  BY <2>1, <3>1 DEF CallSound, CreateRequest
  <2>3. /\ secret'[r.id].vault = v /\ secret'[r.id].private = r.private
        /\ \A s \in SecretIds \ {r.id} : secret'[s] = secret[s]
        /\ UNCHANGED vault
    BY <1>0, <1>6, <2>1 DEF CreateWrite, TypeOK, CreateRequest
  <2>4. vault[r.user] # None /\ vault[r.user].id = v
    <3>1. PICK u \in Users : vault[u] # None /\ vault[u].id = v
      BY <1>6 DEF CreateWrite, InsertConflict, VaultExists
    <3> QED  BY <2>2, <3>1 DEF StoreInv, VaultsOwned
  <2>5. vault[r.user].private = r.private
    BY <2>1, <2>2, <2>4 DEF StoreInv, VaultsOwned, CreateRequest
  <2>6. SecretsInMode' /\ ModeMatches' /\ VaultsOwned'
    BY <2>1, <2>2, <2>3, <2>4, <2>5
    DEF StoreInv, SecretsInMode, ModeMatches, SecretOwner, VaultsOwned
  <2>7. r.op # "update_vault_key"  BY <2>1 DEF CreateRequest
  <2>8. CallsSound' /\ VaultNeverMissing'
    BY <1>0, <1>6, <2>1, <2>3, <2>7, CommittedInv DEF CreateWrite
  <2> QED  BY <1>0, <2>6, <2>8 DEF StoreInv
<1>7. ASSUME NEW d \in Devices, UpdateWrite(d)  PROVE StoreInv'
  <2> DEFINE r == call[d].req
  <2>1. call[d] # None /\ r \in UpdateRequest /\ call[d].step = "write"
    BY <1>0, <1>7, PendingFields, RequestFields DEF UpdateWrite, Pending
  <2>2. r.private = Private[SecretHome[r.id]]
    <3>1. CallSound(call[d])  BY <2>1 DEF StoreInv, CallsSound
    <3> QED  BY <2>1, <3>1 DEF CallSound, UpdateRequest
  <2>3. /\ secret[r.id] # None
        /\ secret'[r.id].vault = secret[r.id].vault
        /\ secret'[r.id].private = r.private
        /\ \A s \in SecretIds \ {r.id} : secret'[s] = secret[s]
        /\ UNCHANGED vault
    BY <1>0, <1>7, <2>1 DEF UpdateWrite, VersionMatches, TypeOK, UpdateRequest
  <2>4. secret[r.id].private = r.private
    BY <2>1, <2>2, <2>3 DEF StoreInv, SecretsInMode, UpdateRequest
  <2>5. SecretsInMode' /\ ModeMatches' /\ VaultsOwned'
    BY <2>2, <2>3, <2>4
    DEF StoreInv, SecretsInMode, ModeMatches, SecretOwner, VaultsOwned
  <2>6. r.op # "update_vault_key"  BY <2>1 DEF UpdateRequest
  <2>7. CallsSound' /\ VaultNeverMissing'
    BY <1>0, <1>7, <2>1, <2>3, <2>6, CommittedInv DEF UpdateWrite
  <2> QED  BY <1>0, <2>5, <2>7 DEF StoreInv
<1>8. ASSUME NEW d \in Devices, DeleteWrite(d) \/ DeleteMissed(d)
      PROVE  StoreInv'
  <2>1. /\ \A s \in SecretIds : secret'[s] = secret[s] \/ secret'[s] = None
        /\ UNCHANGED vault /\ answer' = "204"
        /\ call'[d] = None /\ \A e \in Devices \ {d} : call'[e] = call[e]
    BY <1>0, <1>8 DEF DeleteWrite, DeleteMissed, Answer, TypeOK
  <2>2. SecretsInMode' /\ ModeMatches' /\ VaultsOwned' /\ VaultNeverMissing'
    BY <2>1 DEF StoreInv, SecretsInMode, ModeMatches, SecretOwner, VaultsOwned,
       VaultNeverMissing
  <2>3. CallsSound'  BY <1>0, <2>1, CallsFrame
  <2> QED  BY <1>0, <2>2, <2>3 DEF StoreInv
<1>9. ASSUME NEW d \in Devices, RestoreWrite(d)  PROVE StoreInv'
  <2> DEFINE u == call[d].req.user
             b == call[d].req.backup
             v == call[d].held
  <2>1. call[d] # None /\ call[d].req \in RestoreRequest /\ call[d].step = "write"
    BY <1>0, <1>9, PendingFields, RequestFields DEF RestoreWrite, Pending
  <2>2. /\ u \in Users /\ b \in Backups /\ b \in Backup
        /\ VaultOwner[b.id] = b.source /\ b.private = Private[b.id]
        /\ \A s \in SecretIds : b.secrets[s] # None => SecretHome[s] = b.id
    BY <2>1, BackupAssumption DEF RestoreRequest
  <2>3. b.source = u
    BY <1>9, <2>1 DEF StoreInv, CallsSound, CallSound, RestoreWrite, Pending
  <2>4. /\ vault' = [vault EXCEPT ![u] = [id |-> b.id, header |-> b.header,
                                          private |-> b.private]]
        /\ secret' = Restored(b, v) /\ call' = Overtake(d, u) /\ answer' = "201"
        /\ ~ MixedModes(b) /\ ~ RestoreConflicts(u, b, v)
    BY <1>9 DEF RestoreWrite
  <2>5. /\ vault'[u].id = b.id /\ vault'[u].private = b.private
        /\ \A o \in Users \ {u} : vault'[o] = vault[o]
    BY <1>0, <2>2, <2>4 DEF TypeOK
  <2>6. vault'[u] # None
    <3>1. [id |-> b.id, header |-> b.header, private |-> b.private] \in VaultRow
      BY <2>2 DEF Backup, VaultRow
    <3> QED  BY <1>0, <2>2, <2>4, <3>1, NotNone DEF TypeOK
  <2>7. VaultsOwned'  BY <2>2, <2>3, <2>5 DEF StoreInv, VaultsOwned
  <2>8. ASSUME NEW s \in SecretIds, b.secrets[s] # None
        PROVE  /\ secret'[s].vault = b.id /\ secret'[s].private = b.private
               /\ SecretOwner(s) = u /\ Private[SecretHome[s]] = b.private
    BY <2>2, <2>3, <2>4, <2>8 DEF Restored, MixedModes, SecretOwner
  <2>9. ASSUME NEW s \in SecretIds, b.secrets[s] = None, (secret[s] # None)'
        PROVE  /\ secret'[s] = secret[s] /\ secret[s] # None
               /\ SecretOwner(s) # u
    <3>1. secret'[s] = secret[s] /\ secret[s] # None /\ secret[s].vault # v
      BY <2>4, <2>9 DEF Restored, Survives
    <3>2. ASSUME SecretOwner(s) = u  PROVE FALSE
      <4>1. vault[u] # None /\ vault[u].id = secret[s].vault
        BY <3>1, <3>2 DEF StoreInv, ModeMatches
      <4>2. v # None /\ vault[u].id = v
        BY <2>4, <4>1 DEF RestoreConflicts
      <4> QED  BY <3>1, <4>1, <4>2
    <3> QED  BY <3>1, <3>2
  <2>10. SecretsInMode'
    BY <2>8, <2>9 DEF StoreInv, SecretsInMode
  <2>11. ModeMatches'
    <3> SUFFICES ASSUME NEW s \in SecretIds, (secret[s] # None)'
                 PROVE  (LET o == SecretOwner(s) IN
                           /\ vault[o] # None /\ vault[o].id = secret[s].vault
                           /\ vault[o].private = secret[s].private)'
      BY DEF ModeMatches
    <3>1. CASE b.secrets[s] # None
      BY <2>5, <2>6, <2>8, <3>1
    <3>2. CASE b.secrets[s] = None
      <4>1. SecretOwner(s) \in Users \ {u}
        BY <2>9, <3>2, StoreAssumption DEF SecretOwner
      <4> QED  BY <2>5, <2>9, <3>2, <4>1 DEF StoreInv, ModeMatches, SecretOwner
    <3> QED  BY <3>1, <3>2
  <2>12. \A o \in Users : vault[o] # None => vault'[o] # None  BY <2>5, <2>6
  <2>13. /\ call'[d] = None
         /\ \A e \in Devices \ {d} :
              call'[e] = call[e] \/ (/\ call[e] # None
                                    /\ call'[e] = [call[e] EXCEPT !.overtaken = TRUE])
    BY <2>4 DEF Overtake
  <2>14. CallsSound'  BY <1>0, <2>12, <2>13, CallsFrame
  <2> QED  BY <1>0, <2>4, <2>7, <2>10, <2>11, <2>14 DEF StoreInv, VaultNeverMissing
<1>10. CASE UNCHANGED vars
  BY <1>0, <1>10 DEF vars, StoreInv, VaultsOwned, SecretsInMode, ModeMatches,
     CallsSound, CallSound, VaultNeverMissing
<1> QED
  BY <1>1, <1>2, <1>3, <1>4, <1>5, <1>6, <1>7, <1>8, <1>9, <1>10
  DEF Next, Handle

LEMMA InitInv == Init => StoreInv
BY InitType DEF Init, StoreInv, TypeOK, VaultsOwned, SecretsInMode, ModeMatches,
   CallsSound, VaultNeverMissing

(* The tables and the requests under way have their types, always.         *)
THEOREM TypeCorrect == Spec => []TypeOK
<1>1. StoreInv /\ [Next]_vars => StoreInv'  BY NextInv
<1>2. StoreInv => TypeOK  BY DEF StoreInv
<1> QED  BY <1>1, <1>2, InitInv, PTL DEF Spec

(* A stored secret always hangs from its account's vault, in its mode.     *)
THEOREM ModesAlwaysMatch == Spec => []ModeMatches
<1>1. StoreInv /\ [Next]_vars => StoreInv'  BY NextInv
<1>2. StoreInv => ModeMatches  BY DEF StoreInv
<1> QED  BY <1>1, <1>2, InitInv, PTL DEF Spec

(* The first assertion of update_secret never fails.                       *)
THEOREM AssertVaultHolds == Spec => []VaultNeverMissing
<1>1. StoreInv /\ [Next]_vars => StoreInv'  BY NextInv
<1>2. StoreInv => VaultNeverMissing  BY DEF StoreInv
<1> QED  BY <1>1, <1>2, InitInv, PTL DEF Spec
=============================================================================
