-------------------------- MODULE VaultClient_proofs --------------------------
(***************************************************************************)
(* Theorems about VaultClient, for every set of users, devices, processes, *)
(* ids, names and any use of the commands.                                 *)
(*                                                                         *)
(* The argument is about whose a key is.  A vault keeps its id, and with   *)
(* it its key, from its creation on, whatever is rotated or restored; so a *)
(* header, a backup or a key that a command has read stays that of its     *)
(* account.  What may go wrong is only that an agent holds the key of      *)
(* another account than the one a command works for.                       *)
(***************************************************************************)
EXTENDS VaultClient, TLAPS

(* The row is a version of the vault of u.                                 *)
VaultOf(u, row) ==
  vault[u] # None /\ row.id = vault[u].id /\ row.header.key = row.id /\ row.private = Private[row.id]
KeyOf(u, k) == vault[u] # None /\ k = vault[u].id

(* Records of one vault have its mode and are told apart by their names.   *)
RowsSound(t) ==
  /\ \A s \in SecretIds : t[s] # None => t[s].private = Private[t[s].vault]
  /\ \A r, s \in SecretIds :
       r # s /\ t[r] # None /\ t[s] # None /\ t[r].vault = t[s].vault => t[r].name # t[s].name

TablesSound ==
  /\ \A u \in Users : vault[u] # None => VaultOf(u, vault[u])
  /\ \A u, o \in Users : u # o /\ vault[u] # None /\ vault[o] # None => vault[u].id # vault[o].id
  /\ RowsSound(secret)

FileSound ==
  file # None =>
    /\ VaultOf(file.user, file.vault)
    /\ RowsSound(file.records)
    /\ \A s \in SecretIds : file.records[s] # None => file.records[s].vault = file.vault.id

(* What a command has at each of its steps.                                *)
CommandSound(c) ==
  /\ c.op \notin {"lock", "logout"} => c.user # None
  /\ c.header # None => c.user # None /\ VaultOf(c.user, c.header)
  /\ c.op \in {"passwd", "export"} /\ c.step = "write" => c.header # None
  /\ c.op \in DataOps /\ c.step \in {"list", "write"} => c.header # None
  /\ c.op \in DataOps /\ c.step \in {"meta", "list", "write"} => c.key # None
  /\ c.op \in {"init", "unlock"} /\ c.step = "deliver" => KeyOf(c.user, c.key)
  /\ c.op \in {"update", "remove"} /\ c.step = "write" => c.id # None /\ c.row # None

CommandsSound == \A p \in Procs : proc[p] # None => CommandSound(proc[p])

KeysOwned == \A d \in Devices : agentKey[d] # None => \E u \in Users : KeyOf(u, agentKey[d])

ClientInv == TypeOK /\ TablesSound /\ FileSound /\ CommandsSound /\ KeysOwned

(* What makes records readable.                                            *)
Sealed(t) == \A s \in SecretIds : t[s] # None => t[s].value.key = t[s].vault
DataKeys ==
  \A p \in Procs :
    proc[p] # None /\ proc[p].op \in DataOps /\ proc[p].key # None =>
      KeyOf(proc[p].user, proc[p].key)
ReadInv == Sealed(secret) /\ (file # None => Sealed(file.records)) /\ DataKeys

(* The command has changed the session and will lock the agent next: a     *)
(* login, or a GUI that has met an expired session.                        *)
Locks(c) ==
  \/ c.op = "login" /\ c.step = "lock"
  \/ c.op # "logout" /\ c.step = "relock"
Locking(p) == proc[p] # None /\ Locks(proc[p])

(* One command at a time on each device.                                   *)
CommandAlone(p) ==
  LET d == DeviceOf[p]
      c == proc[p]
  IN  /\ c.op \notin {"login", "switch"} /\ c.step # "relock" => c.user = session[d]
      /\ c.op = "login" /\ c.step = "lock" => session[d] # None
      /\ c.step \in {"clear", "activate"} => agentKey[d] = None
DeviceSound(d) ==
  agentKey[d] # None =>
    \/ session[d] # None /\ KeyOf(session[d], agentKey[d])
    \/ \E p \in Procs : DeviceOf[p] = d /\ Locking(p)
SessionInv ==
  /\ \A p \in Procs : proc[p] # None => CommandAlone(p)
  /\ \A d \in Devices : DeviceSound(d)

(* Until there is a backup, a record that has changed since it was read    *)
(* has a later version, or is gone for good.                               *)
VersionsGrow ==
  file = None =>
    \A p \in Procs :
      proc[p] # None /\ proc[p].id # None =>
        \/ secret[proc[p].id] = None
        \/ secret[proc[p].id] = proc[p].row
        \/ proc[p].row # None /\ secret[proc[p].id].version > proc[p].row.version
-----------------------------------------------------------------------------
LEMMA NotNone ==
  /\ \A x \in Users \cup Procs \cup VaultIds \cup SecretIds : x # None
  /\ \A x \in VaultRow : x # None
  /\ \A x \in SecretRow : x # None
  /\ \A x \in Command : x # None
  /\ \A x \in BackupFile : x # None
BY NoneAssumption

LEMMA CommandFields ==
  ASSUME NEW c \in Command
  PROVE  /\ c.op \in AllOps /\ c.step \in Steps /\ c.user \in Users \cup {None}
         /\ c.name \in Names /\ c.key \in VaultIds \cup {None}
         /\ c.header \in VaultRow \cup {None} /\ c.id \in SecretIds \cup {None}
         /\ c.row \in SecretRow \cup {None}
BY DEF Command

LEMMA RowFields ==
  /\ \A r \in VaultRow : r.id \in VaultIds /\ r.header \in Headers /\ r.private \in BOOLEAN
  /\ \A r \in VaultRow : r.header.key \in VaultIds /\ r.header.pw \in Passwords
  /\ \A r \in SecretRow : /\ r.vault \in VaultIds /\ r.private \in BOOLEAN /\ r.name \in Names
                          /\ r.value \in Values /\ r.version \in Nat \ {0}
BY DEF VaultRow, Headers, SecretRow

LEMMA ProcFields ==
  ASSUME ClientInv, NEW p \in Procs
  PROVE  /\ DeviceOf[p] \in Devices /\ proc \in [Procs -> Command \cup {None}]
         /\ proc[p] # None => proc[p] \in Command /\ CommandSound(proc[p])
BY ClientAssumption DEF ClientAssumption, ClientInv, TypeOK, CommandsSound

(* What the server keeps: every vault has the id it was created with.      *)
KeepsVaults ==
  \A u \in Users : vault[u] # None => vault'[u] # None /\ vault'[u].id = vault[u].id

ServerSafe ==
  /\ vault' \in [Users -> VaultRow \cup {None}]
  /\ secret' \in [SecretIds -> SecretRow \cup {None}]
  /\ TablesSound' /\ KeepsVaults

LEMMA Kept ==
  ASSUME KeepsVaults, NEW u \in Users
  PROVE  /\ \A row : VaultOf(u, row) => VaultOf(u, row)'
         /\ \A k : KeyOf(u, k) => KeyOf(u, k)'
BY DEF KeepsVaults, VaultOf, KeyOf

LEMMA CommandKept ==
  ASSUME KeepsVaults, NEW c \in Command, CommandSound(c)
  PROVE  CommandSound(c)'
<1>1. c.user # None => c.user \in Users
  BY CommandFields
<1>2. c.header # None => VaultOf(c.user, c.header)'
  BY <1>1, Kept DEF CommandSound
<1>3. c.op \in {"init", "unlock"} /\ c.step = "deliver" => KeyOf(c.user, c.key)'
  BY <1>1, Kept DEF CommandSound
<1> QED
  BY <1>2, <1>3 DEF CommandSound

LEMMA SameServer ==
  ASSUME ClientInv, UNCHANGED server
  PROVE  ServerSafe
<1>1. vault' = vault /\ secret' = secret
  BY DEF server
<1> QED
  BY <1>1 DEF ServerSafe, ClientInv, TypeOK, TablesSound, RowsSound, VaultOf, KeepsVaults

(* A command goes on, or ends.                                             *)
Goes(p) ==
  \E c \in Command \cup {None} : /\ proc' = [proc EXCEPT ![p] = c]
                                 /\ c # None => CommandSound(c)'

LEMMA GoesSound ==
  ASSUME ClientInv, KeepsVaults, NEW p \in Procs, Goes(p)
  PROVE  /\ proc' \in [Procs -> Command \cup {None}] /\ CommandsSound'
         /\ \A q \in Procs : q # p => proc'[q] = proc[q]
<1>1. PICK c \in Command \cup {None} : /\ proc' = [proc EXCEPT ![p] = c]
                                       /\ c # None => CommandSound(c)'
  BY DEF Goes
<1>2. proc \in [Procs -> Command \cup {None}]
  BY ProcFields
<1>3. ASSUME NEW q \in Procs, proc'[q] # None
      PROVE  CommandSound(proc[q])'
  <2>1. CASE q = p
    BY <1>1, <1>2, <1>3, <2>1 DEF CommandSound, VaultOf, KeyOf
  <2>2. CASE q # p
    <3>1. PICK c2 \in Command : proc'[q] = c2 /\ proc[q] = c2 /\ CommandSound(proc[q])
      BY <1>1, <1>2, <1>3, <2>2, ProcFields
    <3>2. CommandSound(c2)
      BY <3>1
    <3>3. CommandSound(c2)'
      BY <3>2, CommandKept
    <3> QED
      BY <3>1, <3>3 DEF CommandSound, VaultOf, KeyOf
  <2> QED
    BY <2>1, <2>2
<1>4. CommandsSound'
  BY <1>3 DEF CommandsSound
<1> QED
  BY <1>1, <1>2, <1>4

LEMMA EndGoes ==
  ASSUME NEW p, End(p)
  PROVE  Goes(p)
BY DEF End, Goes

LEMMA FileKept ==
  ASSUME ClientInv, KeepsVaults, file' = file
  PROVE  FileSound' /\ file' \in BackupFile \cup {None}
<1>1. file # None => file \in BackupFile /\ file.user \in Users
  BY DEF ClientInv, TypeOK, BackupFile
<1>2. file # None => VaultOf(file.user, file.vault)'
  BY <1>1, Kept DEF ClientInv, FileSound, VaultOf
<1>3. file # None => RowsSound(file.records)'
  BY DEF ClientInv, FileSound, RowsSound
<1> QED
  BY <1>2, <1>3 DEF ClientInv, FileSound, TypeOK

LEMMA KeysKept ==
  ASSUME ClientInv, KeepsVaults,
         \A d \in Devices : agentKey'[d] \in {agentKey[d], None}
  PROVE  KeysOwned'
<1> SUFFICES ASSUME NEW d \in Devices, agentKey'[d] # None
             PROVE  \E u \in Users : KeyOf(u, agentKey[d])'
  BY DEF KeysOwned
<1>1. PICK u \in Users : KeyOf(u, agentKey[d])
  BY DEF ClientInv, KeysOwned
<1> QED
  BY <1>1, Kept DEF KeyOf

-----------------------------------------------------------------------------
(* The calls of the server.                                                *)
LEMMA Tables ==
  ASSUME ClientInv
  PROVE  /\ vault \in [Users -> VaultRow \cup {None}]
         /\ secret \in [SecretIds -> SecretRow \cup {None}]
         /\ \A u \in Users : vault[u] # None => vault[u] \in VaultRow /\ VaultOf(u, vault[u])
         /\ \A s \in SecretIds : secret[s] # None => secret[s] \in SecretRow
         /\ RowsSound(secret)
         /\ \A u, o \in Users :
              u # o /\ vault[u] # None /\ vault[o] # None => vault[u].id # vault[o].id
BY DEF ClientInv, TypeOK, TablesSound

(* A vault that keeps its id, key and mode.                                *)
LEMMA VaultReplaced ==
  ASSUME ClientInv, NEW u \in Users, vault[u] # None, NEW row \in VaultRow, VaultOf(u, row),
         vault' = [vault EXCEPT ![u] = row],
         secret' \in [SecretIds -> SecretRow \cup {None}], RowsSound(secret)'
  PROVE  ServerSafe
<1>1. /\ vault' \in [Users -> VaultRow \cup {None}]
      /\ vault'[u] = row /\ row # None /\ row.id = vault[u].id
      /\ \A o \in Users : o # u => vault'[o] = vault[o]
  BY Tables, NotNone DEF VaultOf
<1>2. KeepsVaults
  BY <1>1 DEF KeepsVaults
<1>3. \A o \in Users : vault'[o] # None => VaultOf(o, vault[o])'
  BY <1>1, Tables DEF VaultOf
<1>4. \A o, w \in Users : o # w /\ vault'[o] # None /\ vault'[w] # None => vault'[o].id # vault'[w].id
  BY <1>1, Tables
<1> QED
  BY <1>1, <1>2, <1>3, <1>4 DEF ServerSafe, TablesSound

LEMMA PostVaultSafe ==
  ASSUME ClientInv, NEW u \in Users, NEW v \in VaultIds, NEW pw \in Passwords,
         PostVault(u, v, pw)
  PROVE  ServerSafe /\ KeyOf(u, v)'
<1> DEFINE row == [id |-> v, header |-> [key |-> v, pw |-> pw], private |-> Private[v]]
<1>1. row \in VaultRow /\ row # None /\ row.id = v /\ row.header.key = v /\ row.private = Private[v]
  BY ClientAssumption, NotNone DEF ClientAssumption, VaultRow, Headers
<1>2. /\ vault[u] = None /\ vault' = [vault EXCEPT ![u] = row] /\ secret' = secret
      /\ \A o \in Users : vault[o] # None => vault[o].id # v
  BY DEF PostVault
<1> HIDE DEF row
<1>3. /\ vault' \in [Users -> VaultRow \cup {None}] /\ vault'[u] = row
      /\ \A o \in Users : o # u => vault'[o] = vault[o]
  BY <1>1, <1>2, Tables
<1>4. KeepsVaults
  BY <1>2, <1>3 DEF KeepsVaults
<1>5. \A o \in Users : vault'[o] # None => VaultOf(o, vault[o])'
  BY <1>1, <1>3, Tables DEF VaultOf
<1>6. \A o, w \in Users : o # w /\ vault'[o] # None /\ vault'[w] # None => vault'[o].id # vault'[w].id
  BY <1>1, <1>2, <1>3, Tables
<1>7. RowsSound(secret)'
  BY <1>2, Tables DEF RowsSound
<1> QED
  BY <1>1, <1>2, <1>3, <1>4, <1>5, <1>6, <1>7, Tables DEF ServerSafe, TablesSound, KeyOf

LEMMA PutKeySafe ==
  ASSUME ClientInv, NEW u \in Users, NEW header \in Headers, PutKey(u, header),
         header.key = vault[u].id
  PROVE  ServerSafe
<1> DEFINE row == [vault[u] EXCEPT !.header = header]
<1>1. vault[u] # None /\ vault' = [vault EXCEPT ![u] = row] /\ secret' = secret
  BY DEF PutKey
<1>2. vault[u] \in VaultRow /\ VaultOf(u, vault[u])
  BY <1>1, Tables
<1>3. row \in VaultRow /\ row.id = vault[u].id /\ row.header = header /\ row.private = vault[u].private
  BY <1>2 DEF VaultRow
<1> HIDE DEF row
<1>4. VaultOf(u, row)
  BY <1>1, <1>2, <1>3 DEF VaultOf
<1>5. RowsSound(secret)' /\ secret' \in [SecretIds -> SecretRow \cup {None}]
  BY <1>1, Tables DEF RowsSound
<1> QED
  BY <1>1, <1>3, <1>4, <1>5, VaultReplaced

(* A change of one record.                                                 *)
LEMMA SecretReplaced ==
  ASSUME ClientInv, NEW s \in SecretIds, NEW row \in SecretRow \cup {None},
         vault' = vault, secret' = [secret EXCEPT ![s] = row],
         row # None =>
           /\ row.private = Private[row.vault]
           /\ \A t \in SecretIds : t # s /\ secret[t] # None /\ secret[t].vault = row.vault
                                     => secret[t].name # row.name
  PROVE  ServerSafe
<1>1. /\ secret' \in [SecretIds -> SecretRow \cup {None}] /\ secret'[s] = row
      /\ \A t \in SecretIds : t # s => secret'[t] = secret[t]
  BY Tables
<1>2. RowsSound(secret)'
  BY <1>1, Tables DEF RowsSound
<1>3. \A o \in Users : vault'[o] # None => VaultOf(o, vault[o])'
  BY Tables DEF VaultOf
<1> QED
  BY <1>1, <1>2, <1>3, Tables DEF ServerSafe, TablesSound, KeepsVaults

LEMMA PostSecretSafe ==
  ASSUME ClientInv, NEW u \in Users, NEW s \in SecretIds, NEW name \in Names, NEW value \in Values,
         PostSecret(u, s, name, value)
  PROVE  ServerSafe
<1> DEFINE row == [vault |-> vault[u].id, private |-> vault[u].private,
                   name |-> name, value |-> value, version |-> 1]
<1>1. /\ vault[u] # None /\ secret' = [secret EXCEPT ![s] = row] /\ vault' = vault
      /\ \A t \in Records(u) : secret[t].name # name
  BY DEF PostSecret
<1>2. vault[u] \in VaultRow /\ vault[u].private = Private[vault[u].id]
  BY <1>1, Tables DEF VaultOf
<1>3. row \in SecretRow /\ row.vault = vault[u].id /\ row.private = vault[u].private /\ row.name = name
  BY <1>2, RowFields DEF SecretRow
<1> HIDE DEF row
<1>4. \A t \in SecretIds : secret[t] # None /\ secret[t].vault = row.vault => t \in Records(u)
  BY <1>1, <1>3 DEF Records, Of
<1> QED
  BY <1>1, <1>2, <1>3, <1>4, SecretReplaced

LEMMA PutSecretSafe ==
  ASSUME ClientInv, NEW u \in Users, NEW s \in SecretIds, NEW version, NEW value \in Values,
         PutSecret(u, s, version, value)
  PROVE  ServerSafe
<1> DEFINE row == [secret[s] EXCEPT !.value = value, !.version = version + 1]
<1>1. /\ Of(u, s) /\ secret' = [secret EXCEPT ![s] = row] /\ vault' = vault
      /\ secret[s].version = version
  BY DEF PutSecret
<1>2. secret[s] \in SecretRow /\ secret[s] # None
  BY <1>1, Tables DEF Of
<1>3. version + 1 \in Nat \ {0}
  BY <1>1, <1>2, RowFields
<1>4. row \in SecretRow /\ row.vault = secret[s].vault /\ row.private = secret[s].private
      /\ row.name = secret[s].name
  BY <1>2, <1>3 DEF SecretRow
<1> HIDE DEF row
<1>5. \A t \in SecretIds : t # s /\ secret[t] # None /\ secret[t].vault = row.vault
                             => secret[t].name # row.name
  BY <1>2, <1>4, Tables DEF RowsSound
<1>6. row.private = Private[row.vault]
  BY <1>2, <1>4, Tables DEF RowsSound
<1> QED
  BY <1>1, <1>4, <1>5, <1>6, SecretReplaced

LEMMA DeleteSecretSafe ==
  ASSUME ClientInv, NEW u \in Users, NEW s \in SecretIds, DeleteSecret(u, s)
  PROVE  ServerSafe
BY SecretReplaced DEF DeleteSecret

LEMMA PostRestoreSafe ==
  ASSUME ClientInv, NEW u \in Users, file # None, PostRestore(u, file)
  PROVE  ServerSafe
<1>1. /\ file \in BackupFile /\ file.user = u /\ VaultOf(u, file.vault)
      /\ RowsSound(file.records)
      /\ \A s \in SecretIds : file.records[s] # None => file.records[s].vault = file.vault.id
  BY DEF PostRestore, ClientInv, TypeOK, FileSound
<1>2. file.vault \in VaultRow /\ file.records \in [SecretIds -> SecretRow \cup {None}]
  BY <1>1 DEF BackupFile
<1>3. /\ vault' = [vault EXCEPT ![u] = file.vault] /\ vault[u] # None /\ file.vault.id = vault[u].id
      /\ secret' = [s \in SecretIds |-> IF file.records[s] # None THEN file.records[s]
                                        ELSE IF Of(u, s) THEN None ELSE secret[s]]
  BY <1>1 DEF PostRestore, VaultOf
<1>4. secret' \in [SecretIds -> SecretRow \cup {None}]
  BY <1>2, <1>3, Tables
<1>5. ASSUME NEW s \in SecretIds, secret'[s] # None
      PROVE  \/ file.records[s] # None /\ secret'[s] = file.records[s] /\ secret'[s].vault = vault[u].id
             \/ secret[s] # None /\ secret'[s] = secret[s] /\ secret'[s].vault # vault[u].id
  BY <1>1, <1>3, <1>5 DEF Of
<1>6. \A s \in SecretIds : secret'[s] # None => secret'[s].private = Private[secret'[s].vault]
  BY <1>1, <1>5, Tables DEF RowsSound
<1>7. ASSUME NEW r \in SecretIds, NEW s \in SecretIds, r # s, secret'[r] # None, secret'[s] # None,
             secret'[r].vault = secret'[s].vault
      PROVE  secret'[r].name # secret'[s].name
  <2>1. CASE secret'[r].vault = vault[u].id
    BY <1>1, <1>5, <1>7, <2>1 DEF RowsSound
  <2>2. CASE secret'[r].vault # vault[u].id
    BY <1>5, <1>7, <2>2, Tables DEF RowsSound
  <2> QED
    BY <2>1, <2>2
<1>8. RowsSound(secret)'
  BY <1>6, <1>7 DEF RowsSound
<1> QED
  BY <1>1, <1>2, <1>3, <1>4, <1>8, VaultReplaced

-----------------------------------------------------------------------------
(* The commands, step by step.                                             *)
Stays == ClientInv' /\ KeepsVaults

LEMMA Composed ==
  ASSUME ClientInv, ServerSafe, NEW p \in Procs, Goes(p),
         session' \in [Devices -> Users \cup {None}],
         agentKey' \in [Devices -> VaultIds \cup {None}],
         serving' \in [Devices -> Procs \cup {None}], KeysOwned',
         FileSound' /\ file' \in BackupFile \cup {None}
  PROVE  Stays
BY GoesSound DEF ServerSafe, Stays, ClientInv, TypeOK

(* Commands that leave the server and the agent alone.                     *)
LEMMA LocalStep ==
  ASSUME ClientInv, UNCHANGED server, NEW p \in Procs, KeepsVaults => Goes(p),
         session' \in [Devices -> Users \cup {None}],
         \/ agentKey' = agentKey
         \/ \E d \in Devices : agentKey' = [agentKey EXCEPT ![d] = None],
         \/ serving' = serving
         \/ \E d \in Devices, q \in Procs \cup {None} : serving' = [serving EXCEPT ![d] = q],
         file' = file
  PROVE  Stays
<1>1. ServerSafe /\ KeepsVaults
  BY SameServer DEF ServerSafe
<1>2. /\ agentKey \in [Devices -> VaultIds \cup {None}]
      /\ serving \in [Devices -> Procs \cup {None}]
  BY DEF ClientInv, TypeOK
<1>3. /\ agentKey' \in [Devices -> VaultIds \cup {None}]
      /\ \A d \in Devices : agentKey'[d] \in {agentKey[d], None}
  BY <1>2
<1>4. serving' \in [Devices -> Procs \cup {None}]
  BY <1>2
<1>5. KeysOwned' /\ FileSound' /\ file' \in BackupFile \cup {None}
  BY <1>1, <1>3, KeysKept, FileKept
<1> QED
  BY <1>1, <1>3, <1>4, <1>5, Composed

(* Commands that call the server.                                          *)
LEMMA ServerStep ==
  ASSUME ClientInv, ServerSafe, NEW p \in Procs, Goes(p), UNCHANGED <<session, agentKey, file>>,
         \/ serving' = serving
         \/ \E d \in Devices, q \in Procs \cup {None} : serving' = [serving EXCEPT ![d] = q]
  PROVE  Stays
<1>1. /\ session \in [Devices -> Users \cup {None}]
      /\ agentKey \in [Devices -> VaultIds \cup {None}]
      /\ serving \in [Devices -> Procs \cup {None}]
  BY DEF ClientInv, TypeOK
<1>2. serving' \in [Devices -> Procs \cup {None}]
  BY <1>1
<1>3. KeysOwned' /\ FileSound' /\ file' \in BackupFile \cup {None}
  BY KeysKept, FileKept DEF ServerSafe
<1> QED
  BY <1>1, <1>2, <1>3, Composed

LEMMA StepGoes ==
  ASSUME ClientInv, KeepsVaults, NEW p \in Procs, proc[p] # None,
         NEW step \in {"lock", "clear", "activate", "relock"}, Step(p, step)
  PROVE  Goes(p)
<1> DEFINE c == [proc[p] EXCEPT !.step = step]
<1>1. proc[p] \in Command /\ CommandSound(proc[p])
  BY ProcFields
<1>2. PICK d \in Command : d = proc[p] /\ CommandSound(d)
  BY <1>1
<1>3. CommandSound(d)'
  BY <1>2, CommandKept
<1>4. PICK e \in Command : e = c
  <2>1. step \in Steps
    BY DEF Steps
  <2>2. [proc[p] EXCEPT !.step = step] \in Command
    BY <1>1, <2>1 DEF Command
  <2> QED
    BY <2>2
<1>5. /\ e.op = d.op /\ e.step = step /\ e.user = d.user /\ e.header = d.header /\ e.key = d.key
      /\ e.id = d.id /\ e.row = d.row
  BY <1>2, <1>4 DEF Command
<1>6. CommandSound(e)'
  BY <1>3, <1>5 DEF CommandSound
<1> QED
  BY <1>4, <1>6 DEF Goes, Step

LEMMA StartStays ==
  ASSUME ClientInv, NEW p \in Procs, NEW op \in Ops, NEW u \in Users \cup {None}, NEW n \in Names,
         Start(p, op, u, n)
  PROVE  Stays
<1> DEFINE c == [op |-> op, step |-> "start", user |-> u, name |-> n, key |-> None,
                 header |-> None, id |-> None, row |-> None]
<1>1. /\ u = None => op \in {"lock", "logout"}
      /\ proc' = [proc EXCEPT ![p] = c] /\ UNCHANGED <<server, device, file>>
  BY DEF Start
<1>2. c \in Command
  BY ClientAssumption DEF ClientAssumption, Command, Steps
<1>3. c.op = op /\ c.step = "start" /\ c.user = u /\ c.header = None
  OBVIOUS
<1> HIDE DEF c
<1>4. PICK e \in Command : e = c
  BY <1>2
<1>5. CommandSound(e)'
  BY <1>1, <1>3, <1>4 DEF CommandSound
<1>6. Goes(p)
  BY <1>1, <1>4, <1>5 DEF Goes
<1>7. session \in [Devices -> Users \cup {None}]
  BY DEF ClientInv, TypeOK
<1> QED
  BY <1>1, <1>6, <1>7, LocalStep DEF device

(* login, logout, switch and an expired session.                           *)
LEMMA SessionStays ==
  ASSUME ClientInv, NEW p \in Procs,
         LoginSave(p) \/ LogoutClear(p) \/ SwitchActivate(p) \/ LockAgent(p) \/ Expire(p)
  PROVE  Stays
<1>1. /\ UNCHANGED <<server, serving, file>> /\ proc[p] # None
      /\ \/ Step(p, "lock") \/ Step(p, "clear") \/ Step(p, "activate") \/ Step(p, "relock")
         \/ End(p)
  BY DEF LoginSave, LogoutClear, SwitchActivate, LockAgent, Expire, SetAgentKey, At, Relocking
<1>2. KeepsVaults => Goes(p)
  BY <1>1, StepGoes, EndGoes
<1>3. DeviceOf[p] \in Devices /\ session \in [Devices -> Users \cup {None}]
      /\ proc[p].user \in Users \cup {None}
  BY <1>1, ProcFields, CommandFields DEF ClientInv, TypeOK
<1>4. session' \in [Devices -> Users \cup {None}]
  BY <1>3 DEF LoginSave, LogoutClear, SwitchActivate, LockAgent, Expire, SetSession
<1>5. \/ agentKey' = agentKey
      \/ \E d \in Devices : agentKey' = [agentKey EXCEPT ![d] = None]
  BY <1>3 DEF LoginSave, LogoutClear, SwitchActivate, LockAgent, Expire, SetAgentKey
<1> QED
  BY <1>1, <1>2, <1>4, <1>5, LocalStep

LEMMA FailStays ==
  ASSUME ClientInv, NEW p \in Procs, Fail(p) \/ Killed(p)
  PROVE  Stays
<1>1. /\ UNCHANGED <<server, session, agentKey, file>> /\ End(p)
      /\ serving' = serving \/ serving' = [serving EXCEPT ![DeviceOf[p]] = None]
  BY DEF Fail, Killed, Respond, device
<1>2. DeviceOf[p] \in Devices /\ session \in [Devices -> Users \cup {None}]
  BY ProcFields DEF ClientInv, TypeOK
<1> QED
  BY <1>1, <1>2, EndGoes, LocalStep

LEMMA TimeoutStays ==
  ASSUME ClientInv, NEW d \in Devices, Timeout(d)
  PROVE  Stays
<1>1. /\ UNCHANGED <<server, session, serving, proc, file>>
      /\ agentKey' = [agentKey EXCEPT ![d] = None]
  BY DEF Timeout
<1>2. ServerSafe /\ KeepsVaults
  BY <1>1, SameServer DEF ServerSafe
<1>3. /\ agentKey' \in [Devices -> VaultIds \cup {None}]
      /\ \A e \in Devices : agentKey'[e] \in {agentKey[e], None}
  BY <1>1 DEF ClientInv, TypeOK
<1>4. KeysOwned' /\ FileSound' /\ file' \in BackupFile \cup {None}
  BY <1>1, <1>2, <1>3, KeysKept, FileKept
<1>5. CommandsSound'
  <2> SUFFICES ASSUME NEW q \in Procs, proc'[q] # None
               PROVE  CommandSound(proc[q])'
    BY DEF CommandsSound
  <2>1. PICK c \in Command : proc'[q] = c /\ c = proc[q] /\ CommandSound(proc[q])
    BY <1>1, ProcFields
  <2>2. CommandSound(c)
    BY <2>1
  <2>3. CommandSound(c)'
    BY <1>2, <2>2, CommandKept
  <2> QED
    BY <2>1, <2>3 DEF CommandSound, VaultOf, KeyOf
<1>6. TypeOK'
  BY <1>1, <1>2, <1>3, <1>4 DEF ClientInv, TypeOK, ServerSafe
<1> QED
  BY <1>2, <1>4, <1>5, <1>6 DEF Stays, ClientInv, ServerSafe

(* A command that goes on with what it has read: its new record is sound   *)
(* if that is its account's.                                               *)
LEMMA ReadGoes ==
  ASSUME ClientInv, KeepsVaults, NEW p \in Procs, proc[p] # None,
         NEW c \in Command, NEW u \in Users, proc[p].user = u,
         c.op = proc[p].op, c.user = u,
         c.header # None => VaultOf(u, c.header)',
         c.op \in {"passwd", "export"} /\ c.step = "write" => c.header # None,
         c.op \in DataOps /\ c.step \in {"list", "write"} => c.header # None,
         c.op \in DataOps /\ c.step \in {"meta", "list", "write"} => c.key # None,
         c.op \in {"init", "unlock"} /\ c.step = "deliver" => KeyOf(u, c.key)',
         c.op \in {"update", "remove"} /\ c.step = "write" => c.id # None /\ c.row # None,
         proc' = [proc EXCEPT ![p] = c]
  PROVE  Goes(p)
<1>1. CommandSound(c)'
  BY NotNone DEF CommandSound
<1> QED
  BY <1>1 DEF Goes

(* The account of a command that needs one, and its vault.                 *)
LEMMA Account ==
  ASSUME ClientInv, NEW p \in Procs, proc[p] # None, proc[p].op \notin {"lock", "logout"}
  PROVE  /\ proc[p] \in Command /\ CommandSound(proc[p])
         /\ proc[p].user \in Users
         /\ vault[proc[p].user] # None =>
              /\ vault[proc[p].user] \in VaultRow
              /\ VaultOf(proc[p].user, vault[proc[p].user])
              /\ vault[proc[p].user].id \in VaultIds
              /\ vault[proc[p].user].header.key = vault[proc[p].user].id
<1>1. proc[p] \in Command /\ CommandSound(proc[p])
  BY ProcFields
<1>2. proc[p].user \in Users
  BY <1>1, CommandFields DEF CommandSound
<1> QED
  BY <1>1, <1>2, Tables, RowFields DEF VaultOf

LEMMA HeaderKept ==
  ASSUME ClientInv, KeepsVaults, NEW p \in Procs, proc[p] # None, proc[p].header # None
  PROVE  VaultOf(proc[p].user, proc[p].header)
         /\ \A c : c.user = proc[p].user /\ c.header = proc[p].header => VaultOf(c.user, c.header)'
<1>1. proc[p] \in Command /\ CommandSound(proc[p])
  BY ProcFields
<1>2. proc[p].user \in Users
  BY <1>1, CommandFields DEF CommandSound
<1> QED
  BY <1>1, <1>2, Kept DEF CommandSound, VaultOf

LEMMA InitStays ==
  ASSUME ClientInv, NEW p \in Procs, InitPost(p)
  PROVE  Stays
<1>1. At(p, "init", "start") /\ UNCHANGED <<device, file>>
  BY DEF InitPost
<1>2. PICK v \in VaultIds, pw \in Passwords :
        /\ PostVault(proc[p].user, v, pw)
        /\ \/ End(p)
           \/ proc' = [proc EXCEPT ![p] = [@ EXCEPT !.step = "deliver", !.key = v]]
  BY DEF InitPost
<1>3. proc[p] \in Command /\ CommandSound(proc[p]) /\ proc[p].user \in Users /\ proc[p] # None
      /\ proc[p].op = "init"
  BY <1>1, Account DEF At
<1>4. ServerSafe /\ KeepsVaults
  BY <1>2, <1>3, PostVaultSafe DEF ServerSafe
<1>5. Goes(p)
  <2>1. CASE End(p)
    BY <2>1, EndGoes
  <2>2. CASE proc' = [proc EXCEPT ![p] = [@ EXCEPT !.step = "deliver", !.key = v]]
    <3>1. PICK c \in Command : c = [proc[p] EXCEPT !.step = "deliver", !.key = v]
      BY <1>3 DEF Command, Steps
    <3>2. /\ c.op = "init" /\ c.user = proc[p].user /\ c.header = proc[p].header
          /\ c.step = "deliver" /\ c.key = v
      BY <1>3, <3>1 DEF Command
    <3>3. PICK u \in Users : u = proc[p].user
      BY <1>3
    <3>4. KeyOf(u, c.key)'
      <4>1. PostVault(u, v, pw)
        BY <1>2, <3>3
      <4> QED
        BY <3>2, <4>1, PostVaultSafe
    <3>5. c.header # None => VaultOf(u, c.header)'
      BY <1>3, <1>4, <3>2, <3>3, HeaderKept, Kept DEF VaultOf, CommandSound
    <3>6. proc' = [proc EXCEPT ![p] = c]
      BY <2>2, <3>1
    <3> QED
      BY <1>3, <1>4, <3>2, <3>3, <3>4, <3>5, <3>6, ReadGoes DEF DataOps
  <2> QED
    BY <1>2, <2>1, <2>2
<1> QED
  BY <1>1, <1>4, <1>5, ServerStep DEF device

LEMMA UnlockReadStays ==
  ASSUME ClientInv, NEW p \in Procs, UnlockRead(p)
  PROVE  Stays
<1>1. /\ At(p, "unlock", "start") /\ vault[proc[p].user] # None
      /\ UNCHANGED <<server, device, file>>
      /\ proc' = [proc EXCEPT ![p] =
           [@ EXCEPT !.step = "deliver", !.key = vault[proc[p].user].header.key]]
  BY DEF UnlockRead
<1>2. /\ proc[p] \in Command /\ CommandSound(proc[p]) /\ proc[p] # None
      /\ proc[p].op = "unlock"
      /\ proc[p].user \in Users /\ vault[proc[p].user].id \in VaultIds
      /\ vault[proc[p].user].header.key = vault[proc[p].user].id
  BY <1>1, Account DEF At
<1>3. PICK u \in Users : u = proc[p].user
  BY <1>2
<1>4. PICK k \in VaultIds : k = vault[u].header.key /\ KeyOf(u, k)
  BY <1>1, <1>2, <1>3 DEF KeyOf
<1>5. PICK c \in Command : c = [proc[p] EXCEPT !.step = "deliver", !.key = k]
  BY <1>2 DEF Command, Steps
<1>6. /\ c.op = "unlock" /\ c.user = proc[p].user /\ c.header = proc[p].header
      /\ c.step = "deliver" /\ c.key = k
  BY <1>2, <1>5 DEF Command
<1>7. vault' = vault
  BY <1>1 DEF server
<1>8. KeyOf(u, c.key)' /\ (c.header # None => VaultOf(u, c.header)')
  BY <1>2, <1>3, <1>4, <1>6, <1>7 DEF KeyOf, VaultOf, CommandSound
<1>9. proc' = [proc EXCEPT ![p] = c]
  BY <1>1, <1>3, <1>4, <1>5
<1>10. KeepsVaults => Goes(p)
  BY <1>2, <1>3, <1>6, <1>8, <1>9, ReadGoes DEF DataOps
<1>11. session \in [Devices -> Users \cup {None}]
  BY DEF ClientInv, TypeOK
<1> QED
  BY <1>1, <1>10, <1>11, LocalStep DEF device

LEMMA DeliverStays ==
  ASSUME ClientInv, NEW p \in Procs, Deliver(p)
  PROVE  Stays
<1>1. /\ proc[p] # None /\ proc[p].op \in {"unlock", "init"} /\ proc[p].step = "deliver"
      /\ agentKey' = [agentKey EXCEPT ![DeviceOf[p]] = proc[p].key] /\ End(p)
      /\ UNCHANGED <<server, session, serving, file>>
  BY DEF Deliver, At, SetAgentKey
<1>2. ServerSafe /\ KeepsVaults /\ vault' = vault
  BY <1>1, SameServer DEF ServerSafe, server
<1>3. /\ proc[p].user \in Users /\ KeyOf(proc[p].user, proc[p].key)
      /\ proc[p].key \in VaultIds \cup {None} /\ DeviceOf[p] \in Devices
  BY <1>1, Account, ProcFields, CommandFields DEF CommandSound
<1>4. /\ session' \in [Devices -> Users \cup {None}] /\ serving' \in [Devices -> Procs \cup {None}]
      /\ agentKey' \in [Devices -> VaultIds \cup {None}]
  BY <1>1, <1>3 DEF ClientInv, TypeOK
<1>5. KeysOwned'
  <2> SUFFICES ASSUME NEW d \in Devices, agentKey'[d] # None
               PROVE  \E u \in Users : KeyOf(u, agentKey[d])'
    BY DEF KeysOwned
  <2>1. agentKey \in [Devices -> VaultIds \cup {None}]
    BY DEF ClientInv, TypeOK
  <2>2. CASE d = DeviceOf[p]
    BY <1>1, <1>2, <1>3, <2>1, <2>2 DEF KeyOf
  <2>3. CASE d # DeviceOf[p]
    BY <1>1, <1>2, <1>3, <2>1, <2>3 DEF KeyOf, ClientInv, KeysOwned
  <2> QED
    BY <2>2, <2>3
<1>6. FileSound' /\ file' \in BackupFile \cup {None}
  BY <1>1, <1>2, FileKept
<1> QED
  BY <1>1, <1>2, <1>4, <1>5, <1>6, EndGoes, Composed

LEMMA ReadHeaderStays ==
  ASSUME ClientInv, NEW p \in Procs, ReadHeader(p)
  PROVE  Stays
<1>1. /\ proc[p] # None /\ proc[p].op \in {"passwd", "export"} /\ vault[proc[p].user] # None
      /\ UNCHANGED <<server, device, file>>
      /\ proc' = [proc EXCEPT ![p] = [@ EXCEPT !.step = "write", !.header = vault[proc[p].user]]]
  BY DEF ReadHeader, At
<1>2. /\ proc[p] \in Command /\ proc[p].user \in Users /\ vault[proc[p].user] \in VaultRow
      /\ VaultOf(proc[p].user, vault[proc[p].user])
  BY <1>1, Account
<1>3. PICK u \in Users, row \in VaultRow : u = proc[p].user /\ row = vault[u] /\ VaultOf(u, row)
  BY <1>2
<1>4. PICK c \in Command : c = [proc[p] EXCEPT !.step = "write", !.header = row]
  BY <1>2 DEF Command, Steps
<1>5. c.op = proc[p].op /\ c.user = u /\ c.header = row /\ c.step = "write"
  BY <1>2, <1>3, <1>4 DEF Command
<1>6. VaultOf(u, c.header)' /\ c.header # None
  BY <1>1, <1>3, <1>5, NotNone DEF VaultOf, server
<1>7. proc' = [proc EXCEPT ![p] = c]
  BY <1>1, <1>3, <1>4
<1>8. KeepsVaults => Goes(p)
  BY <1>1, <1>3, <1>5, <1>6, <1>7, ReadGoes DEF DataOps
<1>9. session \in [Devices -> Users \cup {None}]
  BY DEF ClientInv, TypeOK
<1> QED
  BY <1>1, <1>8, <1>9, LocalStep DEF device

LEMMA PasswdWriteStays ==
  ASSUME ClientInv, NEW p \in Procs, PasswdWrite(p)
  PROVE  Stays /\ secret' = secret
<1>1. /\ proc[p] # None /\ proc[p].op = "passwd" /\ proc[p].step = "write"
      /\ UNCHANGED <<device, file>> /\ (Step(p, "lock") \/ End(p))
  BY DEF PasswdWrite, At
<1>2. PICK pw \in Passwords : PutKey(proc[p].user, [proc[p].header.header EXCEPT !.pw = pw])
  BY DEF PasswdWrite
<1>3. /\ proc[p].user \in Users /\ proc[p].header \in VaultRow
      /\ VaultOf(proc[p].user, proc[p].header)
  BY <1>1, Account, CommandFields DEF CommandSound
<1>4. PICK header \in Headers : header = [proc[p].header.header EXCEPT !.pw = pw]
  BY <1>3, RowFields DEF Headers
<1>5. header.key = vault[proc[p].user].id
  BY <1>3, <1>4, RowFields DEF Headers, VaultOf
<1>6. ServerSafe /\ KeepsVaults /\ secret' = secret
  BY <1>2, <1>3, <1>4, <1>5, PutKeySafe DEF ServerSafe, PutKey
<1>7. Goes(p)
  BY <1>1, <1>6, StepGoes, EndGoes
<1> QED
  BY <1>1, <1>6, <1>7, ServerStep DEF device

(* A backup holds the records of its account at this moment.               *)
LEMMA ExportStays ==
  ASSUME ClientInv, NEW p \in Procs, ExportWrite(p)
  PROVE  Stays /\ file' \in BackupFile
<1>1. /\ proc[p] # None /\ proc[p].op = "export" /\ proc[p].step = "write" /\ End(p)
      /\ UNCHANGED <<server, device>>
  BY DEF ExportWrite, At
<1>2. ServerSafe /\ KeepsVaults /\ vault' = vault /\ secret' = secret
  BY <1>1, SameServer DEF ServerSafe, server
<1>3. /\ proc[p].user \in Users /\ proc[p].header \in VaultRow
      /\ VaultOf(proc[p].user, proc[p].header)
  BY <1>1, Account, CommandFields DEF CommandSound
<1> DEFINE t == [s \in SecretIds |-> IF Of(proc[p].user, s) THEN secret[s] ELSE None]
<1>4. file' = [user |-> proc[p].user, vault |-> proc[p].header, records |-> t]
  BY DEF ExportWrite
<1>5. t \in [SecretIds -> SecretRow \cup {None}]
  BY Tables DEF Of
<1>6. file' \in BackupFile
  BY <1>3, <1>4, <1>5 DEF BackupFile
<1>7. /\ file'.user = proc[p].user /\ file'.vault = proc[p].header /\ file'.records = t
  BY <1>4
<1>8. VaultOf(file.user, file.vault)'
  BY <1>2, <1>3, <1>7 DEF VaultOf
<1>9. \A s \in SecretIds : t[s] # None => t[s] = secret[s] /\ t[s].vault = vault[proc[p].user].id
  BY DEF Of
<1> HIDE DEF t
<1>10. RowsSound(file.records)'
  BY <1>7, <1>9, Tables DEF RowsSound
<1>11. \A s \in SecretIds : file'.records[s] # None => file'.records[s].vault = file'.vault.id
  BY <1>3, <1>7, <1>9 DEF VaultOf
<1>12. FileSound' /\ file' \in BackupFile \cup {None}
  BY <1>6, <1>8, <1>10, <1>11 DEF FileSound
<1>13. /\ session' \in [Devices -> Users \cup {None}] /\ serving' \in [Devices -> Procs \cup {None}]
       /\ agentKey' \in [Devices -> VaultIds \cup {None}] /\ agentKey' = agentKey
  BY <1>1 DEF ClientInv, TypeOK, device
<1>14. KeysOwned'
  BY <1>2, <1>13, KeysKept
<1> QED
  BY <1>1, <1>2, <1>6, <1>12, <1>13, <1>14, EndGoes, Composed

LEMMA ImportStays ==
  ASSUME ClientInv, NEW p \in Procs, Import(p)
  PROVE  Stays
<1>1. /\ proc[p] # None /\ proc[p].op = "import" /\ file # None
      /\ PostRestore(proc[p].user, file) /\ End(p) /\ UNCHANGED <<device, file>>
  BY DEF Import, At
<1>2. ServerSafe
  BY <1>1, Account, PostRestoreSafe
<1> QED
  BY <1>1, <1>2, EndGoes, ServerStep DEF device

-----------------------------------------------------------------------------
(* The commands that the agent serves.                                     *)
LEMMA AgentBeginStays ==
  ASSUME ClientInv, NEW p \in Procs, AgentBegin(p)
  PROVE  Stays
<1>1. /\ proc[p] # None /\ proc[p].op \in DataOps /\ agentKey[DeviceOf[p]] # None
      /\ serving' = [serving EXCEPT ![DeviceOf[p]] = p]
      /\ proc' = [proc EXCEPT ![p] = [@ EXCEPT !.step = "meta", !.key = agentKey[DeviceOf[p]]]]
      /\ UNCHANGED <<server, session, agentKey, file>>
  BY DEF AgentBegin, At
<1>2. /\ proc[p] \in Command /\ CommandSound(proc[p]) /\ proc[p].user \in Users
      /\ DeviceOf[p] \in Devices
  BY <1>1, Account, ProcFields DEF DataOps
<1>3. PICK k \in VaultIds : k = agentKey[DeviceOf[p]] /\ k # None
  BY <1>1, <1>2 DEF ClientInv, TypeOK
<1>4. PICK c \in Command : c = [proc[p] EXCEPT !.step = "meta", !.key = k]
  BY <1>2 DEF Command, Steps
<1>5. /\ c.op = proc[p].op /\ c.user = proc[p].user /\ c.header = proc[p].header
      /\ c.step = "meta" /\ c.key = k
  BY <1>2, <1>4 DEF Command
<1>6. PICK u \in Users : u = proc[p].user
  BY <1>2
<1>7. c.header # None => VaultOf(u, c.header)'
  BY <1>1, <1>2, <1>5, <1>6 DEF VaultOf, CommandSound, server
<1>8. proc' = [proc EXCEPT ![p] = c]
  BY <1>1, <1>3, <1>4
<1>9. KeepsVaults => Goes(p)
  BY <1>1, <1>3, <1>5, <1>6, <1>7, <1>8, ReadGoes DEF DataOps
<1>10. session \in [Devices -> Users \cup {None}]
  BY DEF ClientInv, TypeOK
<1> QED
  BY <1>1, <1>2, <1>9, <1>10, LocalStep

LEMMA AgentMetaStays ==
  ASSUME ClientInv, NEW p \in Procs, AgentMeta(p)
  PROVE  Stays
<1>1. /\ proc[p] # None /\ proc[p].op \in DataOps /\ proc[p].step = "meta"
      /\ vault[proc[p].user] # None
      /\ UNCHANGED <<server, device, file>>
      /\ proc' = [proc EXCEPT ![p] = [@ EXCEPT !.step = "list", !.header = vault[proc[p].user]]]
  BY DEF AgentMeta, At
<1>2. /\ proc[p] \in Command /\ CommandSound(proc[p]) /\ proc[p].user \in Users
      /\ vault[proc[p].user] \in VaultRow
      /\ VaultOf(proc[p].user, vault[proc[p].user])
  BY <1>1, Account DEF DataOps
<1>3. PICK u \in Users, row \in VaultRow : u = proc[p].user /\ row = vault[u] /\ VaultOf(u, row)
  BY <1>2
<1>4. PICK c \in Command : c = [proc[p] EXCEPT !.step = "list", !.header = row]
  BY <1>2 DEF Command, Steps
<1>5. c.op = proc[p].op /\ c.user = u /\ c.header = row /\ c.step = "list" /\ c.key = proc[p].key
  BY <1>2, <1>3, <1>4 DEF Command
<1>6. VaultOf(u, c.header)' /\ c.header # None
  BY <1>1, <1>3, <1>5, NotNone DEF VaultOf, server
<1>7. c.key # None
  BY <1>1, <1>2, <1>5 DEF CommandSound
<1>8. proc' = [proc EXCEPT ![p] = c]
  BY <1>1, <1>3, <1>4
<1>9. KeepsVaults => Goes(p)
  BY <1>1, <1>3, <1>5, <1>6, <1>7, <1>8, ReadGoes DEF DataOps
<1>10. session \in [Devices -> Users \cup {None}]
  BY DEF ClientInv, TypeOK
<1> QED
  BY <1>1, <1>9, <1>10, LocalStep DEF device

LEMMA AgentFindStays ==
  ASSUME ClientInv, NEW p \in Procs, AgentFind(p)
  PROVE  Stays
<1>1. /\ proc[p] # None /\ proc[p].op \in {"update", "remove"} /\ proc[p].step = "list"
      /\ UNCHANGED <<server, device, file>>
  BY DEF AgentFind, At
<1>2. PICK s \in Records(proc[p].user) :
        proc' = [proc EXCEPT ![p] = [@ EXCEPT !.step = "write", !.id = s, !.row = secret[s]]]
  BY DEF AgentFind
<1>3. /\ proc[p] \in Command /\ CommandSound(proc[p]) /\ proc[p].user \in Users
      /\ s \in SecretIds /\ secret[s] \in SecretRow
  BY <1>1, <1>2, Account, Tables DEF Records, Of
<1>4. PICK u \in Users, row \in SecretRow : u = proc[p].user /\ row = secret[s]
  BY <1>3
<1>5. PICK c \in Command : c = [proc[p] EXCEPT !.step = "write", !.id = s, !.row = row]
  BY <1>3 DEF Command, Steps
<1>6. /\ c.op = proc[p].op /\ c.user = u /\ c.header = proc[p].header /\ c.step = "write"
      /\ c.key = proc[p].key /\ c.id = s /\ c.row = row
  BY <1>3, <1>4, <1>5 DEF Command
<1>7. c.header # None /\ c.key # None /\ c.id # None /\ c.row # None /\ VaultOf(u, c.header)'
  BY <1>1, <1>3, <1>4, <1>6, NotNone DEF CommandSound, DataOps, VaultOf, server
<1>8. proc' = [proc EXCEPT ![p] = c]
  BY <1>2, <1>4, <1>5
<1>9. KeepsVaults => Goes(p)
  BY <1>1, <1>4, <1>6, <1>7, <1>8, ReadGoes DEF DataOps
<1>10. session \in [Devices -> Users \cup {None}]
  BY DEF ClientInv, TypeOK
<1> QED
  BY <1>1, <1>9, <1>10, LocalStep DEF device

LEMMA AgentFindNoneStays ==
  ASSUME ClientInv, NEW p \in Procs, AgentFindNone(p)
  PROVE  Stays
<1>1. /\ proc[p] # None /\ proc[p].op = "add" /\ proc[p].step = "list" /\ Step(p, "write")
      /\ UNCHANGED <<server, device, file>>
  BY DEF AgentFindNone, At
<1>2. proc[p] \in Command /\ CommandSound(proc[p]) /\ proc[p].user \in Users
  BY <1>1, Account
<1>3. PICK u \in Users : u = proc[p].user
  BY <1>2
<1>4. PICK c \in Command : c = [proc[p] EXCEPT !.step = "write"]
  BY <1>2 DEF Command, Steps
<1>5. /\ c.op = proc[p].op /\ c.user = u /\ c.header = proc[p].header /\ c.step = "write"
      /\ c.key = proc[p].key
  BY <1>2, <1>3, <1>4 DEF Command
<1>6. c.header # None /\ c.key # None /\ VaultOf(u, c.header)'
  BY <1>1, <1>2, <1>3, <1>5 DEF CommandSound, DataOps, VaultOf, server
<1>7. proc' = [proc EXCEPT ![p] = c]
  BY <1>1, <1>4 DEF Step
<1>8. KeepsVaults => Goes(p)
  BY <1>1, <1>3, <1>5, <1>6, <1>7, ReadGoes DEF DataOps
<1>9. session \in [Devices -> Users \cup {None}]
  BY DEF ClientInv, TypeOK
<1> QED
  BY <1>1, <1>8, <1>9, LocalStep DEF device

LEMMA RespondStays ==
  ASSUME ClientInv, ServerSafe, NEW p \in Procs, Respond(p), UNCHANGED <<session, agentKey, file>>
  PROVE  Stays
BY EndGoes, ServerStep, ProcFields DEF Respond

LEMMA AgentGetStays ==
  ASSUME ClientInv, NEW p \in Procs, AgentGet(p)
  PROVE  Stays
BY SameServer, RespondStays DEF AgentGet

LEMMA AgentAddStays ==
  ASSUME ClientInv, NEW p \in Procs, AgentAdd(p)
  PROVE  Stays
<1>1. /\ proc[p] # None /\ proc[p].op = "add" /\ proc[p].step = "write" /\ Respond(p)
      /\ UNCHANGED <<session, agentKey, file>>
  BY DEF AgentAdd, At
<1>2. PICK s \in SecretIds, t \in Texts :
        PostSecret(proc[p].user, s, proc[p].name, [key |-> proc[p].key, text |-> t])
  BY DEF AgentAdd
<1>3. /\ proc[p].user \in Users /\ proc[p].name \in Names
      /\ [key |-> proc[p].key, text |-> t] \in Values
  BY <1>1, Account, CommandFields DEF CommandSound, DataOps, Values
<1>4. ServerSafe
  BY <1>2, <1>3, PostSecretSafe
<1> QED
  BY <1>1, <1>4, RespondStays

LEMMA AgentUpdateStays ==
  ASSUME ClientInv, NEW p \in Procs, AgentUpdate(p)
  PROVE  Stays
<1>1. /\ proc[p] # None /\ proc[p].op = "update" /\ proc[p].step = "write" /\ Respond(p)
      /\ UNCHANGED <<session, agentKey, file>>
  BY DEF AgentUpdate, At
<1>2. PICK t \in Texts :
        PutSecret(proc[p].user, proc[p].id, proc[p].row.version, [key |-> proc[p].key, text |-> t])
  BY DEF AgentUpdate
<1>3. /\ proc[p].user \in Users /\ proc[p].id \in SecretIds
      /\ [key |-> proc[p].key, text |-> t] \in Values
  BY <1>1, Account, CommandFields DEF CommandSound, DataOps, Values
<1>4. ServerSafe
  BY <1>2, <1>3, PutSecretSafe
<1> QED
  BY <1>1, <1>4, RespondStays

LEMMA AgentRemoveStays ==
  ASSUME ClientInv, NEW p \in Procs, AgentRemove(p)
  PROVE  Stays
<1>1. /\ proc[p] # None /\ proc[p].op = "remove" /\ proc[p].step = "write" /\ Respond(p)
      /\ UNCHANGED <<session, agentKey, file>> /\ DeleteSecret(proc[p].user, proc[p].id)
  BY DEF AgentRemove, At
<1>2. proc[p].user \in Users /\ proc[p].id \in SecretIds
  BY <1>1, Account, CommandFields DEF CommandSound
<1>3. ServerSafe
  BY <1>1, <1>2, DeleteSecretSafe
<1> QED
  BY <1>1, <1>3, RespondStays

-----------------------------------------------------------------------------
LEMMA ClientInit == Init => ClientInv
<1> SUFFICES ASSUME Init PROVE ClientInv
  OBVIOUS
<1>1. TypeOK
  BY DEF Init, TypeOK
<1>2. TablesSound /\ FileSound /\ CommandsSound /\ KeysOwned
  BY DEF Init, TablesSound, RowsSound, FileSound, CommandsSound, KeysOwned
<1> QED
  BY <1>1, <1>2 DEF ClientInv

LEMMA ClientStep ==
  ASSUME ClientInv, [Next]_vars
  PROVE  Stays
<1>1. CASE UNCHANGED vars
  <2>1. KeepsVaults
    BY <1>1 DEF vars, KeepsVaults
  <2>2. ClientInv'
    BY <1>1 DEF vars, ClientInv, TypeOK, TablesSound, RowsSound, VaultOf, FileSound, CommandsSound,
                CommandSound, KeyOf, KeysOwned
  <2> QED
    BY <2>1, <2>2 DEF Stays
<1>2. ASSUME NEW p \in Procs, Work(p)
      PROVE  Stays
  BY <1>2, SessionStays, InitStays, UnlockReadStays, DeliverStays, ReadHeaderStays,
     PasswdWriteStays, ExportStays, ImportStays, AgentBeginStays, AgentMetaStays, AgentFindStays,
     AgentFindNoneStays, AgentGetStays, AgentAddStays, AgentUpdateStays, AgentRemoveStays
  DEF Work
<1>3. ASSUME NEW p \in Procs, NEW op \in Ops, NEW u \in Users \cup {None}, NEW n \in Names,
             Start(p, op, u, n)
      PROVE  Stays
  BY <1>3, StartStays
<1> QED
  BY <1>1, <1>2, <1>3, FailStays, TimeoutStays DEF Next

LEMMA ClientAlways == Spec => []ClientInv
<1>1. ClientInv /\ [Next]_vars => ClientInv'
  BY ClientStep DEF Stays
<1> QED
  BY ClientInit, <1>1, PTL DEF Spec

(* Tables, devices, commands and backups are what the code can hold.       *)
THEOREM TypeCorrect == Spec => []TypeOK
<1>1. ClientInv => TypeOK
  BY DEF ClientInv
<1> QED
  BY <1>1, ClientAlways, PTL

-----------------------------------------------------------------------------
(* Updates.  A command keeps the record it has read to the end.            *)
Remembers ==
  \A q \in Procs : proc'[q] # None /\ proc'[q].id # None =>
    proc[q] # None /\ proc'[q].id = proc[q].id /\ proc'[q].row = proc[q].row

LEMMA EndRemembers ==
  ASSUME ClientInv, NEW p \in Procs, End(p)
  PROVE  Remembers
BY ProcFields DEF End, Remembers

LEMMA GoesRemembers ==
  ASSUME ClientInv, NEW p \in Procs, NEW c, proc' = [proc EXCEPT ![p] = c],
         c.id # None => proc[p] # None /\ c.id = proc[p].id /\ c.row = proc[p].row
  PROVE  Remembers
BY ProcFields DEF Remembers

LEMMA StepRemembers ==
  ASSUME ClientInv, NEW p \in Procs, proc[p] # None, NEW step, Step(p, step)
  PROVE  Remembers
<1>1. proc[p] \in Command
  BY ProcFields
<1>2. LET c == [proc[p] EXCEPT !.step = step]
      IN  c.id = proc[p].id /\ c.row = proc[p].row /\ proc' = [proc EXCEPT ![p] = c]
  BY <1>1 DEF Step, Command
<1> QED
  BY <1>1, <1>2, GoesRemembers

LEMMA OthersRemember ==
  ASSUME ClientInv, [Next]_vars, \A p \in Procs : ~ AgentFind(p)
  PROVE  Remembers
<1>1. CASE UNCHANGED vars
  BY <1>1 DEF vars, Remembers
<1>2. CASE \E p \in Procs : Fail(p) \/ Killed(p) \/ Deliver(p) \/ ExportWrite(p) \/ Import(p)
                             \/ AgentGet(p) \/ AgentAdd(p) \/ AgentUpdate(p) \/ AgentRemove(p)
  BY <1>2, EndRemembers
  DEF Fail, Killed, Deliver, ExportWrite, Import, AgentGet, AgentAdd, AgentUpdate, AgentRemove, Respond
<1>3. CASE \E p \in Procs : LoginSave(p) \/ LogoutClear(p) \/ SwitchActivate(p) \/ LockAgent(p)
                             \/ Expire(p) \/ PasswdWrite(p) \/ AgentFindNone(p)
  BY <1>3, EndRemembers, StepRemembers
  DEF LoginSave, LogoutClear, SwitchActivate, LockAgent, Expire, PasswdWrite, AgentFindNone, At,
      Relocking
<1>4. ASSUME NEW p \in Procs, InitPost(p) \/ UnlockRead(p) \/ AgentBegin(p)
      PROVE  Remembers
  <2>1. proc[p] # None /\ proc[p] \in Command
    BY <1>4, ProcFields DEF InitPost, UnlockRead, AgentBegin, At
  <2>2. ASSUME NEW step, NEW k, proc' = [proc EXCEPT ![p] = [@ EXCEPT !.step = step, !.key = k]]
        PROVE  Remembers
    <3>1. LET c == [proc[p] EXCEPT !.step = step, !.key = k]
          IN  c.id = proc[p].id /\ c.row = proc[p].row /\ proc' = [proc EXCEPT ![p] = c]
      BY <2>1, <2>2 DEF Command
    <3> QED
      BY <2>1, <3>1, GoesRemembers
  <2> QED
    BY <1>4, <2>2, EndRemembers DEF InitPost, UnlockRead, AgentBegin
<1>5. ASSUME NEW p \in Procs, ReadHeader(p) \/ AgentMeta(p)
      PROVE  Remembers
  <2>1. proc[p] # None /\ proc[p] \in Command
    BY <1>5, ProcFields DEF ReadHeader, AgentMeta, At
  <2>2. ASSUME NEW step, NEW h, proc' = [proc EXCEPT ![p] = [@ EXCEPT !.step = step, !.header = h]]
        PROVE  Remembers
    <3>1. LET c == [proc[p] EXCEPT !.step = step, !.header = h]
          IN  c.id = proc[p].id /\ c.row = proc[p].row /\ proc' = [proc EXCEPT ![p] = c]
      BY <2>1, <2>2 DEF Command
    <3> QED
      BY <2>1, <3>1, GoesRemembers
  <2> QED
    BY <1>5, <2>2 DEF ReadHeader, AgentMeta
<1>6. CASE \E p \in Procs, op \in Ops, u \in Users \cup {None}, n \in Names : Start(p, op, u, n)
  BY <1>6, GoesRemembers DEF Start
<1>7. CASE \E d \in Devices : Timeout(d)
  BY <1>7 DEF Timeout, Remembers
<1> QED
  BY <1>1, <1>2, <1>3, <1>4, <1>5, <1>6, <1>7 DEF Next, Work

(* Only four steps change a record.                                        *)
LEMMA RecordsChange ==
  ASSUME ClientInv, [Next]_vars, secret' # secret
  PROVE  \E p \in Procs : Import(p) \/ AgentAdd(p) \/ AgentUpdate(p) \/ AgentRemove(p)
<1>1. ~ UNCHANGED vars
  BY DEF vars
<1>2. ~ \E p \in Procs : Fail(p) \/ Killed(p)
  BY DEF Fail, Killed, server
<1>3. ~ \E d \in Devices : Timeout(d)
  BY DEF Timeout, server
<1>4. ~ \E p \in Procs, op \in Ops, u \in Users \cup {None}, n \in Names : Start(p, op, u, n)
  BY DEF Start, server
<1>5. PICK p \in Procs : Work(p)
  BY <1>1, <1>2, <1>3, <1>4 DEF Next
<1>6. ~ (LoginSave(p) \/ LockAgent(p) \/ LogoutClear(p) \/ SwitchActivate(p) \/ Expire(p))
  BY DEF LoginSave, LockAgent, LogoutClear, SwitchActivate, Expire, server
<1>7. ~ (InitPost(p) \/ UnlockRead(p) \/ Deliver(p) \/ ReadHeader(p) \/ PasswdWrite(p) \/ ExportWrite(p))
  BY DEF InitPost, PostVault, UnlockRead, Deliver, ReadHeader, PasswdWrite, PutKey, ExportWrite, server
<1>8. ~ (AgentBegin(p) \/ AgentMeta(p) \/ AgentFind(p) \/ AgentFindNone(p) \/ AgentGet(p))
  BY DEF AgentBegin, AgentMeta, AgentFind, AgentFindNone, AgentGet, server
<1> QED
  BY <1>5, <1>6, <1>7, <1>8 DEF Work

LEMMA FileChanges ==
  ASSUME ClientInv, [Next]_vars, file' # file
  PROVE  \E p \in Procs : ExportWrite(p)
<1>1. ~ UNCHANGED vars
  BY DEF vars
<1>2. ~ \E p \in Procs : Fail(p) \/ Killed(p)
  BY DEF Fail, Killed
<1>3. ~ \E d \in Devices : Timeout(d)
  BY DEF Timeout
<1>4. ~ \E p \in Procs, op \in Ops, u \in Users \cup {None}, n \in Names : Start(p, op, u, n)
  BY DEF Start
<1>5. PICK p \in Procs : Work(p)
  BY <1>1, <1>2, <1>3, <1>4 DEF Next
<1>6. ~ (LoginSave(p) \/ LockAgent(p) \/ LogoutClear(p) \/ SwitchActivate(p) \/ Expire(p))
  BY DEF LoginSave, LockAgent, LogoutClear, SwitchActivate, Expire
<1>7. ~ (InitPost(p) \/ UnlockRead(p) \/ Deliver(p) \/ ReadHeader(p) \/ PasswdWrite(p) \/ Import(p))
  BY DEF InitPost, UnlockRead, Deliver, ReadHeader, PasswdWrite, Import
<1>8. ~ (AgentBegin(p) \/ AgentMeta(p) \/ AgentFind(p) \/ AgentFindNone(p) \/ AgentGet(p)
         \/ AgentAdd(p) \/ AgentUpdate(p) \/ AgentRemove(p))
  BY DEF AgentBegin, AgentMeta, AgentFind, AgentFindNone, AgentGet, AgentAdd, AgentUpdate, AgentRemove
<1> QED
  BY <1>5, <1>6, <1>7, <1>8 DEF Work

(* A backup is replaced, never removed.                                    *)
LEMMA FileStays ==
  ASSUME ClientInv, [Next]_vars, file' = None
  PROVE  file = None
BY FileChanges, ExportStays, NotNone

(* What is known of the record that a command has read.                    *)
Later(i, row) ==
  \/ secret[i] = None
  \/ secret[i] = row
  \/ row # None /\ secret[i].version > row.version

LEMMA LaterStep ==
  ASSUME ClientInv, [Next]_vars, file = None, NEW q \in Procs, proc[q] # None,
         NEW i \in SecretIds, NEW row \in SecretRow \cup {None}, proc[q].id = i, Later(i, row)
  PROVE  Later(i, row)'
<1>1. CASE secret' = secret
  BY <1>1 DEF Later
<1>2. CASE secret' # secret
  <2>1. PICK p \in Procs : Import(p) \/ AgentAdd(p) \/ AgentUpdate(p) \/ AgentRemove(p)
    BY <1>2, RecordsChange
  <2>2. secret \in [SecretIds -> SecretRow \cup {None}]
    BY Tables
  <2>3. CASE Import(p)
    BY <2>3 DEF Import
  <2>4. CASE AgentAdd(p)
    <3>1. PICK s \in SecretIds : FreshId(s) /\ \A t \in SecretIds : t # s => secret'[t] = secret[t]
      BY <2>2, <2>4 DEF AgentAdd, PostSecret
    <3>2. s # i
      BY <3>1 DEF FreshId
    <3> QED
      BY <3>1, <3>2 DEF Later
  <2>5. CASE AgentRemove(p)
    BY <2>2, <2>5 DEF AgentRemove, DeleteSecret, Later
  <2>6. CASE AgentUpdate(p)
    <3> DEFINE s == proc[p].id
               n == proc[p].row.version
    <3>1. PICK t \in Texts : PutSecret(proc[p].user, s, n, [key |-> proc[p].key, text |-> t])
      BY <2>6 DEF AgentUpdate
    <3>2. s \in SecretIds /\ secret[s] # None /\ secret[s].version = n
      <4>1. /\ proc[p] # None /\ proc[p].op = "update" /\ proc[p].step = "write"
        BY <2>6 DEF AgentUpdate, At
      <4> QED
        BY <3>1, <4>1, Account, CommandFields DEF CommandSound, PutSecret, Of
    <3> HIDE DEF s, n
    <3>3. secret[s] \in SecretRow /\ n \in Nat
      BY <3>2, Tables, RowFields
    <3>4. /\ \A j \in SecretIds : j # s => secret'[j] = secret[j]
          /\ secret'[s].version = n + 1
      <4>1. secret' = [secret EXCEPT ![s] = [@ EXCEPT !.value = [key |-> proc[p].key, text |-> t],
                                                    !.version = n + 1]]
        BY <3>1 DEF PutSecret
      <4>2. \A j \in SecretIds : j # s => secret'[j] = secret[j]
        BY <2>2, <4>1
      <4>3. secret'[s] = [secret[s] EXCEPT !.value = [key |-> proc[p].key, text |-> t],
                                           !.version = n + 1]
        BY <2>2, <3>2, <4>1
      <4>4. secret'[s].version = n + 1
        BY <3>3, <4>3 DEF SecretRow
      <4> QED
        BY <4>2, <4>4
    <3>5. CASE i # s
      BY <3>4, <3>5 DEF Later
    <3>6. CASE i = s
      <4>1. row # None /\ row \in SecretRow /\ n >= row.version
        BY <3>2, <3>3, <3>6, RowFields DEF Later
      <4> QED
        BY <3>3, <3>4, <3>6, <4>1, RowFields DEF Later
    <3> QED
      BY <3>5, <3>6
  <2> QED
    BY <2>1, <2>3, <2>4, <2>5, <2>6
<1> QED
  BY <1>1, <1>2

LEMMA VersionsStep ==
  ASSUME ClientInv, VersionsGrow, [Next]_vars
  PROVE  VersionsGrow'
<1> SUFFICES ASSUME file' = None, NEW q \in Procs, proc'[q] # None, proc'[q].id # None
             PROVE  Later(proc[q].id, proc[q].row)'
  BY DEF VersionsGrow, Later
<1>1. file = None
  BY FileStays
<1>2. CASE \A p \in Procs : ~ AgentFind(p)
  <2>1. proc[q] # None /\ proc'[q].id = proc[q].id /\ proc'[q].row = proc[q].row
    BY <1>2, OthersRemember DEF Remembers
  <2>2. proc[q] \in Command
    BY <2>1, ProcFields
  <2>3. PICK i \in SecretIds, row \in SecretRow \cup {None} : i = proc[q].id /\ row = proc[q].row
    BY <2>1, <2>2, CommandFields
  <2>4. Later(i, row)
    BY <1>1, <2>1, <2>3 DEF VersionsGrow, Later
  <2>5. Later(i, row)'
    BY <1>1, <2>1, <2>3, <2>4, LaterStep
  <2> QED
    BY <2>1, <2>3, <2>5 DEF Later
<1>3. ASSUME NEW p \in Procs, AgentFind(p)
      PROVE  Later(proc[q].id, proc[q].row)'
  <2>1. secret' = secret
    BY <1>3 DEF AgentFind, server
  <2>2. PICK s \in SecretIds :
          proc' = [proc EXCEPT ![p] = [@ EXCEPT !.step = "write", !.id = s, !.row = secret[s]]]
    BY <1>3 DEF AgentFind, Records
  <2>3. proc[p] # None /\ proc[p] \in Command /\ proc \in [Procs -> Command \cup {None}]
    BY <1>3, ProcFields DEF AgentFind, At
  <2>4. CASE q = p
    <3>1. proc'[q].id = s /\ proc'[q].row = secret[s]
      BY <2>2, <2>3, <2>4 DEF Command
    <3> QED
      BY <2>1, <3>1 DEF Later
  <2>5. CASE q # p
    <3>1. proc'[q] = proc[q]
      BY <2>2, <2>3, <2>5
    <3> QED
      BY <1>1, <2>1, <3>1 DEF VersionsGrow, Later
  <2> QED
    BY <2>4, <2>5
<1> QED
  BY <1>2, <1>3

(* An update replaces what it has read: the versions are equal, and with   *)
(* them, before there is a backup, the records.                            *)
LEMMA UpdateReplaces ==
  ASSUME ClientInv, VersionsGrow, [Next]_vars
  PROVE  ReplacesWhatItRead
<1> SUFFICES ASSUME NEW p \in Procs, Updates(p), file = None
             PROVE  secret[proc[p].id] = proc[p].row
  BY DEF ReplacesWhatItRead
<1>1. proc[p] # None /\ proc[p].op = "update" /\ proc[p].step = "write" /\ proc'[p] = None
      /\ secret' # secret
  BY DEF Updates, At
<1>2. PICK o \in Procs : Import(o) \/ AgentAdd(o) \/ AgentUpdate(o) \/ AgentRemove(o)
  BY <1>1, RecordsChange
<1>3. End(o) /\ proc \in [Procs -> Command \cup {None}]
  BY <1>2, ProcFields DEF Import, AgentAdd, AgentUpdate, AgentRemove, Respond
<1>4. o = p
  BY <1>1, <1>3 DEF End
<1>5. AgentUpdate(p)
  BY <1>1, <1>2, <1>4 DEF Import, AgentAdd, AgentRemove, At
<1>6. /\ proc[p].id \in SecretIds /\ proc[p].row \in SecretRow
      /\ secret[proc[p].id] # None /\ secret[proc[p].id].version = proc[p].row.version
  <2>1. proc[p].id \in SecretIds /\ proc[p].row \in SecretRow
    BY <1>1, Account, CommandFields DEF CommandSound
  <2> QED
    BY <1>5, <2>1 DEF AgentUpdate, PutSecret, Of
<1>7. proc[p].id # None /\ proc[p].row.version \in Nat
  BY <1>6, NotNone, RowFields
<1> QED
  BY <1>1, <1>6, <1>7 DEF VersionsGrow

(* No update overwrites a change it has not seen, whatever the devices of  *)
(* the account do, as long as there is no backup to bring versions back.   *)
THEOREM StaleUpdatesRefused == Spec => StaleRefusedBeforeBackup
<1>1. Init => VersionsGrow
  BY DEF Init, VersionsGrow
<1>2. ClientInv /\ VersionsGrow /\ [Next]_vars => VersionsGrow'
  BY VersionsStep
<1>3. ClientInv /\ VersionsGrow /\ [Next]_vars => [ReplacesWhatItRead]_vars
  BY UpdateReplaces
<1> QED
  BY ClientAlways, <1>1, <1>2, <1>3, PTL DEF Spec, StaleRefusedBeforeBackup

-----------------------------------------------------------------------------
(* Keys.  A command for records has the key it was given to the end.       *)
Holds ==
  \A q \in Procs : proc'[q] # None /\ proc'[q].op \in DataOps /\ proc'[q].key # None =>
    proc[q] # None /\ proc'[q].op = proc[q].op /\ proc'[q].user = proc[q].user
                   /\ proc'[q].key = proc[q].key

LEMMA GoesHolds ==
  ASSUME ClientInv, NEW p \in Procs, NEW c, proc' = [proc EXCEPT ![p] = c],
         c # None /\ c.op \in DataOps /\ c.key # None =>
           proc[p] # None /\ c.op = proc[p].op /\ c.user = proc[p].user /\ c.key = proc[p].key
  PROVE  Holds
BY ProcFields DEF Holds

LEMMA EndHolds ==
  ASSUME ClientInv, NEW p \in Procs, End(p)
  PROVE  Holds
BY GoesHolds DEF End

LEMMA StepHolds ==
  ASSUME ClientInv, NEW p \in Procs, proc[p] # None, NEW step, Step(p, step)
  PROVE  Holds
<1>1. proc[p] \in Command
  BY ProcFields
<1>2. LET c == [proc[p] EXCEPT !.step = step]
      IN  /\ c.op = proc[p].op /\ c.user = proc[p].user /\ c.key = proc[p].key
          /\ proc' = [proc EXCEPT ![p] = c]
  BY <1>1 DEF Step, Command
<1> QED
  BY <1>1, <1>2, GoesHolds

LEMMA OthersHold ==
  ASSUME ClientInv, [Next]_vars, \A p \in Procs : ~ AgentBegin(p)
  PROVE  Holds
<1>1. CASE UNCHANGED vars
  BY <1>1 DEF vars, Holds
<1>2. CASE \E p \in Procs : Fail(p) \/ Killed(p) \/ Deliver(p) \/ ExportWrite(p) \/ Import(p)
                             \/ AgentGet(p) \/ AgentAdd(p) \/ AgentUpdate(p) \/ AgentRemove(p)
  BY <1>2, EndHolds
  DEF Fail, Killed, Deliver, ExportWrite, Import, AgentGet, AgentAdd, AgentUpdate, AgentRemove, Respond
<1>3. CASE \E p \in Procs : LoginSave(p) \/ LogoutClear(p) \/ SwitchActivate(p) \/ LockAgent(p)
                             \/ Expire(p) \/ PasswdWrite(p) \/ AgentFindNone(p)
  BY <1>3, EndHolds, StepHolds
  DEF LoginSave, LogoutClear, SwitchActivate, LockAgent, Expire, PasswdWrite, AgentFindNone, At,
      Relocking
<1>4. ASSUME NEW p \in Procs, InitPost(p) \/ UnlockRead(p)
      PROVE  Holds
  <2>1. proc[p] \in Command /\ proc[p].op \notin DataOps
    BY <1>4, ProcFields DEF InitPost, UnlockRead, At, DataOps
  <2>2. ASSUME NEW step, NEW k, proc' = [proc EXCEPT ![p] = [@ EXCEPT !.step = step, !.key = k]]
        PROVE  Holds
    <3>1. LET c == [proc[p] EXCEPT !.step = step, !.key = k]
          IN  c.op = proc[p].op /\ proc' = [proc EXCEPT ![p] = c]
      BY <2>1, <2>2 DEF Command
    <3> QED
      BY <2>1, <3>1, GoesHolds
  <2> QED
    BY <1>4, <2>2, EndHolds DEF InitPost, UnlockRead
<1>5. ASSUME NEW p \in Procs, ReadHeader(p) \/ AgentMeta(p)
      PROVE  Holds
  <2>1. proc[p] # None /\ proc[p] \in Command
    BY <1>5, ProcFields DEF ReadHeader, AgentMeta, At
  <2>2. ASSUME NEW step, NEW h, proc' = [proc EXCEPT ![p] = [@ EXCEPT !.step = step, !.header = h]]
        PROVE  Holds
    <3>1. LET c == [proc[p] EXCEPT !.step = step, !.header = h]
          IN  /\ c.op = proc[p].op /\ c.user = proc[p].user /\ c.key = proc[p].key
              /\ proc' = [proc EXCEPT ![p] = c]
      BY <2>1, <2>2 DEF Command
    <3> QED
      BY <2>1, <3>1, GoesHolds
  <2> QED
    BY <1>5, <2>2 DEF ReadHeader, AgentMeta
<1>6. CASE \E p \in Procs : AgentFind(p)
  <2>1. PICK p \in Procs : AgentFind(p)
    BY <1>6
  <2>2. PICK s \in SecretIds :
          proc' = [proc EXCEPT ![p] = [@ EXCEPT !.step = "write", !.id = s, !.row = secret[s]]]
    BY <2>1 DEF AgentFind, Records
  <2>3. proc[p] # None /\ proc[p] \in Command
    BY <2>1, ProcFields DEF AgentFind, At
  <2>4. LET c == [proc[p] EXCEPT !.step = "write", !.id = s, !.row = secret[s]]
        IN  /\ c.op = proc[p].op /\ c.user = proc[p].user /\ c.key = proc[p].key
            /\ proc' = [proc EXCEPT ![p] = c]
    BY <2>2, <2>3 DEF Command
  <2> QED
    BY <2>3, <2>4, GoesHolds
<1>7. CASE \E p \in Procs, op \in Ops, u \in Users \cup {None}, n \in Names : Start(p, op, u, n)
  BY <1>7, GoesHolds DEF Start
<1>8. CASE \E d \in Devices : Timeout(d)
  BY <1>8 DEF Timeout, Holds
<1> QED
  BY <1>1, <1>2, <1>3, <1>4, <1>5, <1>6, <1>7, <1>8 DEF Next, Work

(* The agent gives a command the key of the command's account.             *)
Matched == \A p \in Procs : AgentBegin(p) => KeyOf(proc[p].user, agentKey[DeviceOf[p]])

LEMMA DataKeysStep ==
  ASSUME ClientInv, DataKeys, [Next]_vars, Matched
  PROVE  DataKeys'
<1> SUFFICES ASSUME NEW q \in Procs, proc'[q] # None, proc'[q].op \in DataOps, proc'[q].key # None
             PROVE  KeyOf(proc[q].user, proc[q].key)'
  BY DEF DataKeys
<1>1. KeepsVaults
  BY ClientStep DEF Stays
<1>2. ASSUME proc[q] # None, proc'[q].op = proc[q].op, proc'[q].user = proc[q].user,
             proc'[q].key = proc[q].key
      PROVE  KeyOf(proc[q].user, proc[q].key)'
  <2>1. proc[q].user \in Users /\ KeyOf(proc[q].user, proc[q].key)
    BY <1>2, Account DEF DataKeys, DataOps
  <2> QED
    BY <1>1, <1>2, <2>1 DEF KeepsVaults, KeyOf
<1>3. CASE \A p \in Procs : ~ AgentBegin(p)
  BY <1>2, <1>3, OthersHold DEF Holds
<1>4. ASSUME NEW p \in Procs, AgentBegin(p)
      PROVE  KeyOf(proc[q].user, proc[q].key)'
  <2>1. /\ proc[p] # None /\ proc[p].op \in DataOps /\ vault' = vault
        /\ proc' = [proc EXCEPT ![p] = [@ EXCEPT !.step = "meta", !.key = agentKey[DeviceOf[p]]]]
    BY <1>4 DEF AgentBegin, At, server
  <2>2. proc[p] \in Command /\ proc \in [Procs -> Command \cup {None}]
    BY <2>1, ProcFields
  <2>3. CASE q = p
    <3>1. proc'[q].user = proc[p].user /\ proc'[q].key = agentKey[DeviceOf[p]]
      BY <2>1, <2>2, <2>3 DEF Command
    <3> QED
      BY <1>4, <2>1, <3>1 DEF Matched, KeyOf
  <2>4. CASE q # p
    BY <1>2, <2>1, <2>2, <2>4
  <2> QED
    BY <2>3, <2>4
<1> QED
  BY <1>3, <1>4

(* What is written is sealed with the key of the vault it goes into.       *)
LEMMA SealedStep ==
  ASSUME ClientInv, ReadInv, [Next]_vars
  PROVE  Sealed(secret)' /\ (file' # None => Sealed(file.records)')
<1>1. secret \in [SecretIds -> SecretRow \cup {None}] /\ Sealed(secret)
      /\ \A s \in SecretIds : secret[s] # None => secret[s] \in SecretRow
  BY Tables DEF ReadInv
<1>2. Sealed(secret)'
  <2>1. CASE secret' = secret
    BY <1>1, <2>1 DEF Sealed
  <2>2. CASE secret' # secret
    <3>1. PICK p \in Procs : Import(p) \/ AgentAdd(p) \/ AgentUpdate(p) \/ AgentRemove(p)
      BY <2>2, RecordsChange
    <3>2. CASE Import(p)
      BY <1>1, <3>2 DEF Import, PostRestore, Sealed, ReadInv
    <3>3. CASE AgentRemove(p)
      BY <1>1, <3>3 DEF AgentRemove, DeleteSecret, Sealed
    <3>4. CASE AgentAdd(p)
      <4>1. proc[p] # None /\ proc[p].op = "add" /\ proc[p].step = "write"
        BY <3>4 DEF AgentAdd, At
      <4>2. proc[p].key = vault[proc[p].user].id
        BY <4>1, Account DEF CommandSound, ReadInv, DataKeys, DataOps, KeyOf
      <4>3. PICK s \in SecretIds, t \in Texts :
              PostSecret(proc[p].user, s, proc[p].name, [key |-> proc[p].key, text |-> t])
        BY <3>4 DEF AgentAdd
      <4>4. secret' = [secret EXCEPT ![s] =
               [vault |-> vault[proc[p].user].id, private |-> vault[proc[p].user].private,
                name |-> proc[p].name, value |-> [key |-> proc[p].key, text |-> t], version |-> 1]]
        BY <4>3 DEF PostSecret
      <4>5. secret'[s].value.key = secret'[s].vault /\ \A r \in SecretIds : r # s => secret'[r] = secret[r]
        BY <1>1, <4>2, <4>4
      <4> QED
        BY <1>1, <4>5 DEF Sealed
    <3>5. CASE AgentUpdate(p)
      <4>1. proc[p] # None /\ proc[p].op = "update" /\ proc[p].step = "write"
        BY <3>5 DEF AgentUpdate, At
      <4>2. proc[p].key = vault[proc[p].user].id /\ proc[p].id \in SecretIds
        BY <4>1, Account, CommandFields DEF CommandSound, ReadInv, DataKeys, DataOps, KeyOf
      <4> DEFINE s == proc[p].id
                 n == proc[p].row.version
      <4>3. PICK t \in Texts : PutSecret(proc[p].user, s, n, [key |-> proc[p].key, text |-> t])
        BY <3>5 DEF AgentUpdate
      <4> HIDE DEF s, n
      <4>4. /\ secret[s] # None /\ secret[s].vault = vault[proc[p].user].id
            /\ secret' = [secret EXCEPT ![s] = [@ EXCEPT !.value = [key |-> proc[p].key, text |-> t],
                                                         !.version = n + 1]]
        BY <4>3 DEF PutSecret, Of
      <4>5. s \in SecretIds /\ secret[s] \in SecretRow
        BY <1>1, <4>2, <4>4 DEF s
      <4>6. /\ \A r \in SecretIds : r # s => secret'[r] = secret[r]
            /\ secret'[s] = [secret[s] EXCEPT !.value = [key |-> proc[p].key, text |-> t],
                                              !.version = n + 1]
        BY <1>1, <4>4, <4>5
      <4>7. secret'[s].value = [key |-> proc[p].key, text |-> t] /\ secret'[s].vault = secret[s].vault
        BY <4>5, <4>6 DEF SecretRow
      <4> QED
        BY <1>1, <4>2, <4>4, <4>6, <4>7 DEF Sealed
    <3> QED
      BY <3>1, <3>2, <3>3, <3>4, <3>5
  <2> QED
    BY <2>1, <2>2
<1>3. ASSUME file' # None
      PROVE  Sealed(file.records)'
  <2>1. CASE file' = file
    BY <1>3, <2>1 DEF ReadInv, Sealed
  <2>2. CASE file' # file
    <3>1. PICK p \in Procs : ExportWrite(p)
      BY <2>2, FileChanges
    <3>2. file'.records = [s \in SecretIds |-> IF Of(proc[p].user, s) THEN secret[s] ELSE None]
      BY <3>1 DEF ExportWrite
    <3> QED
      BY <1>1, <3>2 DEF Sealed
  <2> QED
    BY <2>1, <2>2
<1> QED
  BY <1>2, <1>3

LEMMA ReadStep ==
  ASSUME ClientInv, ReadInv, [Next]_vars, Matched
  PROVE  ReadInv'
BY DataKeysStep, SealedStep DEF ReadInv

LEMMA ReadInit == Init => ReadInv
BY DEF Init, ReadInv, Sealed, DataKeys

LEMMA Readable ==
  ASSUME ClientInv, ReadInv
  PROVE  RecordsReadable /\ BackupReadable
<1>1. RecordsReadable
  BY Tables DEF RecordsReadable, ReadInv, Sealed, Of, VaultOf
<1>2. BackupReadable
  BY DEF BackupReadable, ClientInv, FileSound, ReadInv, Sealed, VaultOf, RowsSound
<1> QED
  BY <1>1, <1>2

(* One account: its devices may run any number of commands at once, be     *)
(* killed at any step, and rotate, export and restore as they like.        *)
OneUser == \A u, v \in Users : u = v

LEMMA OneUserMatched ==
  ASSUME OneUser, ClientInv
  PROVE  Matched
<1> SUFFICES ASSUME NEW p \in Procs, AgentBegin(p)
             PROVE  KeyOf(proc[p].user, agentKey[DeviceOf[p]])
  BY DEF Matched
<1>1. /\ proc[p] # None /\ proc[p].op \notin {"lock", "logout"}
      /\ agentKey[DeviceOf[p]] # None /\ DeviceOf[p] \in Devices
  BY ProcFields DEF AgentBegin, At, DataOps
<1>2. proc[p].user \in Users
  BY <1>1, Account
<1>3. PICK u \in Users : KeyOf(u, agentKey[DeviceOf[p]])
  BY <1>1 DEF ClientInv, KeysOwned
<1> QED
  BY <1>2, <1>3 DEF OneUser

LEMMA OneUserRead ==
  ASSUME OneUser
  PROVE  Spec => [](RecordsReadable /\ BackupReadable)
<1>1. ClientInv /\ ReadInv /\ [Next]_vars => ReadInv'
  BY OneUserMatched, ReadStep
<1>2. ClientInv /\ ReadInv => RecordsReadable /\ BackupReadable
  BY Readable
<1> QED
  BY ClientAlways, ReadInit, <1>1, <1>2, PTL DEF Spec

(* Where there is one account, its header opens each of its records        *)
(* (vault_service.cpp), however the processes of all its devices           *)
(* interleave with rotations and restores.                                 *)
THEOREM OneAccountReadable ==
  ASSUME OneUser
  PROVE  Spec => []RecordsReadable
BY OneUserRead, PTL

(* Its backup opens all of the records it holds, and can be restored.      *)
THEOREM OneAccountBackup ==
  ASSUME OneUser
  PROVE  Spec => []BackupReadable
BY OneUserRead, PTL

-----------------------------------------------------------------------------
(* One command at a time on each device, and none killed: then any number  *)
(* of accounts may share the devices.  `terminals' shows what goes wrong   *)
(* when two commands meet.                                                 *)
OneCommand == (\A p, q \in Procs : DeviceOf[p] = DeviceOf[q] => p = q) /\ Kills = FALSE

(* The process p leaves c, and on its device the session u and the key k.  *)
Moves(p, c, u, k) ==
  /\ proc' = [proc EXCEPT ![p] = c]
  /\ session' = [session EXCEPT ![DeviceOf[p]] = u]
  /\ agentKey' = [agentKey EXCEPT ![DeviceOf[p]] = k]
  /\ c # None =>
       /\ c.op \notin {"login", "switch"} /\ c.step # "relock" => c.user = u
       /\ c.op = "login" /\ c.step = "lock" => u # None
       /\ c.step \in {"clear", "activate"} => k = None
  /\ k # None => (u # None /\ KeyOf(u, k)) \/ (c # None /\ Locks(c))

LEMMA MovesSound ==
  ASSUME ClientInv, SessionInv, OneCommand, KeepsVaults, NEW p \in Procs, NEW c, NEW u, NEW k,
         u \in Users \cup {None}, Moves(p, c, u, k)
  PROVE  SessionInv'
<1>1. /\ proc \in [Procs -> Command \cup {None}] /\ DeviceOf \in [Procs -> Devices]
      /\ session \in [Devices -> Users \cup {None}] /\ agentKey \in [Devices -> VaultIds \cup {None}]
  BY ClientAssumption DEF ClientInv, TypeOK, ClientAssumption
<1> DEFINE d == DeviceOf[p]
<1>2. d \in Devices
  BY <1>1
<1>3. /\ proc'[p] = c /\ session'[d] = u /\ agentKey'[d] = k
      /\ \A q \in Procs : q # p => proc'[q] = proc[q]
      /\ \A e \in Devices : e # d => session'[e] = session[e] /\ agentKey'[e] = agentKey[e]
  BY <1>1, <1>2 DEF Moves
<1>4. ASSUME NEW q \in Procs, proc'[q] # None
      PROVE  CommandAlone(q)'
  <2>1. CASE q = p
    BY <1>3, <1>4, <2>1 DEF Moves, CommandAlone
  <2>2. CASE q # p
    <3>1. DeviceOf[q] \in Devices /\ DeviceOf[q] # d
      BY <1>1, <2>2 DEF OneCommand
    <3> QED
      BY <1>3, <1>4, <2>2, <3>1 DEF SessionInv, CommandAlone
  <2> QED
    BY <2>1, <2>2
<1>5. ASSUME NEW e \in Devices
      PROVE  DeviceSound(e)'
  <2>1. CASE e = d
    <3>1. KeyOf(u, k) /\ u # None => KeyOf(session[e], agentKey[e])'
      BY <1>3, <2>1, Kept DEF KeyOf
    <3>2. c # None /\ Locks(c) => Locking(p)'
      BY <1>3 DEF Locking, Locks
    <3> QED
      BY <1>3, <2>1, <3>1, <3>2 DEF Moves, DeviceSound
  <2>2. CASE e # d
    <3>1. agentKey'[e] = agentKey[e] /\ session'[e] = session[e] /\ DeviceSound(e)
      BY <1>3, <2>2 DEF SessionInv
    <3>2. session[e] # None /\ KeyOf(session[e], agentKey[e]) => KeyOf(session[e], agentKey[e])'
      BY <1>1, <3>1, Kept DEF KeyOf
    <3>3. ASSUME NEW q \in Procs, DeviceOf[q] = e, Locking(q)
          PROVE  Locking(q)'
      BY <1>3, <2>2, <3>3 DEF Locking, Locks
    <3> QED
      BY <3>1, <3>2, <3>3 DEF DeviceSound
  <2> QED
    BY <2>1, <2>2
<1> QED
  BY <1>4, <1>5 DEF SessionInv

(* What a command that has no agent left to lock knows of its device.      *)
LEMMA Device ==
  ASSUME ClientInv, SessionInv, OneCommand, NEW p \in Procs
  PROVE  /\ DeviceOf[p] \in Devices
         /\ session[DeviceOf[p]] \in Users \cup {None}
         /\ session' = session => session' = [session EXCEPT ![DeviceOf[p]] = session[DeviceOf[p]]]
         /\ agentKey' = agentKey =>
              agentKey' = [agentKey EXCEPT ![DeviceOf[p]] = agentKey[DeviceOf[p]]]
         /\ proc[p] # None => CommandAlone(p)
         /\ ~ Locking(p) /\ agentKey[DeviceOf[p]] # None =>
              /\ session[DeviceOf[p]] # None
              /\ KeyOf(session[DeviceOf[p]], agentKey[DeviceOf[p]])
<1>1. DeviceOf[p] \in Devices /\ session \in [Devices -> Users \cup {None}]
      /\ agentKey \in [Devices -> VaultIds \cup {None}]
  BY ProcFields DEF ClientInv, TypeOK
<1>2. \A q \in Procs : DeviceOf[q] = DeviceOf[p] => q = p
  BY DEF OneCommand
<1>3. DeviceSound(DeviceOf[p]) /\ (proc[p] # None => CommandAlone(p))
  BY <1>1 DEF SessionInv
<1> QED
  BY <1>1, <1>2, <1>3 DEF DeviceSound

(* A step that leaves session and key as they are.                         *)
LEMMA Quiet ==
  ASSUME ClientInv, SessionInv, OneCommand, KeepsVaults, NEW p \in Procs, NEW c,
         session' = session, agentKey' = agentKey, ~ Locking(p),
         proc' = [proc EXCEPT ![p] = c],
         c # None => /\ c.op \notin {"login", "switch"} => c.user = session[DeviceOf[p]]
                     /\ c.step \notin {"lock", "clear", "activate", "relock"}
                          \/ (c.op = "passwd" /\ c.step = "lock")
  PROVE  SessionInv'
<1>1. Moves(p, c, session[DeviceOf[p]], agentKey[DeviceOf[p]])
  BY Device DEF Moves
<1> QED
  BY <1>1, Device, MovesSound

(* The commands that leave session and key alone.                          *)
LEMMA QuietEnds ==
  ASSUME ClientInv, SessionInv, OneCommand, KeepsVaults, NEW p \in Procs, session' = session,
         agentKey' = agentKey, ~ Locking(p), End(p)
  PROVE  SessionInv'
BY Quiet DEF End

LEMMA QuietGoes ==
  ASSUME ClientInv, SessionInv, OneCommand, KeepsVaults, NEW p \in Procs, NEW c \in Command,
         session' = session, agentKey' = agentKey, proc[p] # None, ~ Locking(p),
         proc[p].op # "logout", proc' = [proc EXCEPT ![p] = c], c.op = proc[p].op, c.user = proc[p].user,
         c.step \in {"meta", "list", "write", "deliver"} \/ (c.op = "passwd" /\ c.step = "lock")
  PROVE  SessionInv'
<1>1. c.op \notin {"login", "switch"} => c.user = session[DeviceOf[p]]
  BY Device DEF CommandAlone, Locking, Locks
<1> QED
  BY <1>1, Quiet

LEMMA SteppingQuietly ==
  ASSUME ClientInv, SessionInv, OneCommand, KeepsVaults, NEW p \in Procs, session' = session,
         agentKey' = agentKey, proc[p] # None, ~ Locking(p), proc[p].op # "logout",
         NEW step \in Steps, Step(p, step),
         step \in {"meta", "list", "write", "deliver"} \/ (proc[p].op = "passwd" /\ step = "lock")
  PROVE  SessionInv'
<1>1. proc[p] \in Command
  BY ProcFields
<1>2. PICK c \in Command : c = [proc[p] EXCEPT !.step = step]
  BY <1>1 DEF Command
<1>3. c.op = proc[p].op /\ c.user = proc[p].user /\ c.step = step /\ proc' = [proc EXCEPT ![p] = c]
  BY <1>1, <1>2 DEF Step, Command
<1> QED
  BY <1>3, QuietGoes

LEMMA QuietWork ==
  ASSUME ClientInv, SessionInv, OneCommand, KeepsVaults, NEW p \in Procs,
         \/ InitPost(p) \/ UnlockRead(p) \/ ReadHeader(p) \/ PasswdWrite(p) \/ ExportWrite(p)
         \/ Import(p) \/ AgentBegin(p) \/ AgentMeta(p) \/ AgentFind(p) \/ AgentFindNone(p)
         \/ AgentGet(p) \/ AgentAdd(p) \/ AgentUpdate(p) \/ AgentRemove(p)
         \/ Fail(p)
  PROVE  SessionInv'
<1>1. session' = session /\ agentKey' = agentKey
  BY DEF InitPost, UnlockRead, ReadHeader, PasswdWrite, ExportWrite, Import, AgentBegin, AgentMeta,
         AgentFind, AgentFindNone, AgentGet, AgentAdd, AgentUpdate, AgentRemove, Fail, device
<1>2. proc[p] # None /\ ~ Locking(p)
  BY DEF InitPost, UnlockRead, ReadHeader, PasswdWrite, ExportWrite, Import, AgentBegin, AgentMeta,
         AgentFind, AgentFindNone, AgentGet, AgentAdd, AgentUpdate, AgentRemove, Fail, At, DataOps,
         Locking, Locks, Relocking
<1>3. proc[p] \in Command
  BY <1>2, ProcFields
<1>4. CASE End(p)
  BY <1>1, <1>2, <1>4, QuietEnds
<1>5. CASE InitPost(p) \/ UnlockRead(p)
  <2>1. End(p) \/ \E k \in VaultIds \cup {None} :
           proc' = [proc EXCEPT ![p] = [@ EXCEPT !.step = "deliver", !.key = k]]
    <3>1. CASE InitPost(p)
      BY <3>1 DEF InitPost
    <3>2. CASE UnlockRead(p)
      <4>1. proc[p].user \in Users /\ vault[proc[p].user].header.key \in VaultIds
        <5>1. proc[p].op = "unlock" /\ vault[proc[p].user] # None
          BY <3>2 DEF UnlockRead, At
        <5> QED
          BY <1>2, <5>1, Account
      <4> QED
        BY <3>2, <4>1 DEF UnlockRead
    <3> QED
      BY <1>5, <3>1, <3>2
  <2>2. ASSUME NEW k \in VaultIds \cup {None},
               proc' = [proc EXCEPT ![p] = [@ EXCEPT !.step = "deliver", !.key = k]]
        PROVE  SessionInv'
    <3>1. PICK c \in Command : c = [proc[p] EXCEPT !.step = "deliver", !.key = k]
      BY <1>3 DEF Command, Steps
    <3>2. c.op = proc[p].op /\ c.user = proc[p].user /\ c.step = "deliver" /\ proc[p].op # "logout"
      BY <1>3, <1>5, <3>1 DEF Command, InitPost, UnlockRead, At
    <3>3. proc' = [proc EXCEPT ![p] = c]
      BY <2>2, <3>1
    <3> QED
      BY <1>1, <1>2, <3>2, <3>3, QuietGoes
  <2> QED
    BY <1>4, <2>1, <2>2
<1>6. CASE ReadHeader(p) \/ AgentMeta(p)
  <2>1. /\ vault[proc[p].user] # None /\ proc[p].op \in {"passwd", "export"} \cup DataOps
        /\ \E step \in {"write", "list"} :
             proc' = [proc EXCEPT ![p] = [@ EXCEPT !.step = step, !.header = vault[proc[p].user]]]
    BY <1>6 DEF ReadHeader, AgentMeta, At
  <2>2. PICK row \in VaultRow : row = vault[proc[p].user]
    BY <1>2, <2>1, Account DEF DataOps
  <2>3. PICK step \in {"write", "list"} :
          proc' = [proc EXCEPT ![p] = [@ EXCEPT !.step = step, !.header = row]]
    BY <2>1, <2>2
  <2>4. PICK c \in Command : c = [proc[p] EXCEPT !.step = step, !.header = row]
    BY <1>3 DEF Command, Steps
  <2>5. c.op = proc[p].op /\ c.user = proc[p].user /\ c.step = step /\ proc[p].op # "logout"
    BY <1>3, <2>1, <2>4 DEF Command, DataOps
  <2>6. proc' = [proc EXCEPT ![p] = c]
    BY <2>3, <2>4
  <2> QED
    BY <1>1, <1>2, <2>5, <2>6, QuietGoes
<1>7. CASE PasswdWrite(p) \/ AgentFindNone(p)
  <2>1. /\ proc[p].op \in {"passwd", "add"}
        /\ End(p) \/ Step(p, "write") \/ (proc[p].op = "passwd" /\ Step(p, "lock"))
    BY <1>7 DEF PasswdWrite, AgentFindNone, At
  <2> QED
    BY <1>1, <1>2, <1>4, <2>1, SteppingQuietly DEF Steps
<1>8. CASE AgentBegin(p)
  <2>1. /\ proc[p].op \in DataOps
        /\ proc' = [proc EXCEPT ![p] = [@ EXCEPT !.step = "meta", !.key = agentKey[DeviceOf[p]]]]
    BY <1>8 DEF AgentBegin, At
  <2>2. PICK k \in VaultIds \cup {None} : k = agentKey[DeviceOf[p]]
    BY ProcFields DEF ClientInv, TypeOK
  <2>3. PICK c \in Command : c = [proc[p] EXCEPT !.step = "meta", !.key = k]
    BY <1>3 DEF Command, Steps
  <2>4. c.op = proc[p].op /\ c.user = proc[p].user /\ c.step = "meta" /\ proc[p].op # "logout"
    BY <1>3, <2>1, <2>3 DEF Command, DataOps
  <2>5. proc' = [proc EXCEPT ![p] = c]
    BY <2>1, <2>2, <2>3
  <2> QED
    BY <1>1, <1>2, <2>4, <2>5, QuietGoes
<1>9. CASE AgentFind(p)
  <2>1. PICK s \in Records(proc[p].user) :
          proc' = [proc EXCEPT ![p] = [@ EXCEPT !.step = "write", !.id = s, !.row = secret[s]]]
    BY <1>9 DEF AgentFind
  <2>2. PICK row \in SecretRow : row = secret[s] /\ s \in SecretIds
    BY <2>1, Tables DEF Records, Of
  <2>3. PICK c \in Command : c = [proc[p] EXCEPT !.step = "write", !.id = s, !.row = row]
    BY <1>3, <2>2 DEF Command, Steps
  <2>4. c.op = proc[p].op /\ c.user = proc[p].user /\ c.step = "write" /\ proc[p].op # "logout"
    BY <1>3, <1>9, <2>3 DEF Command, AgentFind, At
  <2>5. proc' = [proc EXCEPT ![p] = c]
    BY <2>1, <2>2, <2>3
  <2> QED
    BY <1>1, <1>2, <2>4, <2>5, QuietGoes
<1>10. CASE ExportWrite(p) \/ Import(p) \/ AgentGet(p) \/ AgentAdd(p) \/ AgentUpdate(p)
            \/ AgentRemove(p) \/ Fail(p)
  BY <1>4, <1>10 DEF ExportWrite, Import, AgentGet, AgentAdd, AgentUpdate, AgentRemove, Fail, Respond
<1> QED
  BY <1>5, <1>6, <1>7, <1>8, <1>9, <1>10

LEMMA StepMoves ==
  ASSUME ClientInv, NEW p \in Procs, proc[p] # None, NEW step \in Steps, Step(p, step)
  PROVE  \E c \in Command : /\ proc' = [proc EXCEPT ![p] = c] /\ c.op = proc[p].op
                            /\ c.user = proc[p].user /\ c.step = step
<1>1. proc[p] \in Command
  BY ProcFields
<1>2. PICK c \in Command : c = [proc[p] EXCEPT !.step = step]
  BY <1>1 DEF Command
<1>3. c.op = proc[p].op /\ c.user = proc[p].user /\ c.step = step /\ proc' = [proc EXCEPT ![p] = c]
  BY <1>1, <1>2 DEF Step, Command
<1> QED
  BY <1>3

(* The commands that change session or key.                                *)
LEMMA LoginSaveSession ==
  ASSUME ClientInv, SessionInv, OneCommand, KeepsVaults, NEW p \in Procs, LoginSave(p)
  PROVE  SessionInv'
<1>1. proc[p] # None /\ proc[p].op = "login" /\ Step(p, "lock") /\ agentKey' = agentKey
      /\ session' = [session EXCEPT ![DeviceOf[p]] = proc[p].user]
  BY DEF LoginSave, At, SetSession
<1>2. proc[p].user \in Users /\ proc[p].user # None
  BY <1>1, Account, NotNone
<1>3. PICK c \in Command : proc' = [proc EXCEPT ![p] = c] /\ c.op = "login"
                           /\ c.user = proc[p].user /\ c.step = "lock"
  BY <1>1, StepMoves DEF Steps
<1>4. Moves(p, c, proc[p].user, agentKey[DeviceOf[p]])
  BY <1>1, <1>2, <1>3, Device, NotNone DEF Moves, Locks
<1> QED
  BY <1>2, <1>4, MovesSound

LEMMA LockAgentSession ==
  ASSUME ClientInv, SessionInv, OneCommand, KeepsVaults, NEW p \in Procs, LockAgent(p)
  PROVE  SessionInv'
<1>1. proc[p] # None /\ session' = session /\ agentKey' = [agentKey EXCEPT ![DeviceOf[p]] = None]
  BY DEF LockAgent, SetAgentKey, At, Relocking
<1>2. CASE End(p)
  <2>1. Moves(p, None, session[DeviceOf[p]], None)
    BY <1>1, <1>2, Device DEF Moves, End
  <2> QED
    BY <2>1, Device, MovesSound
<1>3. ASSUME NEW step \in {"clear", "activate"}, Step(p, step),
             proc[p].op = "logout" \/ proc[p].op = "switch", proc[p].step = "start"
      PROVE  SessionInv'
  <2>1. PICK c \in Command : proc' = [proc EXCEPT ![p] = c] /\ c.op = proc[p].op
                             /\ c.user = proc[p].user /\ c.step = step
    BY <1>1, <1>3, StepMoves DEF Steps
  <2>2. c.op \notin {"login", "switch"} => c.user = session[DeviceOf[p]]
    BY <1>1, <1>3, <2>1, Device DEF CommandAlone
  <2>3. Moves(p, c, session[DeviceOf[p]], None)
    BY <1>1, <1>3, <2>1, <2>2, Device DEF Moves
  <2> QED
    BY <2>3, Device, MovesSound
<1> QED
  BY <1>2, <1>3 DEF LockAgent, At

LEMMA ClearSession ==
  ASSUME ClientInv, SessionInv, OneCommand, KeepsVaults, NEW p \in Procs,
         LogoutClear(p) \/ SwitchActivate(p)
  PROVE  SessionInv'
<1>1. /\ proc[p] # None /\ proc[p].step \in {"clear", "activate"} /\ End(p) /\ agentKey' = agentKey
      /\ \/ session' = [session EXCEPT ![DeviceOf[p]] = None]
         \/ session' = [session EXCEPT ![DeviceOf[p]] = proc[p].user]
  BY DEF LogoutClear, SwitchActivate, At, SetSession
<1>2. agentKey[DeviceOf[p]] = None
  BY <1>1, Device DEF CommandAlone
<1>3. proc[p].user \in Users \cup {None}
  BY <1>1, ProcFields, CommandFields
<1>4. Moves(p, None, None, None) \/ Moves(p, None, proc[p].user, None)
  BY <1>1, <1>2, Device DEF Moves, End
<1> QED
  BY <1>3, <1>4, MovesSound

LEMMA ExpireSession ==
  ASSUME ClientInv, SessionInv, OneCommand, KeepsVaults, NEW p \in Procs, Expire(p)
  PROVE  SessionInv'
<1>1. /\ proc[p] # None /\ proc[p].op # "logout" /\ Step(p, "relock") /\ agentKey' = agentKey
      /\ session' = [session EXCEPT ![DeviceOf[p]] = None]
  BY DEF Expire, At, SetSession
<1>2. PICK c \in Command : proc' = [proc EXCEPT ![p] = c] /\ c.op # "logout" /\ c.step = "relock"
  BY <1>1, StepMoves DEF Steps
<1>3. Moves(p, c, None, agentKey[DeviceOf[p]])
  BY <1>1, <1>2, Device, NotNone DEF Moves, Locks
<1> QED
  BY <1>3, MovesSound

LEMMA DeliverSession ==
  ASSUME ClientInv, SessionInv, OneCommand, KeepsVaults, NEW p \in Procs, Deliver(p)
  PROVE  SessionInv'
<1>1. /\ proc[p] # None /\ proc[p].op \in {"unlock", "init"} /\ proc[p].step = "deliver" /\ End(p)
      /\ session' = session /\ agentKey' = [agentKey EXCEPT ![DeviceOf[p]] = proc[p].key]
  BY DEF Deliver, SetAgentKey, At
<1>2. proc[p].user \in Users /\ proc[p].user # None /\ KeyOf(proc[p].user, proc[p].key)
  BY <1>1, Account, NotNone DEF CommandSound
<1>3. proc[p].user = session[DeviceOf[p]]
  BY <1>1, Device DEF CommandAlone
<1>4. Moves(p, None, proc[p].user, proc[p].key)
  BY <1>1, <1>2, <1>3, Device DEF Moves, End
<1> QED
  BY <1>2, <1>4, MovesSound

LEMMA StartSession ==
  ASSUME ClientInv, SessionInv, OneCommand, KeepsVaults, NEW p \in Procs, NEW op, NEW u, NEW n,
         Start(p, op, u, n)
  PROVE  SessionInv'
<1> DEFINE c == [op |-> op, step |-> "start", user |-> u, name |-> n, key |-> None,
                 header |-> None, id |-> None, row |-> None]
<1>1. /\ proc[p] = None /\ proc' = [proc EXCEPT ![p] = c] /\ session' = session
      /\ agentKey' = agentKey /\ (op \notin {"login", "switch"} => u = session[DeviceOf[p]])
  BY DEF Start, device
<1>2. c.op = op /\ c.user = u /\ c.step = "start"
  OBVIOUS
<1> HIDE DEF c
<1>3. ~ Locking(p)
  BY <1>1 DEF Locking
<1> QED
  BY <1>1, <1>2, <1>3, Quiet

LEMMA TimeoutSession ==
  ASSUME ClientInv, SessionInv, KeepsVaults, NEW d \in Devices, Timeout(d)
  PROVE  SessionInv'
<1>1. /\ agentKey' = [agentKey EXCEPT ![d] = None] /\ session' = session /\ proc' = proc
      /\ agentKey \in [Devices -> VaultIds \cup {None}]
      /\ session \in [Devices -> Users \cup {None}] /\ DeviceOf \in [Procs -> Devices]
  BY ClientAssumption DEF Timeout, ClientInv, TypeOK, ClientAssumption
<1>2. ASSUME NEW q \in Procs, proc'[q] # None
      PROVE  CommandAlone(q)'
  BY <1>1, <1>2 DEF SessionInv, CommandAlone
<1>3. ASSUME NEW e \in Devices
      PROVE  DeviceSound(e)'
  <2>1. CASE e = d
    BY <1>1, <2>1 DEF DeviceSound
  <2>2. CASE e # d
    <3>1. DeviceSound(e) /\ agentKey'[e] = agentKey[e] /\ session'[e] = session[e]
      BY <1>1, <2>2 DEF SessionInv
    <3>2. session[e] # None /\ KeyOf(session[e], agentKey[e]) => KeyOf(session[e], agentKey[e])'
      BY <1>1, <3>1, Kept DEF KeyOf
    <3>3. \A q \in Procs : Locking(q) => Locking(q)'
      BY <1>1 DEF Locking, Locks
    <3> QED
      BY <3>1, <3>2, <3>3 DEF DeviceSound
  <2> QED
    BY <2>1, <2>2
<1> QED
  BY <1>2, <1>3 DEF SessionInv

LEMMA SessionStep ==
  ASSUME ClientInv, SessionInv, OneCommand, [Next]_vars
  PROVE  SessionInv'
<1>1. KeepsVaults
  BY ClientStep DEF Stays
<1>2. CASE UNCHANGED vars
  BY <1>2 DEF vars, SessionInv, CommandAlone, DeviceSound, KeyOf, Locking, Locks
<1>3. ASSUME NEW p \in Procs, Work(p) \/ Fail(p) \/ Killed(p)
      PROVE  SessionInv'
  BY <1>1, <1>3, QuietWork, LoginSaveSession, LockAgentSession, ClearSession, ExpireSession,
     DeliverSession
  DEF Work, Killed, OneCommand
<1>4. ASSUME NEW p \in Procs, NEW op \in Ops, NEW u \in Users \cup {None}, NEW n \in Names,
             Start(p, op, u, n)
      PROVE  SessionInv'
  BY <1>1, <1>4, StartSession
<1>5. ASSUME NEW d \in Devices, Timeout(d)
      PROVE  SessionInv'
  BY <1>1, <1>5, TimeoutSession
<1> QED
  BY <1>2, <1>3, <1>4, <1>5 DEF Next

LEMMA SessionMatched ==
  ASSUME OneCommand, ClientInv, SessionInv
  PROVE  Matched
<1> SUFFICES ASSUME NEW p \in Procs, AgentBegin(p)
             PROVE  KeyOf(proc[p].user, agentKey[DeviceOf[p]])
  BY DEF Matched
<1>1. /\ proc[p] # None /\ proc[p].op \notin {"login", "switch"} /\ ~ Locking(p)
      /\ agentKey[DeviceOf[p]] # None
  BY DEF AgentBegin, At, DataOps, Locking, Locks
<1>2. proc[p].step # "relock"
  BY DEF AgentBegin, At
<1> QED
  BY <1>1, <1>2, Device DEF CommandAlone

LEMMA SessionAlways ==
  ASSUME OneCommand
  PROVE  Spec => [](ClientInv /\ SessionInv /\ ReadInv)
<1>1. Init => SessionInv
  BY DEF Init, SessionInv, DeviceSound
<1>2. ClientInv /\ SessionInv /\ [Next]_vars => SessionInv'
  BY SessionStep
<1>3. ClientInv /\ SessionInv /\ ReadInv /\ [Next]_vars => ReadInv'
  BY SessionMatched, ReadStep
<1> QED
  BY ClientAlways, ReadInit, <1>1, <1>2, <1>3, PTL DEF Spec

(* Where each device runs one command at a time to its end, each account's *)
(* header opens its records, whoever else uses the devices: the agent that *)
(* serves a command holds the key of the command's account                 *)
(* (agent.cpp:511-514).                                                    *)
THEOREM OneCommandReadable ==
  ASSUME OneCommand
  PROVE  Spec => []RecordsReadable
<1>1. ClientInv /\ SessionInv /\ ReadInv => RecordsReadable
  BY Readable
<1> QED
  BY SessionAlways, <1>1, PTL

(* There an idle device with a key in its agent has the session of the     *)
(* account whose key it is.                                                *)
THEOREM OneCommandKey ==
  ASSUME OneCommand
  PROVE  Spec => []KeyOfSession
<1>1. ASSUME ClientInv, SessionInv PROVE KeyOfSession
  <2> SUFFICES ASSUME NEW d \in Devices, \A p \in Procs : DeviceOf[p] = d => proc[p] = None,
                      agentKey[d] # None
               PROVE  /\ session[d] # None /\ vault[session[d]] # None
                      /\ agentKey[d] = vault[session[d]].header.key
    BY DEF KeyOfSession
  <2>1. session[d] # None /\ KeyOf(session[d], agentKey[d])
    BY <1>1 DEF SessionInv, DeviceSound, Locking
  <2>2. session[d] \in Users
    BY <1>1, <2>1 DEF ClientInv, TypeOK
  <2> QED
    BY <1>1, <2>1, <2>2, Tables DEF KeyOf, VaultOf
<1>2. ClientInv /\ SessionInv /\ ReadInv => KeyOfSession
  BY <1>1
<1> QED
  BY SessionAlways, <1>2, PTL

(* There whoever clears a session has locked the agent before, and nothing *)
(* can unlock it in between; or it is the GUI's handler of an expired      *)
(* session (app_controller.cpp:169-175, 397-401), which locks it next.     *)
THEOREM OneCommandLogout ==
  ASSUME OneCommand
  PROVE  Spec => []LogoutClears
<1>1. ASSUME SessionInv PROVE LogoutClears
  <2> SUFFICES ASSUME NEW d \in Devices, session[d] = None, agentKey[d] # None
               PROVE  \E p \in Procs : DeviceOf[p] = d /\ Relocking(p) /\ proc[p].op # "logout"
    BY DEF LogoutClears
  <2>1. PICK p \in Procs : DeviceOf[p] = d /\ Locking(p)
    BY <1>1 DEF SessionInv, DeviceSound
  <2>2. ~ (proc[p].op = "login" /\ proc[p].step = "lock")
    BY <1>1, <2>1 DEF SessionInv, CommandAlone, Locking
  <2> QED
    BY <2>1, <2>2 DEF Locking, Locks, Relocking
<1>2. ClientInv /\ SessionInv /\ ReadInv => LogoutClears
  BY <1>1
<1> QED
  BY SessionAlways, <1>2, PTL

-----------------------------------------------------------------------------
(* The abstract specification, for any accounts, devices and processes:    *)
(* each call of the clients is a change that AtomicVaults offers, because  *)
(* what it leaves is well-formed.                                          *)
LEMMA OnlyOne ==
  ASSUME ClientInv, ClientInv', NEW u \in Users, vault'[u] # None,
         \A o \in Users : o # u => vault'[o] = vault[o]
  PROVE  Atomic!Only(u)
<1>1. /\ vault' \in [Users -> Atomic!VaultRow \cup {None}]
      /\ secret' \in [SecretIds -> Atomic!SecretRow \cup {None}]
  BY DEF ClientInv, TypeOK, VaultRow, SecretRow, Atomic!VaultRow, Atomic!SecretRow
<1>2. VaultOf(u, vault[u])' /\ RowsSound(secret)'
  BY DEF ClientInv, TablesSound
<1>3. \A s \in Atomic!Contents(secret', vault'[u].id) :
        s \in SecretIds /\ secret'[s] # None /\ secret'[s].vault = vault'[u].id
  BY DEF Atomic!Contents
<1>4. Atomic!WellFormed(vault'[u], secret')
  BY <1>2, <1>3 DEF Atomic!WellFormed, VaultOf, RowsSound
<1> QED
  BY <1>1, <1>4 DEF Atomic!Only

LEMMA OwnIsOf ==
  ASSUME NEW u \in Users, NEW s \in SecretIds
  PROVE  Atomic!Own(u, s) <=> Of(u, s)
BY DEF Atomic!Own, Atomic!Contents, Of

LEMMA OneRecord ==
  ASSUME ClientInv, ClientInv', NEW u \in Users, NEW s \in SecretIds, vault[u] # None,
         vault' = vault, \A t \in SecretIds : t # s => secret'[t] = secret[t]
  PROVE  Atomic!OneSecret(u, s)
BY OnlyOne DEF Atomic!OneSecret

LEMMA NewVaultStep ==
  ASSUME ClientInv, ClientInv', NEW u \in Users, NEW v \in VaultIds, NEW pw \in Passwords,
         PostVault(u, v, pw)
  PROVE  Atomic!NewVault(u)
<1> DEFINE row == [id |-> v, header |-> [key |-> v, pw |-> pw], private |-> Private[v]]
<1>1. row \in VaultRow /\ row # None /\ row.id = v
  BY ClientAssumption, NotNone DEF ClientAssumption, VaultRow, Headers
<1>2. /\ vault[u] = None /\ vault' = [vault EXCEPT ![u] = row] /\ secret' = secret
      /\ \A o \in Users : vault[o] # None => vault[o].id # v
  BY DEF PostVault
<1> HIDE DEF row
<1>3. vault'[u] = row /\ \A o \in Users : o # u => vault'[o] = vault[o]
  BY <1>2, Tables
<1> QED
  BY <1>1, <1>2, <1>3, OnlyOne DEF Atomic!NewVault

LEMMA RewrapStep ==
  ASSUME ClientInv, ClientInv', KeepsVaults, NEW u \in Users, NEW header, PutKey(u, header)
  PROVE  Atomic!Rewrap(u)
<1>1. vault[u] # None /\ vault[u] \in VaultRow /\ secret' = secret
      /\ vault' = [vault EXCEPT ![u] = [@ EXCEPT !.header = header]]
  BY Tables DEF PutKey
<1>2. /\ vault'[u] = [vault[u] EXCEPT !.header = header]
      /\ \A o \in Users : o # u => vault'[o] = vault[o]
  BY <1>1, Tables
<1>3. vault'[u].id = vault[u].id /\ vault'[u].private = vault[u].private /\ vault'[u] # None
  BY <1>1, <1>2 DEF VaultRow, KeepsVaults
<1> QED
  BY <1>1, <1>2, <1>3, OnlyOne DEF Atomic!Rewrap

LEMMA AddStep ==
  ASSUME ClientInv, ClientInv', NEW u \in Users, NEW s \in SecretIds, NEW name \in Names,
         NEW value \in Values, PostSecret(u, s, name, value)
  PROVE  Atomic!Add(u, s)
<1> DEFINE row == [vault |-> vault[u].id, private |-> vault[u].private,
                   name |-> name, value |-> value, version |-> 1]
<1>1. /\ vault[u] # None /\ secret[s] = None /\ vault' = vault
      /\ secret' = [secret EXCEPT ![s] = row]
  BY DEF PostSecret
<1>2. row \in SecretRow /\ row.vault = vault[u].id /\ row.version = 1
  BY <1>1, Tables, RowFields DEF SecretRow
<1> HIDE DEF row
<1>3. secret'[s] = row /\ \A t \in SecretIds : t # s => secret'[t] = secret[t]
  BY <1>1, Tables
<1> QED
  BY <1>1, <1>2, <1>3, NotNone, OneRecord DEF Atomic!Add

LEMMA UpdateStep ==
  ASSUME ClientInv, ClientInv', NEW u \in Users, NEW s \in SecretIds, NEW version,
         NEW value \in Values, PutSecret(u, s, version, value)
  PROVE  Atomic!Update(u, s)
<1> DEFINE row == [secret[s] EXCEPT !.value = value, !.version = version + 1]
<1>1. /\ vault[u] # None /\ Of(u, s) /\ vault' = vault /\ secret[s].version = version
      /\ secret' = [secret EXCEPT ![s] = row]
  BY DEF PutSecret, Of
<1>2. secret[s] \in SecretRow /\ version + 1 \in Nat \ {0}
  BY <1>1, Tables, RowFields DEF Of
<1>3. row \in SecretRow /\ row.vault = secret[s].vault /\ row.version = version + 1
  BY <1>2 DEF SecretRow
<1> HIDE DEF row
<1>4. secret'[s] = row /\ \A t \in SecretIds : t # s => secret'[t] = secret[t]
  BY <1>1, Tables
<1> QED
  BY <1>1, <1>3, <1>4, NotNone, OneRecord, OwnIsOf DEF Atomic!Update

LEMMA RemoveStep ==
  ASSUME ClientInv, ClientInv', NEW u \in Users, NEW s \in SecretIds, DeleteSecret(u, s)
  PROVE  Atomic!Remove(u, s)
<1>1. /\ vault[u] # None /\ Of(u, s) /\ vault' = vault /\ secret'[s] = None
      /\ \A t \in SecretIds : t # s => secret'[t] = secret[t]
  BY Tables DEF DeleteSecret, Of
<1> QED
  BY <1>1, OneRecord, OwnIsOf DEF Atomic!Remove

LEMMA RestoreStep ==
  ASSUME ClientInv, ClientInv', KeepsVaults, NEW u \in Users, file # None, PostRestore(u, file)
  PROVE  Atomic!Restore(u)
<1>1. file.user = u /\ vault' = [vault EXCEPT ![u] = file.vault] /\ VaultOf(u, file.vault)
  BY DEF PostRestore, ClientInv, FileSound
<1>2. vault[u] # None /\ file.vault.id = vault[u].id
  BY <1>1 DEF VaultOf
<1>3. /\ vault'[u] = file.vault /\ vault'[u] # None
      /\ \A o \in Users : o # u => vault'[o] = vault[o]
  BY <1>1, <1>2, Tables DEF KeepsVaults
<1>4. \A o \in Users \ {u} : vault[o] # None => vault[o].id # file.vault.id
  BY <1>2, Tables
<1>5. secret' = [s \in SecretIds |->
                   IF file.records[s] # None THEN file.records[s]
                   ELSE IF Atomic!Own(u, s) THEN None ELSE secret[s]]
  BY OwnIsOf DEF PostRestore
<1>6. Atomic!Only(u)
  BY <1>3, OnlyOne
<1>7. file \in (IF file = None THEN {} ELSE {file})
  OBVIOUS
<1> QED
  BY <1>1, <1>3, <1>4, <1>5, <1>6, <1>7 DEF Atomic!Restore

LEMMA ExportStep ==
  ASSUME ClientInv, NEW p \in Procs, ExportWrite(p)
  PROVE  Atomic!Export
<1>1. proc[p] # None /\ proc[p].op = "export" /\ vault' = vault /\ secret' = secret
  BY DEF ExportWrite, At, server
<1>2. proc[p].user \in Users
  BY <1>1, Account
<1>3. file'.user = proc[p].user
      /\ file'.records = [s \in SecretIds |-> IF Of(proc[p].user, s) THEN secret[s] ELSE None]
  BY DEF ExportWrite
<1>4. file'.records = [s \in SecretIds |-> IF Atomic!Own(file'.user, s) THEN secret[s] ELSE None]
  BY <1>2, <1>3, OwnIsOf
<1>5. \A b \in (IF file' = None THEN {} ELSE {file'}) : b = file'
  OBVIOUS
<1> QED
  BY <1>1, <1>4, <1>5 DEF Atomic!Export

(* Only these steps are seen by the server, or write the backup.           *)
LEMMA Seen ==
  ASSUME ClientInv, [Next]_vars
  PROVE  \/ vault' = vault /\ secret' = secret /\ file' = file
         \/ \E p \in Procs : \/ InitPost(p) \/ PasswdWrite(p) \/ ExportWrite(p) \/ Import(p)
                             \/ AgentAdd(p) \/ AgentUpdate(p) \/ AgentRemove(p)
<1>1. CASE UNCHANGED vars
  BY <1>1 DEF vars
<1>2. CASE \E p \in Procs : Fail(p) \/ Killed(p)
  BY <1>2 DEF Fail, Killed, server
<1>3. CASE \E d \in Devices : Timeout(d)
  BY <1>3 DEF Timeout, server
<1>4. CASE \E p \in Procs, op \in Ops, u \in Users \cup {None}, n \in Names : Start(p, op, u, n)
  BY <1>4 DEF Start, server
<1>5. CASE \E p \in Procs : LoginSave(p) \/ LockAgent(p) \/ LogoutClear(p) \/ SwitchActivate(p)
                             \/ Expire(p) \/ UnlockRead(p) \/ Deliver(p) \/ ReadHeader(p)
  BY <1>5 DEF LoginSave, LockAgent, LogoutClear, SwitchActivate, Expire, UnlockRead, Deliver,
              ReadHeader, server
<1>6. CASE \E p \in Procs : AgentBegin(p) \/ AgentMeta(p) \/ AgentFind(p) \/ AgentFindNone(p)
                             \/ AgentGet(p)
  BY <1>6 DEF AgentBegin, AgentMeta, AgentFind, AgentFindNone, AgentGet, server
<1> QED
  BY <1>1, <1>2, <1>3, <1>4, <1>5, <1>6 DEF Next, Work

LEMMA AtomicStep ==
  ASSUME ClientInv, ClientInv', [Next]_vars
  PROVE  [Atomic!Next]_(Atomic!vars)
<1>1. KeepsVaults
  BY ClientStep DEF Stays
<1>2. CASE vault' = vault /\ secret' = secret /\ file' = file
  BY <1>2 DEF Atomic!vars
<1>3. ASSUME NEW u \in Users, Atomic!Change(u), file' = file
      PROVE  Atomic!Next
  BY <1>3 DEF Atomic!Next
<1>4. ASSUME NEW p \in Procs, ExportWrite(p)
      PROVE  Atomic!Next
  BY <1>4, ExportStep DEF Atomic!Next
<1>5. ASSUME NEW p \in Procs,
             \/ InitPost(p) \/ PasswdWrite(p) \/ Import(p)
             \/ AgentAdd(p) \/ AgentUpdate(p) \/ AgentRemove(p)
      PROVE  Atomic!Next
  <2>1. proc[p] # None /\ proc[p].op \notin {"lock", "logout"} /\ file' = file
    BY <1>5 DEF InitPost, PasswdWrite, Import, AgentAdd, AgentUpdate, AgentRemove, At
  <2>2. proc[p].user \in Users /\ proc[p] \in Command /\ CommandSound(proc[p])
    BY <2>1, Account
  <2>3. PICK u \in Users : u = proc[p].user
    BY <2>2
  <2>4. Atomic!Change(u)
    <3>1. CASE InitPost(p)
      BY <1>1, <2>3, <3>1, NewVaultStep DEF InitPost, Atomic!Change
    <3>2. CASE PasswdWrite(p)
      <4>1. \E header : PutKey(u, header)
        BY <2>3, <3>2 DEF PasswdWrite
      <4> QED
        BY <1>1, <4>1, RewrapStep DEF Atomic!Change
    <3>3. CASE Import(p)
      BY <1>1, <2>3, <3>3, RestoreStep DEF Import, Atomic!Change
    <3>4. CASE AgentAdd(p)
      <4>1. PICK s \in SecretIds, t \in Texts :
              PostSecret(u, s, proc[p].name, [key |-> proc[p].key, text |-> t])
        BY <2>3, <3>4 DEF AgentAdd
      <4>2. proc[p].op = "add" /\ proc[p].step = "write"
        BY <3>4 DEF AgentAdd, At
      <4>3. proc[p].name \in Names /\ [key |-> proc[p].key, text |-> t] \in Values
        BY <2>2, <4>2, CommandFields DEF CommandSound, DataOps, Values
      <4>4. Atomic!Add(u, s)
        BY <4>1, <4>3, AddStep
      <4> QED
        BY <4>4 DEF Atomic!Change
    <3>5. CASE AgentUpdate(p)
      <4>1. PICK t \in Texts :
              PutSecret(u, proc[p].id, proc[p].row.version, [key |-> proc[p].key, text |-> t])
        BY <2>3, <3>5 DEF AgentUpdate
      <4>2. proc[p].op = "update" /\ proc[p].step = "write"
        BY <3>5 DEF AgentUpdate, At
      <4>3. proc[p].id \in SecretIds /\ [key |-> proc[p].key, text |-> t] \in Values
        BY <2>2, <4>2, CommandFields DEF CommandSound, DataOps, Values
      <4>4. Atomic!Update(u, proc[p].id)
        BY <4>1, <4>3, UpdateStep
      <4> QED
        BY <4>3, <4>4 DEF Atomic!Change
    <3>6. CASE AgentRemove(p)
      <4>1. proc[p].id \in SecretIds /\ DeleteSecret(u, proc[p].id)
        BY <2>2, <2>3, <3>6, CommandFields DEF CommandSound, AgentRemove, At
      <4>2. Atomic!Remove(u, proc[p].id)
        BY <4>1, RemoveStep
      <4> QED
        BY <4>1, <4>2 DEF Atomic!Change
    <3> QED
      BY <1>5, <3>1, <3>2, <3>3, <3>4, <3>5, <3>6
  <2> QED
    BY <1>3, <2>1, <2>4
<1> QED
  BY <1>2, <1>4, <1>5, Seen

(* The clients ask of the server only what AtomicVaults offers, and what   *)
(* an export leaves and an import restores are the records of one moment   *)
(* (backup_service.cpp:44-55), however many devices, processes and         *)
(* accounts there are: no two calls of theirs meet half-way.               *)
THEOREM ClientsAreAtomic == Spec => ServerSteps
<1>1. Init => Atomic!Init
  BY DEF Init, Atomic!Init
<1>2. ClientInv /\ ClientInv' /\ [Next]_vars => [Atomic!Next]_(Atomic!vars)
  BY AtomicStep
<1> QED
  BY ClientAlways, <1>1, <1>2, PTL DEF Spec, ServerSteps, Atomic!Spec
=============================================================================
