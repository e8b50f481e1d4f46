----------------------------- MODULE AtomicVaults -----------------------------
(***************************************************************************)
(* What the server promises its clients about the tables of vaults and     *)
(* secrets, whatever requests run at once: each change is one of the six   *)
(* below, it happens in a single step, and it respects at that step what   *)
(* the API says of it (docs/API.md) - a secret goes into the account's     *)
(* vault as it then is, in the mode that vault then has; an update raises  *)
(* the record version by one; a restore replaces everything or nothing, by *)
(* what a backup of the account holds.                                     *)
(* It is the abstract specification of VaultStore, where the same changes  *)
(* are prepared by reads in earlier transactions' snapshots.               *)
(***************************************************************************)
EXTENDS Naturals

CONSTANTS Users, VaultIds, SecretIds, Names, NoHash, Headers, Values, None

VARIABLES
  vault,   \* user -> its vault, or None
  secret,  \* secret id -> its record, or None
  backups  \* the backups that exist: whose, the vault, its records

VaultRow == [id : VaultIds, header : Headers, private : BOOLEAN]
SecretRow == [vault : VaultIds, private : BOOLEAN, name : Names \cup {NoHash},
              value : Values, version : Nat \ {0}]

Init == /\ vault = [u \in Users |-> None]
        /\ secret = [s \in SecretIds |-> None]

(* The secrets that make up the vault with id v in table t.                *)
Contents(t, v) == {s \in SecretIds : t[s] # None /\ t[s].vault = v}

(* The vault w together with its rows of table t is one the API can hold.  *)
WellFormed(w, t) ==
  /\ \A s \in Contents(t, w.id) : t[s].private = w.private
  /\ \A r, s \in Contents(t, w.id) :
       r # s /\ t[r].name # NoHash => t[r].name # t[s].name

(* The vault of u is the only one that may change, and no secret outside   *)
(* the vaults that u has before and after the step does.                   *)
Only(u) ==
  /\ vault' \in [Users -> VaultRow \cup {None}]
  /\ secret' \in [SecretIds -> SecretRow \cup {None}]
  /\ \A o \in Users \ {u} : vault'[o] = vault[o]
  /\ vault'[u] # None /\ WellFormed(vault'[u], secret')

Own(u, s) == vault[u] # None /\ s \in Contents(secret, vault[u].id)

NewVault(u) ==
  /\ vault[u] = None
  /\ Only(u)
  /\ \A o \in Users \ {u} : vault[o] # None => vault[o].id # vault'[u].id
  /\ UNCHANGED secret

Rewrap(u) ==
  /\ vault[u] # None
  /\ Only(u)
  /\ vault'[u].id = vault[u].id /\ vault'[u].private = vault[u].private
  /\ UNCHANGED secret

(* A change of the one secret s, in the vault that u has.                  *)
OneSecret(u, s) ==
  /\ vault[u] # None
  /\ UNCHANGED vault
  /\ Only(u)
  /\ \A t \in SecretIds \ {s} : secret'[t] = secret[t]

Add(u, s) ==
  /\ secret[s] = None
  /\ OneSecret(u, s)
  /\ secret'[s] # None
  /\ secret'[s].vault = vault[u].id /\ secret'[s].version = 1

Update(u, s) ==
  /\ Own(u, s)
  /\ OneSecret(u, s)
  /\ secret'[s] # None
  /\ secret'[s].vault = secret[s].vault
  /\ secret'[s].version = secret[s].version + 1

Remove(u, s) ==
  /\ Own(u, s)
  /\ OneSecret(u, s)
  /\ secret'[s] = None

(* Everything the account had is replaced by what one of its backups       *)
(* holds, to the version of each record, and nothing else is touched.      *)
Restore(u) ==
  \E b \in backups :
    /\ b.user = u
    /\ Only(u)
    /\ \A o \in Users \ {u} : vault[o] # None => vault[o].id # b.vault.id
    /\ vault'[u] = b.vault
    /\ secret' = [s \in SecretIds |->
                    IF b.records[s] # None THEN b.records[s]
                    ELSE IF Own(u, s) THEN None ELSE secret[s]]

(* A new backup holds the records that its account has at one moment.      *)
Export ==
  /\ \A b \in backups' \ backups :
       b.records = [s \in SecretIds |->
                      IF Own(b.user, s) THEN secret[s] ELSE None]
  /\ UNCHANGED <<vault, secret>>

Change(u) ==
  \/ NewVault(u) \/ Rewrap(u) \/ Restore(u)
  \/ \E s \in SecretIds : Add(u, s) \/ Update(u, s) \/ Remove(u, s)

Next == (\E u \in Users : Change(u) /\ UNCHANGED backups) \/ Export

vars == <<vault, secret, backups>>

Spec == Init /\ [][Next]_vars
=============================================================================
