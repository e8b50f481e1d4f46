----------------------------- MODULE MCVaultStore -----------------------------
(* Small instances of VaultStore for TLC.                                    *)
EXTENDS VaultStore, TLC

CONSTANTS u1, u2, v1, v2, v3, s1, s2, s3, n1, h1, x1

(* Account u1 has had the private vault v1 with s1 and s2, and the vault   *)
(* v2 with visible names; v3 is the vault of u2, the home of s3.           *)
Mode == [v \in VaultIds |-> v = v1]
Owner == [v \in VaultIds |-> IF v = v3 THEN u2 ELSE u1]
Home == [s \in SecretIds |-> IF s = s3 THEN v3 ELSE v1]

Item(private, version) ==
  [private |-> private, name |-> n1, value |-> x1, version |-> version]

BackupOf(u, v, items) ==
  [source |-> u, id |-> v, header |-> h1, private |-> Mode[v],
   secrets |-> [s \in SecretIds |-> IF s \in DOMAIN items THEN items[s] ELSE None]]

(* Backups of u1: v1 with one record; with two that have one name hash;    *)
(* with a record of the other mode; and v2, which was empty.               *)
KeptBackups ==
  {BackupOf(u1, v1, s1 :> Item(TRUE, 1)),
   BackupOf(u1, v1, s1 :> Item(TRUE, 1) @@ s2 :> Item(TRUE, 1)),
   BackupOf(u1, v1, s1 :> Item(FALSE, 1)),
   BackupOf(u1, v2, <<>>)}

Symmetry == Permutations(Devices)
=============================================================================
