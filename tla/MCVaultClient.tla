----------------------------- MODULE MCVaultClient -----------------------------
(* Small instances of VaultClient for TLC.                                    *)
EXTENDS VaultClient, TLC

CONSTANTS d1, v1

(* Everything runs on one device, or each process on a device of its own.  *)
OneDevice == [p \in Procs |-> d1]
OwnDevice == [p \in Procs |-> p]
Mode == [v \in VaultIds |-> v = v1]

Symmetry == Permutations(Procs)

(* The commands of one account, with backups that are imported.            *)
AccountOps == {"login", "init", "unlock", "passwd", "export", "import", "add",
               "update", "remove"}
=============================================================================
