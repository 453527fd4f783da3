------------------------- MODULE MCCredentialStore -------------------------
(* Small instances of the credential store for TLC. *)
EXTENDS CredentialStoreProps, TLC

Symmetry == Permutations(Proc)
=============================================================================
