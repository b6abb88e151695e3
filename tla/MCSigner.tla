------------------------------ MODULE MCSigner ------------------------------
(* Instances of Signer for TLC. *)
EXTENDS SignerProperties

CONSTANT account                           \* a path of another account

MCAskedPaths == {External(2), Internal(7), account}
=============================================================================
