------------------------ MODULE MCCredentialRotation ------------------------
(* TLC instances of CredentialRotation.                                     *)
EXTENDS CredentialRotation, TLC

Symmetry == Permutations(Conns)
=============================================================================
