---------------------------- MODULE MCVaultMirror ----------------------------
(***************************************************************************)
(* A small instance of VaultMirror on which a meeting is renamed. MCFiles  *)
(* has the other.                                                          *)
(***************************************************************************)
EXTENDS VaultMirror

CONSTANTS t1, t2, e1, e2, q1

MCTitleOf == <<t1, t2>>
=============================================================================
