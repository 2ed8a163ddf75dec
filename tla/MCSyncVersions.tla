--------------------------- MODULE MCSyncVersions ---------------------------
(***************************************************************************)
(* Small instances of SyncVersions.                                        *)
(***************************************************************************)
EXTENDS SyncVersions, TLC

CONSTANTS a, b, c

\* Nothing tells one device from another but its policy, which is chosen in Init.
Symmetry == Permutations(Devices)
=============================================================================
