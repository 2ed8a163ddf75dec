------------------------------ MODULE MCOutbox ------------------------------
(***************************************************************************)
(* A small instance of Outbox on which drains may outlive their leases.    *)
(* MCTransfers has the other.                                              *)
(***************************************************************************)
EXTENDS Outbox

CONSTANTS k1, k2, d1, d2
=============================================================================
