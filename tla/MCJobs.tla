------------------------------- MODULE MCJobs -------------------------------
(***************************************************************************)
(* Small instances of Jobs.                                                *)
(***************************************************************************)
EXTENDS Jobs
=============================================================================
