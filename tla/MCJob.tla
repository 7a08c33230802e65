------------------------------- MODULE MCJob -------------------------------
(***************************************************************************)
(* Instances of Job for TLC.  Jobs meet only in check_and_create's count,  *)
(* so one job with every pipeline checks the worker, and two check the     *)
(* admission of jobs.                                                      *)
(***************************************************************************)
EXTENDS Job

CONSTANTS j1, j2

OneJob == {j1}
TwoJobs == {j1, j2}
============================================================================
