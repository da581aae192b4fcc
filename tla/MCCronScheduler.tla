--------------------------- MODULE MCCronScheduler ---------------------------
(***************************************************************************)
(* Instances of CronScheduler for TLC: one default job and one of the      *)
(* user's own.                                                             *)
(***************************************************************************)
EXTENDS CronScheduler

AllOps == {"enable", "force", "replace"}
AllFaults == {"crash", "torn"}
=============================================================================
