------------------------------- MODULE MCCron -------------------------------
(* Instances of CronScheduler for TLC: at the start one job is stored,     *)
(* enabled or not, that minds a busy runtime; others can be added, which  *)
(* may not.                                                                *)
EXTENDS CronScheduler

MCJobs == {"j1", "j2", "j3"}
MCStored ==
  {[j \in MCJobs |-> IF j = "j1" THEN job ELSE None] :
     job \in {k \in CronJob : k.skipIfBusy /\ k.last = None}}
=============================================================================
