------------------------ MODULE MCScheduledTaskQueue ------------------------
(* Instances of ScheduledTaskQueue for TLC.                                *)
EXTENDS ScheduledTaskQueue

CONSTANTS c1, c2
=============================================================================
