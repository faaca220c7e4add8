---------------------------- MODULE MCCheckQueue ----------------------------
(***************************************************************************)
(* Instances of CheckQueue: two workers and the master, blocks with up to  *)
(* four checks of which one fails, batches of at most two.                 *)
(***************************************************************************)
EXTENDS CheckQueue

MCWorkers == {"w1", "w2"}
MCChecks  == {"c1", "c2", "c3", "c4"}
MCBad     == {"c4"}
=============================================================================
