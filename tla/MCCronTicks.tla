---------------------------- MODULE MCCronTicks -----------------------------
(* Small instances of CronTicks for TLC. *)
EXTENDS CronTicks

(* One deployment sets a longer interval. *)
Upgrade == {<<1, 2>>}
=============================================================================
