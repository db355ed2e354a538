-------------------------- MODULE MCUptimeRecovery --------------------------
(* The uptime walk for TLC: the constants are given in the cfg files. *)
EXTENDS UptimeRecovery
=============================================================================
