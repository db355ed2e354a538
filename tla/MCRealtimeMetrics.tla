------------------------- MODULE MCRealtimeMetrics -------------------------
(* RealtimeMetrics on small sets of clients and history periods. *)
EXTENDS RealtimeMetrics, TLC
=============================================================================
