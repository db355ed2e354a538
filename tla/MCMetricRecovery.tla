-------------------------- MODULE MCMetricRecovery --------------------------
(* MetricRecovery on small sets of metrics, sources and viewers. *)
EXTENDS MetricRecovery, TLC

\* Sources are only ever compared.
Symmetry == Permutations(Sources)
=============================================================================
