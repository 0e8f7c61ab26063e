--------------------------- MODULE MCAlertManager ---------------------------
(* Small instances of AlertManager for TLC.                                *)
EXTENDS AlertManager

TwoHosts == {"web", "db"}
OneMetric == {"cpu"}
TwoMetrics == {"cpu", "memory"}
=============================================================================
