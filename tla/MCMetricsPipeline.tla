------------------------- MODULE MCMetricsPipeline -------------------------
(* A small instance of MetricsPipeline for TLC.                            *)
EXTENDS MetricsPipeline

CONSTANT web

OneHost == {web}
=============================================================================
