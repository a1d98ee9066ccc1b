------------------------------ MODULE MCTelemetry ------------------------------
(* Telemetry on small instances: releases and candle contents are alike. *)
EXTENDS Telemetry, TLC

Symmetry == Permutations(Releases) \cup Permutations(Data)
=============================================================================
