----------------------------- MODULE MCMainLoop ------------------------------
(***************************************************************************)
(* Three meters: one with fields for each receiver, one that is disabled   *)
(* and one of formulas only that go to Grafana and MQTT.                   *)
(***************************************************************************)
EXTENDS MainLoop, TLC

CONSTANTS a, d, f

Field(name, influx, grafana) == [name |-> name, influx |-> influx, grafana |-> grafana]

MCMeterList == <<a, d, f>>
MCEnabled == {a, f}
MCQueried == {a, d}
MCFields ==
  (a :> <<Field("v", TRUE, TRUE), Field("i", TRUE, FALSE), Field("g", FALSE, TRUE)>>)
  @@ (d :> <<Field("v", TRUE, TRUE)>>)
  @@ (f :> <<Field("x", FALSE, TRUE)>>)
MCFormulaOnly == {f}
MCMqttMeters == {a, f}
=============================================================================
