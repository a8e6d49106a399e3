---------------------------- MODULE MCSerialWatch ----------------------------
(***************************************************************************)
(* Two ports, with two meters and with one, and a TCP meter.               *)
(***************************************************************************)
EXTENDS SerialWatch

MCPortOf == [m \in {"a", "b", "c"} |-> IF m = "c" THEN 1 ELSE 0]
=============================================================================
