---------------------------- MODULE MCWorkerPool ----------------------------
(***************************************************************************)
(* A small pool: two serial ports, the first with two meters, the second   *)
(* with one, one TCP meter and one formula-only meter.                     *)
(***************************************************************************)
EXTENDS WorkerPool

MCTcpMeters == {2}
MCFormulaMeters == {5}
MCPortOf == [m \in {1, 3, 4} |-> IF m = 4 THEN 1 ELSE 0]

(* The smallest pool, two serial meters on a port each, for the runs       *)
(* without the timing assumption.                                          *)
SmallTcpMeters == {}
SmallFormulaMeters == {}
SmallPortOf == [m \in {1, 2} |-> m - 1]
=============================================================================
