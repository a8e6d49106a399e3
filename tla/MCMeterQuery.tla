---------------------------- MODULE MCMeterQuery ----------------------------
(* A small installation for MeterQuery.  "sym" is a sunspec inverter with  *)
(* blocks of two kinds, "logo" another meter behind the same gateway whose *)
(* type closes after each query, "rtu" a serial meter and "box" one with   *)
(* init writes that keeps a connection of its own open.                    *)
(* The block of input registers covers the address of the second register  *)
(* of "sym" and that of the third one's factor, which are holding ones.    *)
EXTENDS MeterQuery

AllHostOf == [sym |-> "gateway", logo |-> "gateway", box |-> "lan"]
Reg(a, w, sf, v, other) ==
  [type |-> "holding", addr |-> a, words |-> w, sf |-> sf, sfValue |-> v,
   sfOther |-> other]
Plain == <<Reg(1, 1, 0, 0, 0)>>

McBlocks ==
  [m \in Meters |->
     IF m = "sym" THEN <<[type |-> "input", start |-> 5, len |-> 4],
                         [type |-> "holding", start |-> 2, len |-> 3]>>
     ELSE <<>>]
McRegs ==
  [m \in Meters |->
     IF m = "sym" THEN <<Reg(2, 1, 4, -1, 0), Reg(5, 2, 12, 0, 0),
                         Reg(3, 1, 8, -2, 5)>>
     ELSE Plain]
McHostOf == [m \in TcpMeters |-> AllHostOf[m]]
McOffset == [m \in Meters |-> IF m = "sym" THEN 70 ELSE 0]
McInitWrites == [m \in Meters |-> IF m \in {"logo", "box"} THEN 1 ELSE 0]
=============================================================================
