---------------------------- MODULE MCInfluxPost ----------------------------
(***************************************************************************)
(* Records are model values.  With a queue of three, five are enough for a *)
(* full queue, a record in the buffer and one that is gone; one of them is *)
(* refused by the server.                                                  *)
(***************************************************************************)
EXTENDS InfluxPost

CONSTANTS r1, r2, r3, r4, r5

MCRecords == {r1, r2, r3, r4, r5}
MCBad == {r1}
=============================================================================
