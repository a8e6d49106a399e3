--------------------------- MODULE MCInfluxWindow ---------------------------
(***************************************************************************)
(* Three values, one of them negative, in a unit that keeps every half of  *)
(* a window of four exact (2 ^ 4 = 16).                                    *)
(***************************************************************************)
EXTENDS InfluxWindow

MCValues == {-16, 16, 48}
=============================================================================
