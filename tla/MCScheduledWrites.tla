------------------------- MODULE MCScheduledWrites -------------------------
(***************************************************************************)
(* Two definitions of TCP meters on one host and one of a serial meter     *)
(* whose writes are disabled; the default schedule and two named ones, one *)
(* of them without meters.                                                 *)
(***************************************************************************)
EXTENDS ScheduledWrites

CONSTANTS w1, w2, w3, h, s1, s2

MCWrites == {w1, w2, w3}
MCHosts == {h}
MCNamed == {s1, s2}
MCCronTab == <<Default, s1, s2>>
MCPolled == {Default, s1}

(* Items: an alternative that ends the call, and an unconditional one.     *)
Alternative == [kind |-> "holding", cond |-> TRUE, formula |-> FALSE, return |-> TRUE]
Always == [kind |-> "coil", cond |-> FALSE, formula |-> FALSE, return |-> FALSE]
Computed == [kind |-> "formula", cond |-> FALSE, formula |-> TRUE, return |-> FALSE]

MCDef == [x \in MCWrites |->
  CASE x = w1 -> [host |-> h, closeAfter |-> TRUE, disabled |-> FALSE, cond |-> FALSE,
                  items |-> <<Alternative, Always>>]
    [] x = w2 -> [host |-> h, closeAfter |-> FALSE, disabled |-> FALSE, cond |-> TRUE,
                  items |-> <<Computed>>]
    [] x = w3 -> [host |-> Serial, closeAfter |-> FALSE, disabled |-> TRUE, cond |-> FALSE,
                  items |-> <<Always>>]]
=============================================================================
