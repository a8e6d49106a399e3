----------------------------- MODULE MeterWrite -----------------------------
(***************************************************************************)
(* execMeterWrite of modbusread.cpp: one [Write] definition of the         *)
(* configuration is executed.  It has an optional condition, and a list of *)
(* items, each with an optional condition and an optional formula, which   *)
(* write a holding register, a coil or a formula register of the meter.    *)
(* What an expression yields and whether a device answers are choices of   *)
(* the environment.  A dry run prints the requests instead of sending      *)
(* them; it is not modelled apart.                                         *)
(***************************************************************************)
EXTENDS Naturals, Sequences

CONSTANTS
  Writes,      (* the [Write] definitions                                  *)
  Hosts,       (* hosts of the TCP pool                                    *)
  Serial,      (* stands for the host of a meter on a serial port          *)
  Def          (* what the configuration says about each definition        *)

Item == [kind : {"formula", "holding", "coil"}, cond : BOOLEAN,
         formula : BOOLEAN, return : BOOLEAN]

Definition == [host : Hosts \cup {Serial}, closeAfter : BOOLEAN,
               disabled : BOOLEAN, cond : BOOLEAN, items : Seq(Item)]

ASSUME DefAssumption ==
  /\ Serial \notin Hosts
  /\ Def \in [Writes -> Definition]

VARIABLES
  wpc,         (* where execMeterWrite is                                  *)
  mw,          (* the definition being executed                            *)
  w,           (* its current item                                         *)
  test,        (* formulaTest: expressions are evaluated, nothing is sent  *)
  connected,   (* hosts whose pool entry is connected                      *)
  attempts     (* history: the items written by this call, with the result *)

wvars == <<wpc, mw, w, test, connected, attempts>>

Items == Def[mw].items
AtItem == wpc = "items" /\ w <= Len(Items)
IsTCP == Def[mw].host \in Hosts

WInit ==
  /\ wpc = "idle"
  /\ mw \in Writes
  /\ w = 1
  /\ test = FALSE
  /\ connected = {}
  /\ attempts = <<>>

-----------------------------------------------------------------------------
(* A call; writes of a meter with disabled=write return at once.           *)
Call(x, t) ==
  /\ wpc = "idle"
  /\ mw' = x
  /\ w' = 1
  /\ test' = t
  /\ attempts' = <<>>
  /\ wpc' = IF Def[x].disabled THEN "returned" ELSE "condition"
  /\ UNCHANGED connected

Goto(label) ==
  /\ wpc' = label
  /\ UNCHANGED <<mw, w, test, connected, attempts>>

(* The condition of the definition: not met it ends the call, except in    *)
(* the test of the formulas; an error in it ends the program.              *)
Condition ==
  /\ wpc = "condition"
  /\ \/ Goto(IF test THEN "items" ELSE "open")
     \/ Def[mw].cond /\ ~test /\ Goto("returned")
     \/ Def[mw].cond /\ Goto("exit")

(* modbusTCP_open takes the pool's connection or opens it, which can fail; *)
(* modbus_set_slave can fail with the connection open.                     *)
Open ==
  /\ wpc = "open"
  /\ \/ wpc' = "items" /\ connected' = connected \cup ({Def[mw].host} \cap Hosts)
     \/ wpc' = "returned" /\ IsTCP /\ Def[mw].host \notin connected /\ UNCHANGED connected
     \/ wpc' = "returned" /\ connected' = connected \cup ({Def[mw].host} \cap Hosts)
  /\ UNCHANGED <<mw, w, test, attempts>>

Advance ==
  /\ w' = w + 1
  /\ UNCHANGED wpc

(* The call ends; a meter that closes after its query closes the pool's    *)
(* connection.                                                             *)
CloseAndReturn ==
  /\ wpc' = "returned"
  /\ connected' = IF Def[mw].closeAfter /\ ~test
                  THEN connected \ {Def[mw].host} ELSE connected

-----------------------------------------------------------------------------
(* A condition or formula of an item that cannot be evaluated ends the     *)
(* program in the test and the call otherwise, the connection left open.   *)
ItemError ==
  /\ AtItem
  /\ Items[w].cond \/ Items[w].formula
  /\ Goto(IF test THEN "exit" ELSE "returned")

ItemSkipped ==
  /\ AtItem
  /\ test \/ Items[w].cond
  /\ Advance
  /\ UNCHANGED <<mw, test, connected, attempts>>

(* Mutant: return ends the call only if the item could be written.         *)
ItemWrittenReturnOnSuccess(ok) ==
  /\ AtItem /\ ~test
  /\ attempts' = Append(attempts, [item |-> w, ok |-> ok])
  /\ IF Items[w].return /\ ok
     THEN CloseAndReturn /\ UNCHANGED w
     ELSE Advance /\ UNCHANGED connected
  /\ UNCHANGED <<mw, test>>

(* The item is written: a request, or an assignment to a formula register. *)
(* A request that fails is logged only; "return" then ends the call too.   *)
ItemWritten(ok) ==
  /\ AtItem /\ ~test
  /\ attempts' = Append(attempts, [item |-> w, ok |-> ok])
  /\ IF Items[w].return
     THEN CloseAndReturn /\ UNCHANGED w
     ELSE Advance /\ UNCHANGED connected
  /\ UNCHANGED <<mw, test>>

ItemsDone ==
  /\ wpc = "items" /\ w > Len(Items)
  /\ CloseAndReturn
  /\ UNCHANGED <<mw, w, test, attempts>>

WriteStep ==
  \/ Condition
  \/ Open
  \/ ItemError
  \/ ItemSkipped
  \/ \E ok \in BOOLEAN : ItemWritten(ok)
  \/ ItemsDone

(* The caller goes on.                                                     *)
WriteReturned ==
  /\ wpc = "returned"
  /\ Goto("idle")

-----------------------------------------------------------------------------
(* Properties.                                                             *)

WTypeOK ==
  /\ wpc \in {"idle", "condition", "open", "items", "returned", "exit"}
  /\ mw \in Writes
  /\ w \in 1 .. Len(Items) + 1
  /\ test \in BOOLEAN
  /\ connected \subseteq Hosts
  /\ attempts \in Seq([item : Nat, ok : BOOLEAN])

(* The items of a definition are exclusive alternatives when they say      *)
(* "return": the first one that is written, successfully or not, is the    *)
(* last; all are written in the order of the file and at most once.        *)
NothingAfterReturn ==
  \A i \in 1 .. Len(attempts) :
    /\ attempts[i].item \in 1 .. Len(Items)
    /\ i < Len(attempts) =>
         /\ attempts[i].item < attempts[i + 1].item
         /\ ~Items[attempts[i].item].return

(* No request goes over a pool entry without a connection, and the test of *)
(* the formulas sends nothing at all.                                      *)
OnlyOverOpenLink ==
  [][attempts' # attempts /\ attempts' # <<>> =>
       ~test /\ (IsTCP => Def[mw].host \in connected)]_wvars
=============================================================================
