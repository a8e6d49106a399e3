---------------------------- MODULE InfluxWindow ----------------------------
(***************************************************************************)
(* influxwritemult: a meter is polled more often than it is written to     *)
(* InfluxDB.  executeInfluxWriteCalc counts the successful queries down    *)
(* and folds each new value into the one to be written (the newest, the    *)
(* largest, the smallest or an average), the main loop writes when the     *)
(* countdown is 0 and starts it again.  One meter is modelled with one     *)
(* register of each processing kind, all four fed with the same value;     *)
(* other meters appear as rounds in which this one is not due.             *)
(***************************************************************************)
EXTENDS Integers

CONSTANTS
  Mult,      (* meter->influxWriteMult: 0 = off, else write every Mult-th  *)
  Values     (* values a successful query can give                         *)

ASSUME WindowAssumption ==
  /\ Mult \in Nat
  /\ Values \subseteq Int

Processing == {"last", "max", "min", "avg"}

VARIABLES
  phase,            (* "initial" query, "idle", or "post" after a query    *)
  isFirstQuery,     (* the loop is to post the initial query's values      *)
  isFormulaOnly,    (* the meter has no registers to query                 *)
  hasSchedule,      (* a named schedule, not only the default one          *)
  meterHasBeenRead, (* in this round                                       *)
  countdown,        (* meter->influxWriteCountdown                         *)
  fvalue,           (* what the query or the formulas left in the registers*)
  fvalueInflux,     (* the value to write, for each kind of processing     *)
  fvalueInfluxLast, (* fvalueInflux before this round                      *)
  initialRead,      (* history: the initial query was successful           *)
  written,          (* history: the meter has been written before          *)
  reads,            (* history: successful queries since the last write    *)
  seen,             (* history: the values they gave                       *)
  newest            (* history: the value of the last successful query     *)

config == <<isFormulaOnly, hasSchedule>>
meterVars == <<meterHasBeenRead, countdown, fvalue, fvalueInflux, fvalueInfluxLast>>
history == <<written, reads, seen, newest>>
wVars == <<phase, isFirstQuery, config, meterVars, initialRead, history>>

-----------------------------------------------------------------------------
(* The switch over influxMultProcessing.  Doubles are modelled as integers *)
(* in a unit small enough for the halves that occur.                       *)
Combine(p, new, old) ==
  CASE p = "max" -> IF new < old THEN old ELSE new
    [] p = "min" -> IF new > old THEN old ELSE new
    [] p = "avg" -> (new + old) \div 2
    [] OTHER -> new

(* The new value is taken as it is: no window, the first query after a     *)
(* write, or the first query of the program.                               *)
FirstOfWindow == Mult = 0 \/ countdown = Mult \/ countdown = -1

(* Mutant: the countdown is not decremented by the first query of a window.*)
CountDownLate ==
  countdown' = CASE Mult = 0 \/ countdown = Mult -> countdown
                 [] countdown = -1 -> 0
                 [] countdown = 0 -> Mult - 1
                 [] OTHER -> countdown - 1

CountDown ==
  countdown' = CASE Mult = 0 -> countdown
                 [] Mult > 0 /\ countdown = -1 -> 0
                 [] Mult > 0 /\ countdown = 0 -> Mult - 1
                 [] OTHER -> countdown - 1

(* setMeterFvalueInflux and executeInfluxWriteCalc, after a query.         *)
ExecuteInfluxWriteCalc(v) ==
  /\ CountDown
  /\ fvalueInflux' = [p \in Processing |->
                        IF FirstOfWindow THEN v
                        ELSE Combine(p, v, fvalueInfluxLast'[p])]

(* Mutant: the previous value is not saved when the meter becomes due.     *)
SetFvalueInfluxLastForgotten == UNCHANGED fvalueInfluxLast

(* setMeterFvalueInfluxLast, when the meter is marked as due.              *)
SetFvalueInfluxLast == fvalueInfluxLast' = fvalueInflux

Remember(v) ==
  /\ reads' = reads + 1
  /\ seen' = seen \cup {v}
  /\ newest' = v
  /\ UNCHANGED written

-----------------------------------------------------------------------------
(* queryMeters at program start.  A failed query leaves 0, or what it had  *)
(* read, in the registers, and that value is folded in like any other.     *)
InitialQuery(ok, v) ==
  /\ phase = "initial"
  /\ ok => v \in Values
  /\ isFormulaOnly => ok
  /\ SetFvalueInfluxLast
  /\ fvalue' = v
  /\ meterHasBeenRead' = ok
  /\ ExecuteInfluxWriteCalc(v)
  /\ initialRead' = ok
  /\ IF ok THEN Remember(v) ELSE UNCHANGED history
  /\ phase' = "idle"
  /\ UNCHANGED <<isFirstQuery, config>>

(* The first pass of the main loop queries nothing (not if the option      *)
(* "noinitialwrite" is given: then isFirstQuery is 0 from the start).      *)
FirstRound ==
  /\ phase = "idle" /\ isFirstQuery
  /\ phase' = "post"
  /\ UNCHANGED <<isFirstQuery, config, meterVars, initialRead, history>>

(* cron_queryMeters with this meter due: the query is successful.          *)
DueRead(v) ==
  /\ phase = "idle" /\ ~isFirstQuery
  /\ SetFvalueInfluxLast
  /\ fvalue' = v
  /\ meterHasBeenRead' = TRUE
  /\ ExecuteInfluxWriteCalc(v)
  /\ Remember(v)
  /\ phase' = "post"
  /\ UNCHANGED <<isFirstQuery, config, initialRead>>

(* ... or fails; the loop goes on to the write if any meter was read.      *)
DueFailed(v) ==
  /\ phase = "idle" /\ ~isFirstQuery
  /\ ~isFormulaOnly
  /\ SetFvalueInfluxLast
  /\ fvalue' = v
  /\ meterHasBeenRead' = FALSE
  /\ phase' \in {"idle", "post"}
  /\ UNCHANGED <<isFirstQuery, config, countdown, fvalueInflux>>
  /\ UNCHANGED <<initialRead, history>>

(* ... when no meter at all is due: it returns before anything else.       *)
NothingDue ==
  /\ phase = "idle" /\ ~isFirstQuery
  /\ meterHasBeenRead' = FALSE
  /\ UNCHANGED <<phase, isFirstQuery, config, countdown, fvalue, fvalueInflux>>
  /\ UNCHANGED <<fvalueInfluxLast, initialRead, history>>

(* ... and with other meters due.  The formulas of a formula-only meter    *)
(* are evaluated in every such round, which counts it as read and goes on  *)
(* to the write; the value to write is not taken from them.                *)
OtherRound(v) ==
  /\ phase = "idle" /\ ~isFirstQuery
  /\ meterHasBeenRead' = FALSE
  /\ IF isFormulaOnly
     THEN phase' = "post" /\ fvalue' = v
     ELSE phase' \in {"idle", "post"} /\ UNCHANGED fvalue
  /\ UNCHANGED <<isFirstQuery, config, countdown, fvalueInflux>>
  /\ UNCHANGED <<fvalueInfluxLast, initialRead, history>>

(* The second way to be written: formulas only, and no schedule but the    *)
(* default one.                                                            *)
WrittenUnread == isFormulaOnly /\ ~hasSchedule

(* Mutant: the write comes one query early.                                *)
SelectedEarly == (meterHasBeenRead \/ WrittenUnread) /\ countdown <= 1

(* The condition for a meter to be written.                                *)
Selected == (meterHasBeenRead \/ WrittenUnread) /\ countdown = 0

(* The meter loop of "if (iClient)" in main.                               *)
InfluxWrite ==
  /\ phase = "post"
  /\ IF Selected
     THEN /\ countdown' = Mult
          /\ written' = TRUE
          /\ reads' = 0 /\ seen' = {}
          /\ UNCHANGED newest
     ELSE UNCHANGED <<countdown, history>>
  /\ isFirstQuery' = FALSE
  /\ phase' = "idle"
  /\ UNCHANGED <<config, meterHasBeenRead, fvalue, fvalueInflux>>
  /\ UNCHANGED <<fvalueInfluxLast, initialRead>>

-----------------------------------------------------------------------------
WInit ==
  /\ phase = "initial"
  /\ isFirstQuery \in BOOLEAN
  /\ isFormulaOnly \in BOOLEAN
  /\ hasSchedule \in BOOLEAN
  /\ meterHasBeenRead = FALSE
  /\ countdown = IF Mult = 0 THEN 0 ELSE -1
  /\ fvalue = 0
  /\ fvalueInflux = [p \in Processing |-> 0]
  /\ fvalueInfluxLast = [p \in Processing |-> 0]
  /\ initialRead = FALSE
  /\ written = FALSE
  /\ reads = 0 /\ seen = {} /\ newest = 0

LeftByFailure == Values \cup {0}

WNext ==
  \/ \E ok \in BOOLEAN, v \in LeftByFailure : InitialQuery(ok, v)
  \/ FirstRound
  \/ \E v \in Values : DueRead(v)
  \/ \E v \in LeftByFailure : DueFailed(v)
  \/ NothingDue
  \/ \E v \in Values : OtherRound(v)
  \/ InfluxWrite

WSpec == WInit /\ [][WNext]_wVars

-----------------------------------------------------------------------------
(* Properties.                                                             *)

WTypeOK ==
  /\ phase \in {"initial", "idle", "post"}
  /\ isFirstQuery \in BOOLEAN
  /\ isFormulaOnly \in BOOLEAN
  /\ hasSchedule \in BOOLEAN
  /\ meterHasBeenRead \in BOOLEAN
  /\ countdown \in -1 .. Mult
  /\ fvalue \in Int
  /\ fvalueInflux \in [Processing -> Int]
  /\ fvalueInfluxLast \in [Processing -> Int]
  /\ initialRead \in BOOLEAN
  /\ written \in BOOLEAN
  /\ reads \in Nat
  /\ seen \subseteq Values
  /\ newest \in Int

Writing == phase = "post" /\ Selected

(* readme.md: "2 means we will write data to influx on every second        *)
(* query": between two writes lie exactly Mult successful queries, failed  *)
(* ones do not count.  A formula-only meter on the default schedule is     *)
(* written in every round when there is no window.                         *)
WriteEveryMult ==
  Writing /\ written =>
    reads = IF Mult > 0 THEN Mult ELSE IF meterHasBeenRead THEN 1 ELSE 0

(* ... and when the Mult-th query has been made the write is not missed:   *)
(* outside a round the window is never full.                               *)
NoWriteMissed ==
  phase = "idle" /\ written => reads < IF Mult > 0 THEN Mult ELSE 1

(* What is written is of the last successful query, never of a failed one, *)
(* and never of the formulas that were evaluated again in a round in which *)
(* the meter was not due.  Under "imax" and "imin" it is the largest and   *)
(* the smallest value read since the last write; under "iavg" it lies      *)
(* between the two, and no more: each new value is averaged with the       *)
(* average so far, so from the third value on it is not their mean.  The   *)
(* window is whole from the second write on, and so is the first if the    *)
(* initial query of the meter was successful.                              *)
Largest(x) == x \in seen /\ \A y \in seen : y <= x
Smallest(x) == x \in seen /\ \A y \in seen : y >= x
Between(x) == (\E y \in seen : y <= x) /\ (\E y \in seen : y >= x)

CleanStart == written \/ (initialRead /\ Mult > 0)

ValuesOfWindow ==
  Writing =>
    /\ fvalueInflux["last"] = newest
    /\ reads > 0 /\ CleanStart =>
         /\ Largest(fvalueInflux["max"])
         /\ Smallest(fvalueInflux["min"])
         /\ Between(fvalueInflux["avg"])

-----------------------------------------------------------------------------
(* Inductive invariant.                                                    *)

(* The countdown mirrors the number of queries since the last write.  The  *)
(* only unwritten 0 outside a round is that of the first window.           *)
CountdownInv ==
  /\ phase = "initial" => reads = 0 /\ ~written /\ ~initialRead
                          /\ countdown = IF Mult = 0 THEN 0 ELSE -1
  /\ phase # "initial" => countdown >= 0
  /\ isFirstQuery => ~written
  /\ phase # "initial" /\ Mult > 0 /\ written => countdown = Mult - reads
  /\ phase = "idle" \/ (phase = "post" /\ ~meterHasBeenRead) =>
       (Mult > 0 /\ written => countdown > 0)
  /\ phase # "initial" /\ isFormulaOnly => initialRead
  /\ Mult = 0 => countdown = 0
  /\ Mult = 0 /\ written =>
       reads = IF phase = "post" /\ meterHasBeenRead THEN 1 ELSE 0
  /\ phase # "initial" /\ ~written =>
       (Mult > 0 => countdown < Mult) /\ (initialRead => reads > 0)
  /\ reads = 0 <=> seen = {}

(* The value to write has the extremes of the window so far, and the       *)
(* newest value is that of the last successful query.                      *)
FoldInv ==
  /\ reads > 0 /\ CleanStart =>
       /\ Largest(fvalueInflux["max"])
       /\ Smallest(fvalueInflux["min"])
       /\ Between(fvalueInflux["avg"])
  /\ meterHasBeenRead \/ (isFormulaOnly /\ phase # "initial") =>
       fvalueInflux["last"] = newest
=============================================================================
