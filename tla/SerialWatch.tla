----------------------------- MODULE SerialWatch -----------------------------
(***************************************************************************)
(* The watch over the serial ports: queryMeter counts the failed queries   *)
(* of each meter since its last successful one, and modbusRTU_check-       *)
(* DeviceErrors ends the program (to be restarted by its supervisor) when  *)
(* no meter of a port answers any more.  Main runs the check after a round *)
(* only if the round has read some meter.                                  *)
(***************************************************************************)
EXTENDS Integers

CONSTANTS
  Ports,            (* the serial connections                              *)
  SerialMeters,     (* enabled serial meters                               *)
  PortOf,           (* the port of each of them                            *)
  SunspecMeters,    (* those with needSunspecResolve                       *)
  TcpMeters,        (* enabled TCP meters                                  *)
  ExitErrorCount    (* ModbusRTU_exitErrorCount, the option "maxrtuerrs"   *)

Meters == SerialMeters \cup TcpMeters
OnPort(p) == {m \in SerialMeters : PortOf[m] = p}

ASSUME WatchAssumption ==
  /\ PortOf \in [SerialMeters -> Ports]
  /\ SunspecMeters \subseteq SerialMeters
  /\ SerialMeters \cap TcpMeters = {}
  /\ ExitErrorCount \in Nat \ {0}

VARIABLES
  phase,            (* "initial", "idle", "check", "exited", "ended"       *)
  isFirstQuery,     (* the loop's first pass queries nothing               *)
  queryErrorCount,  (* meter->queryErrorCount                              *)
  formulaMeter,     (* a formula-only meter is configured                  *)
  resolved,         (* SunspecMeters with needSunspecResolve cleared       *)
  failedInRow,      (* history: failed queries since the last success      *)
  lastRead,         (* history: the last round has read some meter         *)
  roundParity       (* history: tells a round from no round                *)

counts == <<queryErrorCount, resolved, failedInRow, lastRead>>
vars == <<phase, isFirstQuery, formulaMeter, counts, roundParity>>

MaxCount == ExitErrorCount + 1  (* counters are followed up to this bound  *)
Bumped(n) == IF n < MaxCount THEN n + 1 ELSE n

-----------------------------------------------------------------------------
(* How queryMeter can end for m, as far as the counters are concerned: an  *)
(* unresolved sunspec meter may fail before anything is counted.           *)
Results(m) ==
  {"ok", "failed"} \cup (IF m \in SunspecMeters \ resolved THEN {"unresolved"}
                         ELSE {})

CountErrors(res) ==
  queryErrorCount' = [m \in SerialMeters |->
    CASE m \in DOMAIN res /\ res[m] = "ok" -> 0
      [] m \in DOMAIN res /\ res[m] = "failed" -> Bumped(queryErrorCount[m])
      [] OTHER -> queryErrorCount[m]]

(* rc of the query functions; a formula-only meter is always counted.      *)
SomethingRead(res) ==
  formulaMeter \/ \E m \in DOMAIN res : res[m] = "ok"

QueryAll(res) ==
  /\ \A m \in DOMAIN res : res[m] \in Results(m)
  /\ CountErrors(res)
  /\ resolved' = resolved \cup {m \in DOMAIN res \cap SunspecMeters :
                                  res[m] # "unresolved"}
  /\ failedInRow' = [m \in SerialMeters |->
       IF m \notin DOMAIN res THEN failedInRow[m]
       ELSE IF res[m] = "ok" THEN 0 ELSE Bumped(failedInRow[m])]
  /\ lastRead' = SomethingRead(res)
  /\ UNCHANGED formulaMeter

AllResults(D) == [D -> {"ok", "failed", "unresolved"}]

(* The initial query of all meters; without any result the program ends.   *)
InitialQuery(res) ==
  /\ phase = "initial"
  /\ QueryAll(res)
  /\ phase' = IF SomethingRead(res) THEN "idle" ELSE "ended"
  /\ UNCHANGED <<isFirstQuery, roundParity>>

(* The first pass of the loop takes the initial query for its own.         *)
FirstPass ==
  /\ phase = "idle" /\ isFirstQuery
  /\ phase' = "check"
  /\ isFirstQuery' = FALSE
  /\ UNCHANGED <<formulaMeter, counts, roundParity>>

(* Mutant: the rest of the loop body runs only if all due meters were read.*)
RoundAllRead(res) ==
  /\ phase = "idle" /\ ~isFirstQuery
  /\ QueryAll(res)
  /\ phase' = IF \A m \in DOMAIN res : res[m] = "ok" THEN "check" ELSE "idle"
  /\ roundParity' = ~roundParity
  /\ UNCHANGED isFirstQuery

(* cron_queryMeters and the test of its result.                            *)
Round(res) ==
  /\ phase = "idle" /\ ~isFirstQuery
  /\ QueryAll(res)
  /\ phase' = IF SomethingRead(res) THEN "check" ELSE "idle"
  /\ roundParity' = ~roundParity
  /\ UNCHANGED isFirstQuery

(* Mutant: one failing meter is enough.                                    *)
GivenUpAny(p) ==
  \E m \in OnPort(p) : queryErrorCount[m] >= ExitErrorCount

(* All meters of the port have an error count, and the largest of the      *)
(* counts has reached the limit.                                           *)
GivenUp(p) ==
  /\ \A m \in OnPort(p) : queryErrorCount[m] > 0
  /\ \E m \in OnPort(p) : queryErrorCount[m] >= ExitErrorCount

(* modbusRTU_checkDeviceErrors.                                            *)
CheckDeviceErrors ==
  /\ phase = "check"
  /\ phase' = IF \E p \in Ports : GivenUp(p) THEN "exited" ELSE "idle"
  /\ UNCHANGED <<isFirstQuery, formulaMeter, counts, roundParity>>

(* SIGTERM or SIGINT ends the loop.                                        *)
Terminate ==
  /\ phase = "idle"
  /\ phase' = "ended"
  /\ UNCHANGED <<isFirstQuery, formulaMeter, counts, roundParity>>

-----------------------------------------------------------------------------
Init ==
  /\ phase = "initial"
  /\ isFirstQuery \in BOOLEAN
  /\ formulaMeter \in BOOLEAN
  /\ queryErrorCount = [m \in SerialMeters |-> 0]
  /\ resolved = {}
  /\ failedInRow = [m \in SerialMeters |-> 0]
  /\ lastRead = FALSE
  /\ roundParity = FALSE

Next ==
  \/ \E res \in AllResults(Meters) : InitialQuery(res)
  \/ FirstPass
  \/ \E D \in SUBSET Meters : /\ D # {} \/ formulaMeter
                              /\ \E res \in AllResults(D) : Round(res)
  \/ CheckDeviceErrors
  \/ Terminate

Spec == Init /\ [][Next]_vars

(* The program goes on; the schedule of a meter that is due stays due      *)
(* until a round takes it, so every meter is queried again and again.      *)
RoundWith(m) ==
  \E D \in SUBSET Meters : m \in D /\ \E res \in AllResults(D) : Round(res)

Fairness ==
  /\ WF_vars(\E res \in AllResults(Meters) : InitialQuery(res))
  /\ WF_vars(FirstPass)
  /\ WF_vars(CheckDeviceErrors)
  /\ \A m \in SerialMeters : SF_vars(RoundWith(m))

FairSpec == Spec /\ Fairness

-----------------------------------------------------------------------------
(* Properties.                                                             *)

TypeOK ==
  /\ phase \in {"initial", "idle", "check", "exited", "ended"}
  /\ isFirstQuery \in BOOLEAN
  /\ formulaMeter \in BOOLEAN
  /\ queryErrorCount \in [SerialMeters -> 0 .. MaxCount]
  /\ resolved \subseteq SunspecMeters
  /\ failedInRow \in [SerialMeters -> 0 .. MaxCount]
  /\ lastRead \in BOOLEAN
  /\ roundParity \in BOOLEAN

(* A port with an answering meter is never given up, however often the     *)
(* other meters on it fail: the program exits only if for some port every  *)
(* meter has failed its last query.  Less than is written about the check  *)
(* ("all meters on a serial port failed at least exitErrorCount times",    *)
(* modbusread.cpp:538): the code takes the largest of the counts, so only  *)
(* one of the meters need have failed that often.                          *)
AnsweringPortKept ==
  phase = "exited" =>
    \E p \in Ports :
      /\ \A m \in OnPort(p) : failedInRow[m] > 0
      /\ \E m \in OnPort(p) : failedInRow[m] >= ExitErrorCount

(* A port on which nothing answers any more is given up at last, as long   *)
(* as rounds go on to read something elsewhere: the check runs only after  *)
(* such a round, so with nothing left that answers the program polls for   *)
(* ever (the help text of "maxrtuerrs" makes no such reservation).  A      *)
(* sunspec meter whose resolve never succeeds is not counted by the code,  *)
(* a port with one is left out.                                            *)
Dead(p) ==
  /\ OnPort(p) # {}
  /\ OnPort(p) \cap SunspecMeters \subseteq resolved
  /\ \A m \in OnPort(p) : failedInRow[m] > 0

DeadPortGivenUp ==
  []<>lastRead =>
    \A p \in Ports : <>[]Dead(p) => <>(phase \in {"exited", "ended"})

(* What AnsweringPortKept rests on: no failure is counted that did not     *)
(* happen, and after the exit the counts are those the check has seen.     *)
CountInv ==
  /\ \A m \in SerialMeters : queryErrorCount[m] <= failedInRow[m]
  /\ phase = "exited" => \E p \in Ports : GivenUp(p)
=============================================================================
