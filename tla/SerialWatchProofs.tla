-------------------------- MODULE SerialWatchProofs --------------------------
(***************************************************************************)
(* For any number of ports and meters: the program exits only for a port   *)
(* whose meters have all failed.                                           *)
(***************************************************************************)
EXTENDS SerialWatch, TLAPS

IInv == TypeOK /\ CountInv

(* A counter followed up to its bound stays in its range.                  *)
LEMMA BumpedRange ==
  ASSUME NEW n \in 0 .. MaxCount
  PROVE  Bumped(n) \in 0 .. MaxCount /\ Bumped(n) > 0 /\ Bumped(n) >= n
BY WatchAssumption DEF Bumped, MaxCount

(* queryMeter for any set of meters keeps the counters in step.            *)
LEMMA QueryAllKeeps ==
  ASSUME IInv, NEW res, QueryAll(res)
  PROVE  /\ queryErrorCount' \in [SerialMeters -> 0 .. MaxCount]
         /\ failedInRow' \in [SerialMeters -> 0 .. MaxCount]
         /\ resolved' \subseteq SunspecMeters
         /\ \A m \in SerialMeters : queryErrorCount'[m] <= failedInRow'[m]
         /\ formulaMeter' \in BOOLEAN /\ lastRead' \in BOOLEAN
<1>1. ASSUME NEW m \in SerialMeters
      PROVE  /\ queryErrorCount'[m] \in 0 .. MaxCount
             /\ failedInRow'[m] \in 0 .. MaxCount
             /\ queryErrorCount'[m] <= failedInRow'[m]
  <2> DEFINE q == queryErrorCount[m]
             f == failedInRow[m]
  <2>1. q \in 0 .. MaxCount /\ f \in 0 .. MaxCount /\ q <= f
    BY DEF IInv, TypeOK, CountInv
  <2>2. /\ queryErrorCount'[m] = CASE m \in DOMAIN res /\ res[m] = "ok" -> 0
              [] m \in DOMAIN res /\ res[m] = "failed" -> Bumped(q)
              [] OTHER -> q
        /\ failedInRow'[m] = IF m \notin DOMAIN res THEN f
                             ELSE IF res[m] = "ok" THEN 0 ELSE Bumped(f)
    BY DEF QueryAll, CountErrors
  <2>3. CASE m \notin DOMAIN res
    BY <2>1, <2>2, <2>3
  <2>4. CASE m \in DOMAIN res /\ res[m] = "ok"
    BY <2>1, <2>2, <2>4, WatchAssumption DEF MaxCount
  <2>5. CASE m \in DOMAIN res /\ res[m] # "ok"
    <3>1. /\ queryErrorCount'[m] = q \/ queryErrorCount'[m] = Bumped(q)
          /\ failedInRow'[m] = Bumped(f)
      BY <2>2, <2>5
    <3>2. Bumped(q) <= Bumped(f) /\ q <= Bumped(f)
      BY <2>1, WatchAssumption DEF Bumped, MaxCount
    <3> QED BY <2>1, <3>1, <3>2, BumpedRange
  <2> QED BY <2>3, <2>4, <2>5
<1>2. queryErrorCount' = [m \in SerialMeters |-> queryErrorCount'[m]]
  BY DEF QueryAll, CountErrors
<1>3. failedInRow' = [m \in SerialMeters |-> failedInRow'[m]]
  BY DEF QueryAll
<1>4. resolved' \subseteq SunspecMeters
  BY DEF IInv, TypeOK, QueryAll
<1>5. formulaMeter' \in BOOLEAN /\ lastRead' \in BOOLEAN
  BY DEF IInv, TypeOK, QueryAll, SomethingRead
<1> QED BY <1>1, <1>2, <1>3, <1>4, <1>5

LEMMA InitInvariant == Init => IInv
<1> SUFFICES ASSUME Init PROVE IInv
  OBVIOUS
<1>1. 0 \in 0 .. MaxCount
  BY WatchAssumption DEF MaxCount
<1>2. TypeOK
  BY <1>1 DEF Init, TypeOK
<1>3. CountInv
  BY DEF Init, CountInv
<1> QED BY <1>2, <1>3 DEF IInv

LEMMA StepInvariant == IInv /\ [Next]_vars => IInv'
<1> SUFFICES ASSUME IInv, [Next]_vars PROVE IInv'
  OBVIOUS
<1>1. ASSUME NEW res, InitialQuery(res) PROVE IInv'
  <2>1. phase' \in {"idle", "ended"} /\ UNCHANGED <<isFirstQuery, roundParity>>
    BY <1>1 DEF InitialQuery
  <2> QED BY <1>1, <2>1, QueryAllKeeps DEF InitialQuery, IInv, TypeOK, CountInv
<1>2. CASE FirstPass
  BY <1>2 DEF FirstPass, IInv, TypeOK, CountInv, counts
<1>3. ASSUME NEW res, Round(res) PROVE IInv'
  <2>1. /\ phase' \in {"check", "idle"} /\ isFirstQuery' = isFirstQuery
        /\ roundParity' \in BOOLEAN
    BY <1>3 DEF Round
  <2> QED BY <1>3, <2>1, QueryAllKeeps DEF Round, IInv, TypeOK, CountInv
<1>4. CASE CheckDeviceErrors
  <2>1. /\ phase' \in {"exited", "idle"}
        /\ phase' = "exited" => \E p \in Ports : GivenUp(p)
        /\ UNCHANGED <<isFirstQuery, formulaMeter, queryErrorCount, resolved,
                       failedInRow, lastRead, roundParity>>
    BY <1>4 DEF CheckDeviceErrors, counts
  <2> QED BY <2>1 DEF IInv, TypeOK, CountInv, GivenUp
<1>5. CASE Terminate
  BY <1>5 DEF Terminate, IInv, TypeOK, CountInv, counts
<1>6. CASE UNCHANGED vars
  BY <1>6 DEF vars, counts, IInv, TypeOK, CountInv, GivenUp
<1> QED BY <1>1, <1>2, <1>3, <1>4, <1>5, <1>6 DEF Next

LEMMA Invariance == Spec => []IInv
BY InitInvariant, StepInvariant, PTL DEF Spec

(* The counters stay in range.                                             *)
THEOREM TypeCorrect == Spec => []TypeOK
BY Invariance, PTL DEF IInv

(* modbusRTU_checkDeviceErrors never ends the program for a port with an   *)
(* answering meter.                                                        *)
THEOREM AnsweringPortsAreKept == Spec => []AnsweringPortKept
<1>1. IInv => AnsweringPortKept
  <2> SUFFICES ASSUME IInv, phase = "exited"
      PROVE \E p \in Ports : /\ \A m \in OnPort(p) : failedInRow[m] > 0
                             /\ \E m \in OnPort(p) : failedInRow[m] >= ExitErrorCount
    BY DEF AnsweringPortKept
  <2>1. PICK p \in Ports : GivenUp(p)
    BY DEF IInv, CountInv
  <2>2. ASSUME NEW m \in OnPort(p)
        PROVE  /\ m \in SerialMeters
               /\ queryErrorCount[m] \in Int /\ failedInRow[m] \in Int
               /\ queryErrorCount[m] <= failedInRow[m]
    <3>1. m \in SerialMeters
      BY DEF OnPort
    <3>2. MaxCount \in Int
      BY WatchAssumption DEF MaxCount
    <3> QED BY <3>1, <3>2 DEF IInv, TypeOK, CountInv
  <2>3. \A m \in OnPort(p) : failedInRow[m] > 0
    BY <2>1, <2>2 DEF GivenUp
  <2>4. \E m \in OnPort(p) : failedInRow[m] >= ExitErrorCount
    BY <2>1, <2>2, WatchAssumption DEF GivenUp
  <2> QED BY <2>3, <2>4
<1> QED BY <1>1, Invariance, PTL
=============================================================================
