---------------------------- MODULE InfluxProofs ----------------------------
(***************************************************************************)
(* Proofs about the way of a value to InfluxDB.  InfluxWindow, for every   *)
(* Mult and every set of integer values: the countdown counts the          *)
(* successful queries exactly, and what is written has the extremes of     *)
(* the values read since the last write.  InfluxPost, for every queue size and *)
(* every set of records: what the client holds, stores and loses.          *)
(***************************************************************************)
EXTENDS InfluxWindow, InfluxPost, TLAPS

(***************************************************************************)
(* InfluxWindow: from the values read to the one that is written.          *)
(***************************************************************************)
WindowInv == WTypeOK /\ CountdownInv /\ FoldInv

(* f holds the largest, the smallest and a value between them of S.        *)
FoldOf(S, f) ==
  /\ f["max"] \in S /\ \A y \in S : y <= f["max"]
  /\ f["min"] \in S /\ \A y \in S : y >= f["min"]
  /\ \E y \in S : y <= f["avg"]
  /\ \E y \in S : y >= f["avg"]

(* The switch of executeInfluxWriteCalc takes one value in: if f stands    *)
(* for the values S, the result stands for S and new.                      *)
LEMMA CombineFolds ==
  ASSUME NEW S \in SUBSET Int, NEW new \in Int, NEW f \in [Processing -> Int],
         NEW g \in [Processing -> Int],
         \A p \in Processing : g[p] = Combine(p, new, f[p]),
         FoldOf(S, f)
  PROVE  FoldOf(S \cup {new}, g) /\ g["last"] = new
<1> DEFINE T == S \cup {new}
<1> USE DEF FoldOf
<1>1. /\ g["max"] = IF new < f["max"] THEN f["max"] ELSE new
      /\ g["min"] = IF new > f["min"] THEN f["min"] ELSE new
      /\ g["avg"] = (new + f["avg"]) \div 2
      /\ g["last"] = new
  BY DEF Combine, Processing
<1>2. f["max"] \in Int /\ f["min"] \in Int /\ f["avg"] \in Int
  BY DEF Processing
<1>3. g["max"] \in T /\ \A y \in T : y <= g["max"]
  BY <1>1, <1>2
<1>4. g["min"] \in T /\ \A y \in T : y >= g["min"]
  BY <1>1, <1>2
<1>5. \E y \in T : y <= g["avg"]
  <2>1. PICK y \in S : y <= f["avg"]
    OBVIOUS
  <2>2. y \in Int
    OBVIOUS
  <2>3. y <= (new + f["avg"]) \div 2 \/ new <= (new + f["avg"]) \div 2
    BY <1>2, <2>1, <2>2
  <2> QED BY <1>1, <2>1, <2>3
<1>6. \E y \in T : y >= g["avg"]
  <2>1. PICK y \in S : y >= f["avg"]
    OBVIOUS
  <2>2. y \in Int
    OBVIOUS
  <2>3. y >= (new + f["avg"]) \div 2 \/ new >= (new + f["avg"]) \div 2
    BY <1>2, <2>1, <2>2
  <2> QED BY <1>1, <2>1, <2>3
<1> QED BY <1>1, <1>3, <1>4, <1>5, <1>6

(* A single value stands for itself.                                        *)
LEMMA FirstFolds ==
  ASSUME NEW v \in Int, NEW g \in [Processing -> Int],
         \A p \in Processing : g[p] = v
  PROVE  FoldOf({v}, g) /\ g["last"] = v
BY DEF Processing, FoldOf

(* executeInfluxWriteCalc keeps the types of what it changes.              *)
LEMMA CalcTypes ==
  ASSUME WTypeOK, CountdownInv, NEW v \in Int, SetFvalueInfluxLast,
         ExecuteInfluxWriteCalc(v)
  PROVE  /\ countdown' \in -1 .. Mult
         /\ fvalueInflux' \in [Processing -> Int]
         /\ fvalueInfluxLast' \in [Processing -> Int]
<1>1. countdown' \in -1 .. Mult
  BY WindowAssumption DEF WTypeOK, CountdownInv, ExecuteInfluxWriteCalc, CountDown
<1>2. fvalueInfluxLast' \in [Processing -> Int]
  BY DEF WTypeOK, SetFvalueInfluxLast
<1>3. ASSUME NEW p \in Processing
      PROVE  Combine(p, v, fvalueInfluxLast'[p]) \in Int
  <2>1. fvalueInfluxLast'[p] \in Int
    BY <1>2
  <2> QED BY <2>1 DEF Combine, Processing
<1>4. fvalueInflux' \in [Processing -> Int]
  BY <1>3 DEF ExecuteInfluxWriteCalc
<1> QED BY <1>1, <1>2, <1>4

(* The part of FoldInv that does not mention the phase.                    *)
WindowFolded == FoldOf(seen, fvalueInflux)

(* A successful query extends the fold, whichever branch of                *)
(* executeInfluxWriteCalc it takes.                                        *)
LEMMA ReadFolds ==
  ASSUME WTypeOK, NEW v \in Values, SetFvalueInfluxLast,
         ExecuteInfluxWriteCalc(v), Remember(v),
         fvalueInflux' \in [Processing -> Int],
         FirstOfWindow => reads = 0 /\ seen = {},
         ~FirstOfWindow => WindowFolded
  PROVE  WindowFolded' /\ fvalueInflux'["last"] = v
<1>1. v \in Int /\ seen \in SUBSET Int
  BY WindowAssumption DEF WTypeOK
<1>2. seen' = seen \cup {v}
  BY DEF Remember
<1>3. CASE FirstOfWindow
  <2>1. \A p \in Processing : fvalueInflux'[p] = v
    BY <1>3 DEF ExecuteInfluxWriteCalc
  <2>2. seen' = {v}
    BY <1>2, <1>3
  <2> QED BY <1>1, <2>1, <2>2, FirstFolds DEF WindowFolded
<1>4. CASE ~FirstOfWindow
  <2>1. \A p \in Processing : fvalueInflux'[p] = Combine(p, v, fvalueInflux[p])
    BY <1>4 DEF ExecuteInfluxWriteCalc, SetFvalueInfluxLast
  <2>2. fvalueInflux \in [Processing -> Int]
    BY DEF WTypeOK
  <2>3. FoldOf(seen, fvalueInflux)
    BY <1>4 DEF WindowFolded
  <2>4. FoldOf(seen \cup {v}, fvalueInflux') /\ fvalueInflux'["last"] = v
    BY <1>1, <2>1, <2>2, <2>3, CombineFolds
  <2> QED BY <1>2, <2>4 DEF WindowFolded
<1> QED BY <1>3, <1>4

LEMMA WindowInit == WInit => WindowInv
<1> SUFFICES ASSUME WInit PROVE WindowInv
  OBVIOUS
<1>1. WTypeOK
  <2>1. countdown \in -1 .. Mult
    BY WindowAssumption DEF WInit
  <2>2. /\ fvalueInflux \in [Processing -> Int]
        /\ fvalueInfluxLast \in [Processing -> Int]
    BY DEF WInit
  <2>3. reads \in Nat /\ seen \subseteq Values /\ fvalue \in Int /\ newest \in Int
    BY DEF WInit
  <2>4. /\ phase \in {"initial", "idle", "post"}
        /\ isFirstQuery \in BOOLEAN /\ isFormulaOnly \in BOOLEAN
        /\ meterHasBeenRead \in BOOLEAN /\ hasSchedule \in BOOLEAN
        /\ initialRead \in BOOLEAN /\ written \in BOOLEAN
    BY DEF WInit
  <2> QED BY <2>1, <2>2, <2>3, <2>4 DEF WTypeOK
<1>2. CountdownInv
  BY WindowAssumption DEF WInit, CountdownInv
<1>3. FoldInv
  BY DEF WInit, FoldInv, CleanStart
<1> QED BY <1>1, <1>2, <1>3 DEF WindowInv

(* The program's first query.                                              *)
LEMMA InitialQueryKeeps ==
  ASSUME WindowInv, NEW ok \in BOOLEAN, NEW v \in LeftByFailure, InitialQuery(ok, v)
  PROVE  WindowInv'
<1> USE DEF WindowInv
<1>1. v \in Int
  BY WindowAssumption DEF LeftByFailure
<1>2. /\ countdown' \in -1 .. Mult
      /\ fvalueInflux' \in [Processing -> Int]
      /\ fvalueInfluxLast' \in [Processing -> Int]
  BY <1>1, CalcTypes DEF InitialQuery
<1>3. WTypeOK'
  <2>1. /\ phase' \in {"initial", "idle", "post"}
        /\ meterHasBeenRead' \in BOOLEAN /\ initialRead' \in BOOLEAN
        /\ UNCHANGED <<isFirstQuery, isFormulaOnly, hasSchedule, written>>
        /\ fvalue' \in Int
    BY <1>1 DEF InitialQuery, Remember, history, config
  <2>2. reads' \in Nat /\ seen' \subseteq Values /\ newest' \in Int
    <3>1. CASE ok
      BY <1>1, <3>1 DEF WTypeOK, InitialQuery, Remember
    <3>2. CASE ~ok
      BY <3>2 DEF WTypeOK, InitialQuery, history
    <3> QED BY <3>1, <3>2
  <2> QED BY <1>2, <2>1, <2>2 DEF WTypeOK
<1>4. CountdownInv'
  BY WindowAssumption
  DEF WTypeOK, CountdownInv, InitialQuery, ExecuteInfluxWriteCalc, CountDown,
      Remember, history, config
<1>5. CASE ok
  <2>1. FirstOfWindow /\ reads = 0 /\ seen = {} /\ v \in Values
    BY <1>5 DEF CountdownInv, InitialQuery, FirstOfWindow
  <2>2. WindowFolded'
    BY <1>2, <1>5, <2>1, ReadFolds DEF InitialQuery
  <2>3. fvalueInflux'["last"] = v /\ newest' = v
    BY <1>2, <1>5, <2>1, ReadFolds DEF InitialQuery, Remember
  <2> QED BY <1>3, <1>4, <2>2, <2>3 DEF FoldInv, WindowFolded, FoldOf, Largest, Smallest,
                                             Between, InitialQuery
<1>6. CASE ~ok
  <2>1. reads' = 0 /\ ~meterHasBeenRead' /\ ~isFormulaOnly'
    BY <1>6 DEF CountdownInv, InitialQuery, history, config
  <2> QED BY <1>3, <1>4, <2>1 DEF FoldInv
<1> QED BY <1>5, <1>6

(* A successful query in the main loop.                                    *)
LEMMA DueReadKeeps ==
  ASSUME WindowInv, NEW v \in Values, DueRead(v)
  PROVE  WindowInv'
<1> USE DEF WindowInv
<1>1. v \in Int
  BY WindowAssumption
<1>2. /\ countdown' \in -1 .. Mult
      /\ fvalueInflux' \in [Processing -> Int]
      /\ fvalueInfluxLast' \in [Processing -> Int]
  BY <1>1, CalcTypes DEF DueRead
<1>3. WTypeOK'
  BY <1>1, <1>2, WindowAssumption DEF WTypeOK, DueRead, Remember, config
<1>4. CountdownInv'
  BY WindowAssumption
  DEF WTypeOK, CountdownInv, DueRead, ExecuteInfluxWriteCalc, CountDown, Remember,
      config
<1>5. fvalueInflux'["last"] = v
  BY DEF DueRead, ExecuteInfluxWriteCalc, Combine, Processing
<1>6. CASE CleanStart
  <2>1. FirstOfWindow => reads = 0 /\ seen = {}
    BY <1>6, WindowAssumption DEF WTypeOK, CountdownInv, FirstOfWindow, DueRead, CleanStart
  <2>2. ~FirstOfWindow => WindowFolded
    BY <1>6, WindowAssumption
    DEF WTypeOK, CountdownInv, FoldInv, FirstOfWindow, DueRead, WindowFolded,
        FoldOf, Largest, Smallest, Between, CleanStart
  <2>3. WindowFolded'
    BY <1>2, <2>1, <2>2, ReadFolds DEF DueRead
  <2> QED BY <1>3, <1>4, <1>5, <2>3 DEF FoldInv, WindowFolded, FoldOf, Largest,
                                             Smallest, Between, DueRead, CleanStart,
                                             Remember
<1>7. CASE ~CleanStart
  BY <1>3, <1>4, <1>5, <1>7 DEF FoldInv, CleanStart, DueRead, Remember
<1> QED BY <1>6, <1>7

LEMMA WindowStep == WindowInv /\ [WNext]_wVars => WindowInv'
<1> SUFFICES ASSUME WindowInv, [WNext]_wVars PROVE WindowInv'
  OBVIOUS
<1> USE DEF WindowInv
<1>1. ASSUME NEW ok \in BOOLEAN, NEW v \in LeftByFailure, InitialQuery(ok, v)
      PROVE  WindowInv'
  BY <1>1, InitialQueryKeeps
<1>2. CASE FirstRound
  BY <1>2, WindowAssumption
  DEF FirstRound, WTypeOK, CountdownInv, FoldInv, meterVars, history, config,
      Largest, Smallest, Between, CleanStart
<1>3. ASSUME NEW v \in Values, DueRead(v) PROVE WindowInv'
  BY <1>3, DueReadKeeps
<1>4. ASSUME NEW v \in LeftByFailure, DueFailed(v) PROVE WindowInv'
  <2>1. v \in Int
    BY WindowAssumption DEF LeftByFailure
  <2>2. WTypeOK'
    BY <1>4, <2>1 DEF DueFailed, WTypeOK, SetFvalueInfluxLast, history, config
  <2>3. CountdownInv' /\ FoldInv'
    BY <1>4 DEF DueFailed, CountdownInv, FoldInv, history, config, Largest, Smallest,
                Between, CleanStart
  <2> QED BY <2>2, <2>3
<1>5. CASE NothingDue
  BY <1>5 DEF NothingDue, WTypeOK, CountdownInv, FoldInv, history, config, Largest,
              Smallest, Between, CleanStart
<1>5a. ASSUME NEW v \in Values, OtherRound(v) PROVE WindowInv'
  <2>1. /\ phase = "idle" /\ phase' \in {"idle", "post"} /\ fvalue' \in Int
        /\ meterHasBeenRead' = FALSE
        /\ UNCHANGED <<isFirstQuery, isFormulaOnly, hasSchedule, countdown, fvalueInflux,
                       fvalueInfluxLast, initialRead, written, reads, seen, newest>>
    BY <1>5a, WindowAssumption DEF OtherRound, history, config, WTypeOK
  <2>2. WTypeOK'
    BY <2>1 DEF WTypeOK
  <2>3. CountdownInv'
    BY <2>1 DEF CountdownInv
  <2>4. FoldInv'
    BY <2>1 DEF FoldInv, Largest, Smallest, Between, CleanStart
  <2> QED BY <2>2, <2>3, <2>4
<1>6. CASE InfluxWrite
  <2>1. /\ UNCHANGED <<isFormulaOnly, hasSchedule, meterHasBeenRead, fvalue, fvalueInflux,
                        fvalueInfluxLast, initialRead>>
        /\ isFirstQuery' = FALSE /\ phase = "post" /\ phase' = "idle"
    BY <1>6 DEF InfluxWrite, config
  <2>2. CASE Selected
    <3>1. /\ countdown' = Mult /\ written' = TRUE
          /\ reads' = 0 /\ seen' = {} /\ newest' = newest
      BY <1>6, <2>2 DEF InfluxWrite
    <3>2. WTypeOK'
      <4>1. countdown' \in -1 .. Mult
        BY <3>1, WindowAssumption
      <4>2. reads' \in Nat /\ seen' \subseteq Values
        BY <3>1
      <4>2a. newest' \in Int
        BY <3>1 DEF WTypeOK
      <4>3. /\ phase' \in {"initial", "idle", "post"}
            /\ isFirstQuery' \in BOOLEAN /\ written' \in BOOLEAN
        BY <2>1, <3>1
      <4>4. /\ isFormulaOnly' \in BOOLEAN /\ hasSchedule' \in BOOLEAN
            /\ meterHasBeenRead' \in BOOLEAN
            /\ initialRead' \in BOOLEAN /\ fvalue' \in Int
            /\ fvalueInflux' \in [Processing -> Int]
            /\ fvalueInfluxLast' \in [Processing -> Int]
        BY <2>1 DEF WTypeOK
      <4> QED BY <4>1, <4>2, <4>2a, <4>3, <4>4 DEF WTypeOK
    <3>3. CountdownInv'
      BY <2>1, <3>1, WindowAssumption DEF WTypeOK, CountdownInv
    <3> QED BY <2>1, <3>1, <3>2, <3>3 DEF FoldInv
  <2>3. CASE ~Selected
    <3>1. UNCHANGED <<countdown, written, reads, seen, newest>>
      BY <1>6, <2>3 DEF InfluxWrite, history
    <3>2. WTypeOK'
      BY <2>1, <3>1 DEF WTypeOK
    <3>3. CountdownInv'
      BY <2>1, <2>3, <3>1, WindowAssumption DEF WTypeOK, CountdownInv, Selected, WrittenUnread
    <3>4. FoldInv'
      BY <2>1, <3>1 DEF FoldInv, CleanStart, Largest, Smallest, Between
    <3> QED BY <3>2, <3>3, <3>4
  <2> QED BY <2>2, <2>3
<1>7. CASE UNCHANGED wVars
  BY <1>7 DEF wVars, meterVars, history, config, WTypeOK, CountdownInv, FoldInv, Largest,
              Smallest, Between, CleanStart
<1> QED BY <1>1, <1>2, <1>3, <1>4, <1>5, <1>5a, <1>6, <1>7 DEF WNext

LEMMA WindowInvariance == WSpec => []WindowInv
BY WindowInit, WindowStep, PTL DEF WSpec

(* The variables keep their types: in particular the countdown never       *)
(* leaves -1 .. Mult.                                                      *)
THEOREM WindowTyped == WSpec => []WTypeOK
BY WindowInvariance, PTL DEF WindowInv

(* Two writes are Mult successful queries apart.                           *)
THEOREM WritesAreMultApart == WSpec => []WriteEveryMult
<1>1. WindowInv => WriteEveryMult
  BY WindowAssumption
  DEF WindowInv, WTypeOK, CountdownInv, WriteEveryMult, Writing, Selected,
      WrittenUnread
<1> QED BY <1>1, WindowInvariance, PTL

(* No write is left out: a full window is written in the round that has    *)
(* filled it.                                                              *)
THEOREM WritesAreNotMissed == WSpec => []NoWriteMissed
<1>1. WindowInv => NoWriteMissed
  BY WindowAssumption DEF WindowInv, WTypeOK, CountdownInv, NoWriteMissed
<1> QED BY <1>1, WindowInvariance, PTL

(* Under imax and imin the extremes of the values read since the last      *)
(* write are written, under iavg a value between them, otherwise the value *)
(* of the last successful query: whatever failed queries and rounds of     *)
(* other meters have left in the registers since then.                     *)
THEOREM WindowIsWritten == WSpec => []ValuesOfWindow
<1>1. WindowInv => ValuesOfWindow
  BY WindowAssumption
  DEF WindowInv, WTypeOK, CountdownInv, FoldInv, ValuesOfWindow, Writing, Selected,
      WrittenUnread, CleanStart
<1> QED BY <1>1, WindowInvariance, PTL

(***************************************************************************)
(* InfluxPost: from the record to the server.                              *)
(***************************************************************************)
(* The elements of a list after an entry is added at its end.              *)
LEMMA AppendElements ==
  ASSUME NEW S, NEW q \in Seq(S), NEW e \in S
  PROVE  /\ Append(q, e) \in Seq(S)
         /\ Len(Append(q, e)) = Len(q) + 1
         /\ \A i \in 1 .. Len(q) : Append(q, e)[i] = q[i]
         /\ Append(q, e)[Len(q) + 1] = e
OBVIOUS

(* The elements of a list after its first entry is removed.                *)
LEMMA TailElements ==
  ASSUME NEW S, NEW q \in Seq(S), Len(q) > 0
  PROVE  /\ Tail(q) \in Seq(S)
         /\ Len(Tail(q)) = Len(q) - 1
         /\ \A i \in 1 .. Len(Tail(q)) : Tail(q)[i] = q[i + 1]
         /\ Head(q) \in S
         /\ Head(q) = q[1]
OBVIOUS

(* Types, the counter and the bound are inductive together.                *)
QueueInv == TypeOK /\ QueueConsistent /\ (pc = "post" => influxBuf \in Records)

LEMMA ArrivesType ==
  ASSUME NEW r \in Records, NEW o, stored \in [Records -> 0 .. MaxStored],
         answerLost \subseteq Records, Arrives(r, o)
  PROVE  /\ stored' \in [Records -> 0 .. MaxStored]
         /\ answerLost' \subseteq Records
<1>1. ASSUME o \in {"ok", "unanswered"}, stored[r] < MaxStored
      PROVE  stored' \in [Records -> 0 .. MaxStored]
  <2>1. stored' = [stored EXCEPT ![r] = stored[r] + 1]
    BY <1>1 DEF Arrives
  <2>2. QED
    BY <1>1, <2>1 DEF MaxStored
<1>2. ASSUME ~(o \in {"ok", "unanswered"} /\ stored[r] < MaxStored)
      PROVE  stored' \in [Records -> 0 .. MaxStored]
  <2>1. stored' = [stored EXCEPT ![r] = stored[r]]
    BY <1>2 DEF Arrives
  <2>2. QED
    BY <2>1
<1>3. answerLost' \subseteq Records
  BY DEF Arrives
<1>4. QED
  BY <1>1, <1>2, <1>3

LEMMA QueueInit == Init => QueueInv
<1> SUFFICES ASSUME Init
             PROVE  QueueInv
  OBVIOUS
<1>1. stored \in [Records -> 0 .. MaxStored]
  BY DEF Init, MaxStored
<1>2. url \in BOOLEAN /\ answerLost \subseteq Records
  BY Zenon DEF Init
<1>3. QED
  BY <1>1, <1>2, PostAssumption DEF Init, QueueInv, TypeOK, QueueConsistent

(* One step keeps types, counter and bound.                                *)
LEMMA QueueStep == QueueInv /\ [Next]_vars => QueueInv'
<1> SUFFICES ASSUME QueueInv, [Next]_vars
             PROVE  QueueInv'
  OBVIOUS
<1> USE PostAssumption DEF QueueInv, TypeOK, QueueConsistent, clientVars
<1>1. ASSUME NEW r \in Records, NewRecord(r)
      PROVE  QueueInv'
  BY <1>1 DEF NewRecord, MaxStored
<1>2. ASSUME NEW o \in Outcomes(influxBuf), pc = "post",
             SendLine(influxBuf, o), PostAnswered(o), UNCHANGED up
      PROVE  QueueInv'
  BY <1>2, ArrivesType DEF PostAnswered, SendLine
<1>3. ASSUME NEW o \in Outcomes(influxBuf), pc = "post",
             SendLine(influxBuf, o), PostFailed(o), UNCHANGED up
      PROVE  QueueInv'
  <2>1. /\ stored' \in [Records -> 0 .. MaxStored]
        /\ answerLost' \subseteq Records /\ url' \in BOOLEAN
        /\ influxBuf' = NoRecord /\ pc' = "idle" /\ UNCHANGED <<up, numDequeued>>
    BY <1>3, ArrivesType DEF PostFailed, SendLine
  <2>2. CASE QueueHasRoom
    <3>1. /\ queue' = Append(queue, influxBuf)
          /\ numEntriesQueued' = numEntriesQueued + 1
      BY <1>3, <2>2 DEF PostFailed, AddToQueue
    <3>2. QED
      BY <1>3, <2>1, <2>2, <3>1, AppendElements DEF QueueHasRoom
  <2>3. CASE ~QueueHasRoom
    <3>1. UNCHANGED <<queue, numEntriesQueued>>
      BY <1>3, <2>3 DEF PostFailed, AddToQueue
    <3>2. QED
      BY <2>1, <3>1
  <2>4. QED
    BY <2>2, <2>3
<1>4. CASE DequeueSend
  <2>1. Len(queue) > 0 /\ numDequeued < DequeueAtOnce
    BY <1>4 DEF DequeueSend, MoreToDequeue
  <2>2. /\ stored' \in [Records -> 0 .. MaxStored]
        /\ answerLost' \subseteq Records /\ url' \in BOOLEAN
    <3>1. PICK o : SendLine(Head(queue), o)
      BY <1>4 DEF DequeueSend
    <3>2. Head(queue) \in Records
      BY <2>1, TailElements
    <3>3. QED
      BY <3>1, <3>2, ArrivesType DEF SendLine
  <2>3. /\ UNCHANGED <<influxBuf, up>>
        /\ pc # "post" /\ pc' \in {"dequeue", "final", "freed", "idle"}
    BY <1>4 DEF DequeueSend, Dequeuing, CallEnds
  <2>4. CASE RemoveHead
    BY <2>1, <2>2, <2>3, <2>4, TailElements DEF RemoveHead
  <2>5. CASE UNCHANGED <<queue, numEntriesQueued, numDequeued>>
    BY <2>1, <2>2, <2>3, <2>5
  <2>6. CASE queue' = <<>> /\ numEntriesQueued' = 0 /\ UNCHANGED numDequeued
    BY <2>1, <2>2, <2>3, <2>6
  <2>7. QED
    BY <1>4, <2>4, <2>5, <2>6 DEF DequeueSend, CallEnds
<1>5. CASE DequeueReturns
  <2>1. /\ numDequeued' = 0 /\ UNCHANGED <<influxBuf, url, up, stored, answerLost>>
        /\ pc' \in {"dequeue", "final", "freed", "idle"}
        /\ \/ UNCHANGED <<queue, numEntriesQueued>>
           \/ queue' = <<>> /\ numEntriesQueued' = 0
    BY <1>5 DEF DequeueReturns, Dequeuing, CallEnds
  <2>2. CASE UNCHANGED <<queue, numEntriesQueued>>
    BY <2>1, <2>2
  <2>3. CASE queue' = <<>> /\ numEntriesQueued' = 0
    BY <2>1, <2>3
  <2>4. QED
    BY <2>1, <2>2, <2>3
<1>5a. CASE RequestHangs
  <2>1. PICK r \in Records : \E o : Arrives(r, o)
    <3>1. CASE pc = "post"
      BY <1>5a, <3>1 DEF RequestHangs
    <3>2. CASE pc # "post"
      <4>1. Len(queue) > 0
        BY <1>5a, <3>2 DEF RequestHangs, MoreToDequeue
      <4>2. Head(queue) \in Records
        BY <4>1, TailElements
      <4>3. QED
        BY <1>5a, <3>2, <4>2 DEF RequestHangs
    <3>3. QED
      BY <3>1, <3>2
  <2>2. stored' \in [Records -> 0 .. MaxStored] /\ answerLost' \subseteq Records
    BY <2>1, ArrivesType
  <2>3. pc' = "hung"
        /\ UNCHANGED <<influxBuf, queue, numEntriesQueued, numDequeued, url, up>>
    BY <1>5a DEF RequestHangs
  <2>4. QED
    BY <2>2, <2>3
<1>6. CASE Free
  BY <1>6 DEF Free
<1>7. CASE ServerToggles
  BY <1>7 DEF ServerToggles
<1>8. CASE PeriodicProc
  BY <1>8 DEF PeriodicProc
<1>9. CASE UNCHANGED vars
  BY <1>9 DEF vars
<1>10. QED
  BY <1>1, <1>2, <1>3, <1>4, <1>5, <1>5a, <1>6, <1>7, <1>8, <1>9
     DEF Next, MainLoop, PostLine

(* Type correctness of the client.                                         *)
THEOREM TypeCorrect == Spec => []TypeOK
<1>1. QueueInv => TypeOK
  BY DEF QueueInv
<1>2. QED
  BY <1>1, QueueInit, QueueStep, PTL DEF Spec

(* numEntriesQueued always tells the length of the list, so no NULL        *)
(* firstEntry is followed, and the list stays within the configured cache. *)
THEOREM CounterMatchesList == Spec => []QueueConsistent
<1>1. QueueInv => QueueConsistent
  BY DEF QueueInv
<1>2. QED
  BY <1>1, QueueInit, QueueStep, PTL DEF Spec

-----------------------------------------------------------------------------
(* Ownership of the records' memory.                                       *)
OwnerInv == QueueInv /\ OwnedOnce

(* A step keeps every record in at most one place.                         *)
LEMMA OwnerStep == OwnerInv /\ [Next]_vars => OwnedOnce'
<1> SUFFICES ASSUME OwnerInv, [Next]_vars
             PROVE  OwnedOnce'
  OBVIOUS
<1> USE PostAssumption DEF OwnerInv, QueueInv, TypeOK, QueueConsistent,
        OwnedOnce, InQueue, clientVars
<1>1. ASSUME NEW r \in Records, NewRecord(r)
      PROVE  OwnedOnce'
  BY <1>1 DEF NewRecord, Held
<1>2. ASSUME NEW o, pc = "post", PostAnswered(o)
      PROVE  OwnedOnce'
  BY <1>2 DEF PostAnswered
<1>3. ASSUME NEW o, pc = "post", PostFailed(o)
      PROVE  OwnedOnce'
  <2>1. influxBuf \in Records /\ influxBuf' = NoRecord /\ pc' = "idle"
    BY <1>3 DEF PostFailed
  <2>2. CASE queue' = Append(queue, influxBuf)
    <3>1. /\ Len(queue') = Len(queue) + 1
          /\ \A i \in 1 .. Len(queue) : queue'[i] = queue[i]
          /\ queue'[Len(queue) + 1] = influxBuf
      BY <2>1, <2>2, AppendElements
    <3>2. ASSUME NEW i \in 1 .. Len(queue')
          PROVE  i \in 1 .. Len(queue) \/ i = Len(queue) + 1
      BY <3>1
    <3>3. QED
      BY <2>1, <3>1, <3>2
  <2>3. CASE queue' = queue
    BY <2>1, <2>3
  <2>4. QED
    BY <1>3, <2>2, <2>3 DEF PostFailed, AddToQueue
<1>4. CASE DequeueSend
  <2>1. /\ Len(queue) > 0 /\ pc' # "post"
        /\ influxBuf = NoRecord /\ influxBuf' = NoRecord
    BY <1>4 DEF DequeueSend, MoreToDequeue, Dequeuing, CallEnds
  <2>2. CASE queue' = Tail(queue)
    <3>1. /\ Len(queue') = Len(queue) - 1
          /\ \A i \in 1 .. Len(queue') : queue'[i] = queue[i + 1]
      BY <2>1, <2>2, TailElements
    <3>2. QED
      BY <2>1, <3>1
  <2>3. CASE queue' = queue
    BY <2>1, <2>3
  <2>4. CASE queue' = <<>>
    BY <2>1, <2>4
  <2>5. QED
    BY <1>4, <2>2, <2>3, <2>4 DEF DequeueSend, RemoveHead, CallEnds
<1>5. CASE DequeueReturns
  BY <1>5 DEF DequeueReturns, Dequeuing, CallEnds
<1>5a. CASE RequestHangs
  BY <1>5a DEF RequestHangs, Dequeuing
<1>6. CASE Free
  BY <1>6 DEF Free
<1>7. CASE ServerToggles
  BY <1>7 DEF ServerToggles
<1>8. CASE PeriodicProc
  BY <1>8 DEF PeriodicProc
<1>9. CASE UNCHANGED vars
  BY <1>9 DEF vars
<1>10. QED
  BY <1>1, <1>2, <1>3, <1>4, <1>5, <1>5a, <1>6, <1>7, <1>8, <1>9
     DEF Next, MainLoop, PostLine

LEMMA OwnerInvariant == Spec => []OwnerInv
<1>1. Init => OwnerInv
  BY QueueInit DEF Init, OwnerInv, OwnedOnce, InQueue
<1>2. OwnerInv /\ [Next]_vars => OwnerInv'
  BY QueueStep, OwnerStep DEF OwnerInv
<1>3. QED
  BY <1>1, <1>2, PTL DEF Spec

(* Between formatting, posting, queueing and freeing no record's memory    *)
(* ever has two owners: each is freed once and never used after that.      *)
THEOREM RecordsOwnedOnce == Spec => []OwnedOnce
<1>1. OwnerInv => OwnedOnce
  BY DEF OwnerInv
<1>2. QED
  BY <1>1, OwnerInvariant, PTL

-----------------------------------------------------------------------------
(* No duplicates in the database: a record's answer is lost or it is       *)
(* stored when it stops being held.                                        *)
LEMMA ArrivesFacts ==
  ASSUME NEW r \in Records, NEW o \in Outcomes(r), Arrives(r, o),
         stored \in [Records -> 0 .. MaxStored],
         r \notin answerLost => stored[r] = 0
  PROVE  /\ \A x \in Records : x # r => stored'[x] = stored[x]
         /\ \A x \in Records : x # r => (x \in answerLost' <=> x \in answerLost)
         /\ o = "ok" /\ r \notin answerLost' => stored'[r] = 1
         /\ o # "ok" /\ r \notin answerLost' => stored'[r] = 0
         /\ Retryable(o) => o # "ok"
<1>1. o \in {"ok", "rejected", "unavailable", "curlError", "unanswered"}
  BY DEF Outcomes
<1>2. \A x \in Records : x # r => stored'[x] = stored[x]
  BY DEF Arrives
<1>3. CASE o = "unanswered"
  BY <1>2, <1>3 DEF Arrives, Retryable, CurlErrors
<1>4. CASE o # "unanswered"
  <2>1. answerLost' = answerLost
    BY <1>4 DEF Arrives
  <2>2. CASE o = "ok" /\ r \notin answerLost
    <3>1. stored' = [stored EXCEPT ![r] = stored[r] + 1]
      BY <2>2 DEF Arrives, MaxStored
    <3>2. QED
      BY <1>2, <2>1, <2>2, <3>1 DEF Retryable, CurlErrors
  <2>3. CASE o # "ok"
    <3>1. stored' = [stored EXCEPT ![r] = stored[r]]
      BY <1>1, <1>4, <2>3 DEF Arrives
    <3>2. QED
      BY <1>2, <2>1, <2>3, <3>1
  <2>4. QED
    BY <1>2, <2>1, <2>2, <2>3 DEF Retryable, CurlErrors
<1>5. QED
  BY <1>3, <1>4

(* A record is stored when it stops being held, so it is stored once.      *)
LEMMA OnceStep ==
  ASSUME OwnerInv, NotStoredTwice, [Next]_vars
  PROVE  NotStoredTwice'
<1> USE PostAssumption DEF OwnerInv, QueueInv, TypeOK, QueueConsistent,
        OwnedOnce, NotStoredTwice, InQueue, Held, clientVars
<1>1. ASSUME NEW r \in Records, NewRecord(r)
      PROVE  NotStoredTwice'
  BY <1>1 DEF NewRecord
<1>2. ASSUME NEW o \in Outcomes(influxBuf), pc = "post",
             SendLine(influxBuf, o), PostAnswered(o)
      PROVE  NotStoredTwice'
  <2>1. influxBuf \in Records /\ (influxBuf \notin answerLost => stored[influxBuf] = 0)
    BY <1>2
  <2>2. \A r \in Records : r # influxBuf =>
          stored'[r] = stored[r] /\ (r \in answerLost' <=> r \in answerLost)
    BY <1>2, <2>1, ArrivesFacts DEF SendLine
  <2>3. influxBuf \notin answerLost' => stored'[influxBuf] <= 1
    BY <1>2, <2>1, ArrivesFacts DEF SendLine
  <2>4. influxBuf' = NoRecord /\ queue' = queue
    BY <1>2 DEF PostAnswered
  <2>5. QED
    BY <2>1, <2>2, <2>3, <2>4
<1>3. ASSUME NEW o \in Outcomes(influxBuf), pc = "post",
             SendLine(influxBuf, o), PostFailed(o)
      PROVE  NotStoredTwice'
  <2>1. influxBuf \in Records /\ (influxBuf \notin answerLost => stored[influxBuf] = 0)
    BY <1>3
  <2>2. /\ \A r \in Records : r # influxBuf =>
             stored'[r] = stored[r] /\ (r \in answerLost' <=> r \in answerLost)
        /\ influxBuf \notin answerLost' => stored'[influxBuf] = 0
        /\ influxBuf' = NoRecord
    BY <1>3, <2>1, ArrivesFacts DEF PostFailed, SendLine
  <2>3. CASE queue' = Append(queue, influxBuf)
    <3>1. /\ Len(queue') = Len(queue) + 1
          /\ \A i \in 1 .. Len(queue) : queue'[i] = queue[i]
          /\ queue'[Len(queue) + 1] = influxBuf
      BY <2>1, <2>3, AppendElements
    <3>2. ASSUME NEW i \in 1 .. Len(queue'), queue'[i] \notin answerLost'
          PROVE  stored'[queue'[i]] = 0
      <4>1. CASE i \in 1 .. Len(queue)
        <5>1. queue'[i] = queue[i] /\ queue[i] # influxBuf /\ queue[i] \in Records
          BY <3>1, <4>1, <1>3
        <5>2. QED
          BY <2>2, <3>2, <4>1, <5>1
      <4>2. CASE i = Len(queue) + 1
        BY <2>2, <3>1, <3>2, <4>2
      <4>3. QED
        BY <3>1, <4>1, <4>2
    <3>3. ASSUME NEW r \in Records, r \notin answerLost'
          PROVE  stored'[r] <= 1
      BY <2>2, <3>3
    <3>4. QED
      BY <2>2, <3>2, <3>3
  <2>4. CASE queue' = queue
    BY <1>3, <2>1, <2>2, <2>4
  <2>5. QED
    BY <1>3, <2>3, <2>4 DEF PostFailed, AddToQueue
<1>4. CASE DequeueSend
  <2>1. Len(queue) > 0 /\ influxBuf' = influxBuf /\ influxBuf = NoRecord
    BY <1>4 DEF DequeueSend, MoreToDequeue, Dequeuing
  <2>2. PICK o \in Outcomes(Head(queue)) :
          /\ SendLine(Head(queue), o)
          /\ IF o = "ok" THEN RemoveHead ELSE queue' = queue \/ queue' = <<>>
    BY <1>4 DEF DequeueSend, CallEnds
  <2>3. Head(queue) \in Records /\ Head(queue) = queue[1]
    BY <2>1, TailElements
  <2>4. Head(queue) \notin answerLost => stored[Head(queue)] = 0
    BY <2>1, <2>3
  <2>5. /\ \A x \in Records : x # Head(queue) =>
             stored'[x] = stored[x] /\ (x \in answerLost' <=> x \in answerLost)
        /\ o = "ok" /\ Head(queue) \notin answerLost' => stored'[Head(queue)] = 1
        /\ o # "ok" /\ Head(queue) \notin answerLost' => stored'[Head(queue)] = 0
    BY <2>2, <2>3, <2>4, ArrivesFacts DEF SendLine
  <2>6. CASE o = "ok"
    <3>1. /\ Len(queue') = Len(queue) - 1
          /\ \A i \in 1 .. Len(queue') : queue'[i] = queue[i + 1]
      <4>1. queue' = Tail(queue)
        BY <2>2, <2>6 DEF RemoveHead
      <4>2. queue \in Seq(Records)
        BY DEF TypeOK
      <4>3. QED
        BY <2>1, <4>1, <4>2, TailElements
    <3>2. ASSUME NEW i \in 1 .. Len(queue'), queue'[i] \notin answerLost'
          PROVE  stored'[queue'[i]] = 0
      <4>1. queue'[i] = queue[i + 1] /\ i + 1 \in 1 .. Len(queue) /\ i + 1 # 1
        BY <2>1, <3>1
      <4>2. queue[i + 1] # Head(queue) /\ queue[i + 1] \in Records
        BY <2>1, <2>3, <4>1
      <4>3. queue[i + 1] \notin answerLost
        BY <2>5, <3>2, <4>1, <4>2
      <4>4. stored[queue[i + 1]] = 0
        BY <4>1, <4>2, <4>3
      <4>5. QED
        BY <2>5, <4>1, <4>2, <4>4
    <3>3. \A r \in Records \ answerLost' : stored'[r] <= 1
      BY <2>5, <2>6
    <3>4. QED
      BY <2>1, <3>2, <3>3
  <2>7. CASE o # "ok" /\ queue' = queue
    BY <2>1, <2>2, <2>3, <2>5, <2>7
  <2>8. CASE o # "ok" /\ queue' = <<>>
    BY <2>1, <2>2, <2>3, <2>5, <2>8
  <2>9. QED
    BY <2>2, <2>6, <2>7, <2>8
<1>5. CASE DequeueReturns
  BY <1>5 DEF DequeueReturns, CallEnds
<1>5a. CASE RequestHangs
  <2>1. /\ UNCHANGED <<influxBuf, queue>>
        /\ \E r \in Records : \E o \in Outcomes(r) \ {"ok"} : Held(r) /\ Arrives(r, o)
    <3>1. UNCHANGED <<influxBuf, queue>> /\ ~up
      BY <1>5a DEF RequestHangs
    <3>2. CASE pc = "post"
      BY <1>5a, <3>1, <3>2 DEF RequestHangs, Outcomes
    <3>3. CASE pc # "post"
      <4>1. Len(queue) > 0
        BY <1>5a, <3>3 DEF RequestHangs, MoreToDequeue
      <4>2. Head(queue) \in Records /\ Head(queue) = queue[1]
        BY <4>1, TailElements
      <4>3. QED
        BY <1>5a, <3>1, <3>3, <4>1, <4>2 DEF RequestHangs, Outcomes
    <3>4. QED
      BY <3>1, <3>2, <3>3
  <2>2. PICK r \in Records : \E o \in Outcomes(r) \ {"ok"} : Held(r) /\ Arrives(r, o)
    BY <2>1
  <2>3. PICK o \in Outcomes(r) \ {"ok"} : Held(r) /\ Arrives(r, o)
    BY <2>2
  <2>4. /\ \A x \in Records : x # r =>
             stored'[x] = stored[x] /\ (x \in answerLost' <=> x \in answerLost)
        /\ r \notin answerLost' => stored'[r] = 0
    <3>1. r \notin answerLost => stored[r] = 0
      BY <2>3
    <3>2. QED
      BY <2>3, <3>1, ArrivesFacts
  <2>5. QED
    BY <2>1, <2>4
<1>6. CASE Free
  BY <1>6 DEF Free
<1>7. CASE ServerToggles
  BY <1>7 DEF ServerToggles
<1>8. CASE PeriodicProc
  BY <1>8 DEF PeriodicProc
<1>9. CASE UNCHANGED vars
  BY <1>9 DEF vars
<1>10. QED
  BY <1>1, <1>2, <1>3, <1>4, <1>5, <1>5a, <1>6, <1>7, <1>8, <1>9
     DEF Next, MainLoop, PostLine

(* A poll is stored at most once, unless the answer to one of its posts    *)
(* was lost: the retry queue never sends what the database has confirmed.  *)
THEOREM StoredAtMostOnce == Spec => []NotStoredTwice
<1>1. ASSUME Init
      PROVE  NotStoredTwice
  <2>1. \A r \in Records : stored[r] = 0
    BY <1>1 DEF Init
  <2>2. ASSUME NEW r \in Records
        PROVE  stored[r] <= 1
    <3>1. stored[r] = 0
      BY <2>1
    <3>2. 0 <= 1
      OBVIOUS
    <3>3. QED
      BY <3>1, <3>2, Zenon
  <2>3. QED
    BY <2>1, <2>2, Zenon DEF NotStoredTwice
<1>2. OwnerInv /\ NotStoredTwice /\ [Next]_vars => NotStoredTwice'
  BY OnceStep
<1>3. QED
  BY <1>1, <1>2, OwnerInvariant, PTL DEF Spec

-----------------------------------------------------------------------------
(* No silent loss: a record that is no longer held has met one of the      *)
(* four fates the client knows.                                            *)
LossExcused(r) == \/ stored'[r] > 0
                  \/ r \in BadRecords /\ up
                  \/ Len(queue) = MaxQueue
                  \/ LostAtEnd

(* A record that the server confirms is stored by it.                      *)
LEMMA ConfirmedIsStored ==
  ASSUME NEW r \in Records, stored \in [Records -> 0 .. MaxStored],
         SendLine(r, "ok")
  PROVE  stored'[r] > 0
<1>1. stored[r] \in 0 .. MaxStored
  OBVIOUS
<1>2. stored'[r] = IF stored[r] < MaxStored THEN stored[r] + 1 ELSE stored[r]
  BY DEF SendLine, Arrives
<1>3. QED
  BY <1>1, <1>2 DEF MaxStored

(* Which record a step lets go, and what has happened to it.               *)
LEMMA LossStep ==
  ASSUME OwnerInv, [Next]_vars, NEW r \in Records, Held(r), ~Held(r)'
  PROVE  LossExcused(r)
<1> USE PostAssumption DEF OwnerInv, QueueInv, TypeOK, QueueConsistent,
        OwnedOnce, clientVars
<1>1. ASSUME NEW x \in Records, NewRecord(x)
      PROVE  FALSE
  <2>1. UNCHANGED queue /\ influxBuf = NoRecord
    BY <1>1 DEF NewRecord
  <2>2. QED
    BY <2>1 DEF Held, InQueue
<1>2. ASSUME NEW o \in Outcomes(influxBuf), pc = "post",
             SendLine(influxBuf, o), PostAnswered(o)
      PROVE  LossExcused(r)
  <2>1. r = influxBuf
    BY <1>2 DEF PostAnswered, Held, InQueue
  <2>2. CASE o = "ok"
    BY <1>2, <2>1, <2>2, ConfirmedIsStored DEF LossExcused
  <2>3. CASE o # "ok"
    BY <1>2, <2>1, <2>3 DEF PostAnswered, Retryable, CurlErrors, Outcomes, LossExcused
  <2>4. QED
    BY <2>2, <2>3
<1>3. ASSUME NEW o, pc = "post", PostFailed(o)
      PROVE  LossExcused(r)
  <2>1. CASE QueueHasRoom
    <3>1. queue' = Append(queue, influxBuf) /\ influxBuf \in Records
      BY <1>3, <2>1 DEF PostFailed, AddToQueue
    <3>2. /\ Len(queue') = Len(queue) + 1
          /\ \A i \in 1 .. Len(queue) : queue'[i] = queue[i]
          /\ queue'[Len(queue) + 1] = influxBuf
      BY <3>1, AppendElements
    <3>3. Held(r)'
      BY <3>2 DEF Held, InQueue
    <3>4. QED
      BY <3>3
  <2>2. CASE ~QueueHasRoom
    BY <2>2 DEF QueueHasRoom, LossExcused
  <2>3. QED
    BY <2>1, <2>2
<1>4. CASE DequeueSend
  <2>1. Len(queue) > 0 /\ UNCHANGED influxBuf
    BY <1>4 DEF DequeueSend, MoreToDequeue
  <2>2. PICK o \in Outcomes(Head(queue)) :
          /\ SendLine(Head(queue), o)
          /\ IF o = "ok" THEN RemoveHead ELSE CallEnds
    BY <1>4 DEF DequeueSend
  <2>e. CASE o # "ok"
    <3>1. pc' = "freed"
      BY <2>1, <2>2, <2>e DEF CallEnds, Held, InQueue
    <3>2. ~up \/ Head(queue) \in BadRecords
      BY <2>2, <2>e DEF Outcomes
    <3>3. QED
      BY <3>1, <3>2 DEF LossExcused, LostAtEnd
  <2> SUFFICES ASSUME o = "ok"
               PROVE  LossExcused(r)
    BY <2>e
  <2>3. queue' = Tail(queue)
    BY <2>2 DEF RemoveHead
  <2>4. /\ Len(queue') = Len(queue) - 1
        /\ \A i \in 1 .. Len(queue') : queue'[i] = queue[i + 1]
        /\ Head(queue) = queue[1]
    BY <2>1, <2>3, TailElements
  <2>5. r = Head(queue)
    <3>1. PICK i \in 1 .. Len(queue) : queue[i] = r
      BY <2>1 DEF Held, InQueue
    <3>2. CASE i = 1
      BY <2>4, <3>1, <3>2
    <3>3. CASE i # 1
      <4>1. i - 1 \in 1 .. Len(queue') /\ queue'[i - 1] = r
        BY <2>1, <2>4, <3>1, <3>3
      <4>2. QED
        BY <4>1 DEF Held, InQueue
    <3>4. QED
      BY <3>2, <3>3
  <2>6. QED
    BY <2>2, <2>3, <2>5, ConfirmedIsStored DEF LossExcused
<1>5. ASSUME UNCHANGED <<influxBuf, queue>>
      PROVE  FALSE
  BY <1>5 DEF Held, InQueue
<1>6. CASE DequeueReturns
  <2>1. UNCHANGED influxBuf /\ queue' # queue
    BY <1>5, <1>6 DEF DequeueReturns
  <2>2. pc = "final" /\ numDequeued = 0
    BY <1>6, <2>1 DEF DequeueReturns, CallEnds
  <2>3. numEntriesQueued = 0
    BY <1>6, <2>2 DEF DequeueReturns, MoreToDequeue
  <2>4. r = influxBuf
    BY <2>3 DEF Held, InQueue
  <2>5. QED
    BY <2>1, <2>4 DEF Held
<1>7. QED
  BY <1>1, <1>2, <1>3, <1>4, <1>5, <1>6
     DEF Next, MainLoop, PostLine, RequestHangs, Free, PeriodicProc,
         ServerToggles, vars

(* Whatever the server and the network do, a record leaves the client only *)
(* because the server has stored it or refused it, because the retry queue *)
(* is full at that moment, or because the program ends and its last        *)
(* attempt to empty the queue has met a server that does not answer or     *)
(* refuses the oldest record.                                              *)
THEOREM LossIsExcused == Spec => NoSilentLoss
<1>1. OwnerInv /\ [Next]_vars
        => [\A r \in Records : Held(r) /\ ~Held(r)' =>
              \/ stored'[r] > 0
              \/ r \in BadRecords /\ up
              \/ Len(queue) = MaxQueue
              \/ LostAtEnd]_clientVars
  BY LossStep DEF LossExcused
<1>2. QED
  BY <1>1, OwnerInvariant, PTL DEF Spec, NoSilentLoss
=============================================================================
