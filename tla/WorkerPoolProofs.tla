-------------------------- MODULE WorkerPoolProofs --------------------------
(***************************************************************************)
(* Proofs about WorkerPool for any number of workers and meters.           *)
(***************************************************************************)
EXTENDS WorkerPool, FiniteSetTheorems, TLAPS

(* The indices of the loops over workerData.                               *)
LEMMA IndexFacts ==
  /\ 0 \in Workers
  /\ \A i \in Workers : i \in Nat
  /\ \A i \in Workers : i + 1 # NumWorkers => i + 1 \in Workers
  /\ \A i, w \in Workers : i + 1 = NumWorkers => w < i \/ w = i
BY PoolAssumption DEF Workers

Cursors == 1 .. (NumMeters + 1)

(* The places a walk of the meter list can be at.                          *)
LEMMA MeterFacts ==
  /\ 1 \in Cursors
  /\ \A m \in Meters : m \in Cursors /\ m + 1 \in Cursors
BY PoolAssumption DEF Meters, Cursors

(* Counting answers gives a number.                                        *)
LEMMA FiniteMeters ==
  ASSUME NEW S, S \subseteq Meters
  PROVE  IsFiniteSet(S) /\ Cardinality(S) \in Nat
<1>1. IsFiniteSet(Meters)
  BY PoolAssumption, FS_Interval DEF Meters
<1>2. QED
  BY <1>1, FS_Subset, FS_CardinalityType

LEMMA CountedType ==
  ASSUME NEW f \in [Meters -> 0 .. MaxAttempts], NEW S
  PROVE  Counted(f, S) \in [Meters -> 0 .. MaxAttempts]
BY DEF Counted, MaxAttempts

(* What QueryOwnMeters leaves alone.                                       *)
LEMMA QueryOwnFrame ==
  ASSUME NEW ok, QueryOwnMeters(ok)
  PROVE  /\ mpc = "query" /\ mpc' = "wait"
         /\ UNCHANGED <<idx, tries, terminateWorker, writePorts, isDue, poolVars>>
BY Zenon DEF QueryOwnMeters

TypeControl == TypeOK /\ ControlInv

LEMMA TypeControlInit == Init => TypeControl
  BY PoolAssumption DEF Init, TypeControl, TypeOK, ControlInv, Workers, Meters,
     MaxTerminate, MaxAttempts

(* Steps of a worker keep types and control.                               *)
LEMMA TypeControlWorker ==
  ASSUME TypeControl, NEW w \in Workers, WorkerStep(w) \/ SpuriousWakeup(w)
  PROVE  TypeControl'
<1> USE MeterFacts DEF TypeControl, TypeOK, ControlInv, mainVars, meterVars,
                       Cursors
<1>1. CASE LoopTop(w)
  BY <1>1 DEF LoopTop
<1>2. CASE EnterWait(w)
  BY <1>2 DEF EnterWait
<1>3. CASE SpuriousWakeup(w)
  BY <1>3 DEF SpuriousWakeup
<1>4. CASE WakeUp(w)
  <2>1. UNCHANGED <<mainVars, meterVars>>
    BY <1>4 DEF WakeUp
  <2>2. /\ owner' \in [Workers -> {"none", "main", "worker"}]
        /\ wpc' \in [Workers -> {"none", "top", "enter", "waiting", "woken",
                                 "walk", "query", "ended"}]
    BY <1>4 DEF WakeUp
  <2>3. /\ cursor' \in [Workers -> Cursors]
        /\ wdNumMeters' \in [Workers -> Nat]
    BY <1>4 DEF WakeUp
  <2>4. ASSUME NEW v \in Workers, wpc'[v] = "query"
        PROVE  cursor'[v] \in Meters
    BY <1>4, <2>4 DEF WakeUp
  <2>5. QED
    BY <2>1, <2>2, <2>3, <2>4
<1>5. CASE WalkList(w)
  <2>1. UNCHANGED <<mainVars, isDue, owner, wdNumMeters>>
    BY <1>5 DEF WalkList
  <2>2. CASE wpc' = [wpc EXCEPT ![w] = "top"]
             /\ UNCHANGED <<cursor, hasBeenRead, attempts>>
    BY <2>1, <2>2
  <2>3. ASSUME NEW m \in Ahead(w),
               wpc' = [wpc EXCEPT ![w] = "query"],
               cursor' = [cursor EXCEPT ![w] = m],
               hasBeenRead' = [hasBeenRead EXCEPT ![m] = FALSE],
               attempts' = Counted(attempts, {m})
        PROVE  TypeControl'
    <3>1. m \in Meters
      BY DEF Ahead, DueIn, SerialMeters
    <3>2. attempts' \in [Meters -> 0 .. MaxAttempts]
      BY <2>3, CountedType
    <3>3. /\ cursor' \in [Workers -> Cursors]
          /\ hasBeenRead' \in [Meters -> BOOLEAN]
      BY <2>3, <3>1
    <3>4. \A v \in Workers : wpc'[v] = "query" => cursor'[v] \in Meters
      BY <2>3, <3>1
    <3>5. wpc' \in [Workers -> {"none", "top", "enter", "waiting", "woken",
                               "walk", "query", "ended"}]
      BY <2>3
    <3>6. QED
      BY <2>1, <3>2, <3>3, <3>4, <3>5
  <2>4. QED
    BY <1>5, <2>2, <2>3 DEF WalkList
<1>6. CASE QueryReturns(w)
  <2>1. UNCHANGED <<mainVars, isDue, attempts, owner>>
    BY <1>6 DEF QueryReturns
  <2>2. cursor[w] \in Meters
    BY <1>6 DEF QueryReturns
  <2>3. /\ cursor' \in [Workers -> Cursors]
        /\ hasBeenRead' \in [Meters -> BOOLEAN]
    BY <1>6, <2>2 DEF QueryReturns
  <2>4. wdNumMeters' \in [Workers -> Nat]
    BY <1>6 DEF QueryReturns
  <2>5. /\ wpc' \in [Workers -> {"none", "top", "enter", "waiting", "woken",
                                 "walk", "query", "ended"}]
        /\ \A v \in Workers : wpc'[v] = "query" => cursor'[v] \in Meters
    BY <1>6 DEF QueryReturns
  <2>6. QED
    BY <2>1, <2>3, <2>4, <2>5
<1>7. QED
  BY <1>1, <1>2, <1>3, <1>4, <1>5, <1>6 DEF WorkerStep

(* Steps of main keep types and control.                                   *)
LEMMA TypeControlMain ==
  ASSUME TypeControl, MainStep
  PROVE  TypeControl'
<1> USE IndexFacts, PoolAssumption
    DEF TypeControl, TypeOK, ControlInv, poolVars, meterVars, MaxTerminate
<1>1. CASE CreateWorker
  BY <1>1 DEF CreateWorker
<1>2. CASE LockUnlock
  BY <1>2 DEF LockUnlock, AfterLocks
<1>3. CASE LockTimeout
  BY <1>3 DEF LockTimeout
<1>4. CASE Signal
  BY <1>4 DEF Signal
<1>5. CASE Sleep
  BY <1>5 DEF Sleep
<1>6. ASSUME NEW ok \in SUBSET DueIn(TcpMeters), QueryOwnMeters(ok)
      PROVE  TypeControl'
  <2>1. numMeters' \in Nat
    <3>1. ok \cup DueIn(FormulaMeters) \subseteq Meters
      BY DEF DueIn
    <3>2. QED
      BY <1>6, <3>1, FiniteMeters DEF QueryOwnMeters
  <2>2. attempts' \in [Meters -> 0 .. MaxAttempts]
    BY <1>6, CountedType DEF QueryOwnMeters
  <2>3. hasBeenRead' \in [Meters -> BOOLEAN]
    BY <1>6 DEF QueryOwnMeters
  <2>4. /\ mpc = "query" /\ mpc' = "wait"
        /\ UNCHANGED <<idx, tries, terminateWorker, writePorts, isDue, poolVars>>
    BY <1>6, QueryOwnFrame
  <2>5. QED
    BY <2>1, <2>2, <2>3, <2>4
<1>7. CASE SumResults
  BY <1>7 DEF SumResults
<1>8. CASE EvalFormulas
  <2>1. Cardinality(FormulaMeters) \in Nat
    BY FiniteMeters
  <2>2. QED
    BY <1>8, <2>1 DEF EvalFormulas
<1>9. CASE WritesDone
  BY <1>9 DEF WritesDone
<1>10. QED
  BY <1>1, <1>2, <1>3, <1>4, <1>5, <1>6, <1>7, <1>8, <1>9 DEF MainStep

LEMMA TypeControlStep == TypeControl /\ [Next]_vars => TypeControl'
<1> SUFFICES ASSUME TypeControl, [Next]_vars
             PROVE  TypeControl'
  OBVIOUS
<1>1. ASSUME NEW due \in SUBSET Meters, NEW ports \in SUBSET Workers,
             BeginRound(due, ports)
      PROVE  TypeControl'
  BY <1>1 DEF TypeControl, TypeOK, ControlInv, BeginRound, poolVars, MaxAttempts
<1>2. CASE Terminate
  BY <1>2 DEF TypeControl, TypeOK, ControlInv, Terminate, poolVars, meterVars,
              MaxTerminate
<1>3. CASE UNCHANGED vars
  BY <1>3 DEF TypeControl, TypeOK, ControlInv, vars, mainVars, meterVars,
              poolVars
<1>4. QED
  BY <1>1, <1>2, <1>3, TypeControlWorker, TypeControlMain
     DEF Next, BeginSomeRound, Ended

(* Type correctness: no loop over workerData leaves the array, no list     *)
(* walk leaves the meter list, workerTerminate runs at most twice.         *)
THEOREM TypeCorrect == Spec => []TypeOK
<1>1. TypeControl => TypeOK
  BY DEF TypeControl
<1>2. QED
  BY <1>1, TypeControlInit, TypeControlStep, PTL DEF Spec

-----------------------------------------------------------------------------
(* Mutex ownership.                                                        *)
LEMMA OwnerInit == Init => OwnerInv
  BY DEF Init, OwnerInv, Polling

LEMMA OwnerWorker ==
  ASSUME TypeControl, OwnerInv, NEW w \in Workers,
         WorkerStep(w) \/ SpuriousWakeup(w)
  PROVE  OwnerInv'
<1> USE DEF TypeControl, TypeOK, OwnerInv, Polling, mainVars, meterVars
<1>1. CASE LoopTop(w)
  BY <1>1 DEF LoopTop
<1>2. CASE EnterWait(w)
  BY <1>2 DEF EnterWait
<1>3. CASE SpuriousWakeup(w)
  BY <1>3 DEF SpuriousWakeup
<1>4. CASE WakeUp(w)
  BY <1>4 DEF WakeUp, MaxTerminate
<1>5. CASE WalkList(w)
  BY <1>5 DEF WalkList
<1>6. CASE QueryReturns(w)
  BY <1>6 DEF QueryReturns
<1>7. QED
  BY <1>1, <1>2, <1>3, <1>4, <1>5, <1>6 DEF WorkerStep

LEMMA OwnerMain ==
  ASSUME TypeControl, OwnerInv, MainStep \/ BeginSomeRound \/ Terminate
  PROVE  OwnerInv'
<1> USE DEF TypeControl, TypeOK, OwnerInv, Polling, poolVars, meterVars
<1>1. CASE CreateWorker
  BY <1>1 DEF CreateWorker, MaxTerminate
<1>2. CASE LockUnlock
  BY <1>2 DEF LockUnlock, AfterLocks
<1>3. CASE LockTimeout
  BY <1>3 DEF LockTimeout
<1>4. CASE Signal
  BY <1>4 DEF Signal
<1>5. CASE Sleep
  BY <1>5 DEF Sleep
<1>6. ASSUME NEW ok \in SUBSET DueIn(TcpMeters), QueryOwnMeters(ok)
      PROVE  OwnerInv'
  BY <1>6, QueryOwnFrame
<1>7. CASE SumResults
  BY <1>7 DEF SumResults
<1>8. CASE EvalFormulas
  BY <1>8 DEF EvalFormulas
<1>9. CASE WritesDone
  BY <1>9 DEF WritesDone
<1>10. CASE BeginSomeRound
  BY <1>10 DEF BeginSomeRound, BeginRound
<1>11. CASE Terminate
  BY <1>11 DEF Terminate, MaxTerminate
<1>12. QED
  BY <1>1, <1>2, <1>3, <1>4, <1>5, <1>6, <1>7, <1>8, <1>9, <1>10, <1>11
     DEF MainStep

LEMMA OwnerStep == TypeControl /\ OwnerInv /\ [Next]_vars => OwnerInv'
<1>1. OwnerInv /\ UNCHANGED vars => OwnerInv'
  BY DEF OwnerInv, Polling, vars, mainVars, meterVars, poolVars
<1>2. QED
  BY <1>1, OwnerWorker, OwnerMain DEF Next, Ended

-----------------------------------------------------------------------------
(* Memory safety of the shutdown, whatever the scheduling and even with    *)
(* spurious wake-ups.                                                      *)
QuietAll == TypeControl /\ OwnerInv /\ QuietInv

LEMMA QuietInit == Init => QuietInv
  BY DEF Init, QuietInv, Polling, MaxTerminate

(* A worker's step only starts polling when terminateWorker is still 0.    *)
LEMMA QuietWorker ==
  ASSUME QuietAll, NEW w \in Workers, WorkerStep(w) \/ SpuriousWakeup(w)
  PROVE  QuietInv'
<1> USE DEF QuietAll, TypeControl, TypeOK, ControlInv, QuietInv, Polling,
            mainVars, meterVars
<1>1. CASE LoopTop(w)
  BY <1>1 DEF LoopTop
<1>2. CASE EnterWait(w)
  BY <1>2 DEF EnterWait
<1>3. CASE SpuriousWakeup(w)
  BY <1>3 DEF SpuriousWakeup
<1>4. CASE WakeUp(w)
  BY <1>4 DEF WakeUp, MaxTerminate
<1>5. CASE WalkList(w)
  BY <1>5 DEF WalkList
<1>6. CASE QueryReturns(w)
  BY <1>6 DEF QueryReturns
<1>7. QED
  BY <1>1, <1>2, <1>3, <1>4, <1>5, <1>6 DEF WorkerStep

(* Main passes a worker in workerWait only while it does not poll.         *)
LEMMA QuietMain ==
  ASSUME QuietAll, MainStep \/ BeginSomeRound \/ Terminate
  PROVE  QuietInv'
<1> USE IndexFacts
    DEF QuietAll, TypeControl, TypeOK, ControlInv, OwnerInv, QuietInv, Polling,
        poolVars, meterVars
<1>1. CASE CreateWorker
  BY <1>1 DEF CreateWorker, MaxTerminate
<1>2. CASE LockUnlock
  BY <1>2 DEF LockUnlock, AfterLocks
<1>3. CASE LockTimeout
  BY <1>3 DEF LockTimeout
<1>4. CASE Signal
  BY <1>4 DEF Signal
<1>5. CASE Sleep
  BY <1>5 DEF Sleep
<1>6. ASSUME NEW ok \in SUBSET DueIn(TcpMeters), QueryOwnMeters(ok)
      PROVE  QuietInv'
  BY <1>6, QueryOwnFrame
<1>7. CASE SumResults
  BY <1>7 DEF SumResults
<1>8. CASE EvalFormulas
  BY <1>8 DEF EvalFormulas
<1>9. CASE WritesDone
  BY <1>9 DEF WritesDone
<1>10. CASE BeginSomeRound
  BY <1>10 DEF BeginSomeRound, BeginRound
<1>11. CASE Terminate
  BY <1>11 DEF Terminate, MaxTerminate
<1>12. QED
  BY <1>1, <1>2, <1>3, <1>4, <1>5, <1>6, <1>7, <1>8, <1>9, <1>10, <1>11
     DEF MainStep

LEMMA QuietStep == QuietAll /\ [Next]_vars => QuietInv'
<1>1. QuietInv /\ UNCHANGED vars => QuietInv'
  BY DEF QuietInv, Polling, vars, mainVars, meterVars, poolVars
<1>2. QED
  BY <1>1, QuietWorker, QuietMain DEF Next, Ended, QuietAll

(* After the first workerTerminate, when main frees the meters and the     *)
(* workers, no worker walks the meter list any more: for every number of   *)
(* ports, every schedule of the threads and any number of lost signals and *)
(* spurious wake-ups.                                                      *)
THEOREM PollEndsBeforeFree == Spec => []NoPollAfterFree
<1>1. Init => QuietAll
  BY TypeControlInit, OwnerInit, QuietInit DEF QuietAll
<1>2. QuietAll /\ [Next]_vars => QuietAll'
  BY TypeControlStep, OwnerStep, QuietStep DEF QuietAll
<1>3. QuietAll => NoPollAfterFree
  BY DEF QuietAll, QuietInv, NoPollAfterFree, MetersFreed
<1>4. QED
  BY <1>1, <1>2, <1>3, PTL DEF Spec

-----------------------------------------------------------------------------
(* The barrier of a round, under the timing cron.cpp relies on.            *)
Prompt == PromptWakeup /\ ~SpuriousWakeups

BarrierAll == TypeControl /\ OwnerInv /\ HandshakeInv

LEMMA HandshakeInit == Init => HandshakeInv
  BY DEF Init, HandshakeInv, Workers

LEMMA HandshakeWorker ==
  ASSUME Prompt, BarrierAll, NEW w \in Workers, WorkerStep(w) \/ SpuriousWakeup(w)
  PROVE  HandshakeInv'
<1> USE DEF BarrierAll, TypeControl, TypeOK, ControlInv, OwnerInv, HandshakeInv,
            Polling, Started, Busy, mainVars, meterVars
<1>1. CASE LoopTop(w)
  BY <1>1 DEF LoopTop
<1>2. CASE EnterWait(w)
  BY <1>2 DEF EnterWait
<1>3. CASE SpuriousWakeup(w)
  BY <1>3 DEF SpuriousWakeup, Prompt
<1>4. CASE WakeUp(w)
  BY <1>4 DEF WakeUp
<1>5. CASE WalkList(w)
  BY <1>5 DEF WalkList
<1>6. CASE QueryReturns(w)
  BY <1>6 DEF QueryReturns
<1>7. QED
  BY <1>1, <1>2, <1>3, <1>4, <1>5, <1>6 DEF WorkerStep

LEMMA HandshakeMain ==
  ASSUME Prompt, BarrierAll, MainStep \/ BeginSomeRound \/ Terminate
  PROVE  HandshakeInv'
<1> USE IndexFacts
    DEF BarrierAll, TypeControl, TypeOK, ControlInv, OwnerInv, HandshakeInv,
        Polling, Started, Busy, poolVars, meterVars
<1>1. CASE CreateWorker
  BY <1>1 DEF CreateWorker
<1>2. CASE LockUnlock
  BY <1>2 DEF LockUnlock, AfterLocks
<1>3. CASE LockTimeout
  BY <1>3 DEF LockTimeout
<1>4. CASE Signal
  BY <1>4 DEF Signal
<1>5. CASE Sleep
  BY <1>5 DEF Sleep, Settled, Prompt
<1>6. ASSUME NEW ok \in SUBSET DueIn(TcpMeters), QueryOwnMeters(ok)
      PROVE  HandshakeInv'
  BY <1>6, QueryOwnFrame
<1>7. CASE SumResults
  BY <1>7 DEF SumResults
<1>8. CASE EvalFormulas
  BY <1>8 DEF EvalFormulas
<1>9. CASE WritesDone
  BY <1>9 DEF WritesDone
<1>10. CASE BeginSomeRound
  BY <1>10 DEF BeginSomeRound, BeginRound
<1>11. CASE Terminate
  BY <1>11 DEF Terminate
<1>12. QED
  BY <1>1, <1>2, <1>3, <1>4, <1>5, <1>6, <1>7, <1>8, <1>9, <1>10, <1>11
     DEF MainStep

LEMMA HandshakeStep ==
  ASSUME Prompt
  PROVE  BarrierAll /\ [Next]_vars => HandshakeInv'
<1>1. HandshakeInv /\ UNCHANGED vars => HandshakeInv'
  BY DEF HandshakeInv, vars, mainVars, meterVars, poolVars
<1>2. QED
  BY <1>1, HandshakeWorker, HandshakeMain DEF Next, Ended, BarrierAll

LEMMA BarrierInvariant == Prompt => (Spec => []BarrierAll)
<1> SUFFICES ASSUME Prompt
             PROVE  Spec => []BarrierAll
  OBVIOUS
<1>1. Init => BarrierAll
  BY TypeControlInit, OwnerInit, HandshakeInit DEF BarrierAll
<1>2. BarrierAll /\ [Next]_vars => BarrierAll'
  BY TypeControlStep, OwnerStep, HandshakeStep DEF BarrierAll
<1>3. QED
  BY <1>1, <1>2, PTL DEF Spec

(* workerWait is the barrier its comment says it is, provided a signalled  *)
(* worker is scheduled within the usleep after workerRun and the library   *)
(* wakes nobody on its own: main sums, sends and writes alone.             *)
THEOREM WorkerWaitIsBarrier == Prompt => (Spec => []MainAlone)
<1>1. BarrierAll => MainAlone
  BY DEF BarrierAll, TypeControl, ControlInv, HandshakeInv, MainAlone, Polling
<1>2. QED
  BY <1>1, BarrierInvariant, PTL

(* Under the same assumption no signal of a round finds a busy worker.     *)
THEOREM SignalsArrive == Prompt => (Spec => EveryWorkerTriggered)
<1>1. BarrierAll /\ [Next]_vars
        => [mpc = "signal" /\ mpc' # "exit" /\ terminateWorker = 0
              => wpc[idx] = "waiting"]_<<mpc, idx>>
  BY IndexFacts DEF BarrierAll, TypeControl, TypeOK, HandshakeInv
<1>2. QED
  BY <1>1, BarrierInvariant, PTL DEF Spec, EveryWorkerTriggered

-----------------------------------------------------------------------------
(* The shutdown under the same assumption.                                 *)
ShutdownAll == BarrierAll /\ ShutdownInv

LEMMA ShutdownInit == Init => ShutdownInv
  BY DEF Init, ShutdownInv, MaxTerminate

LEMMA ShutdownWorker ==
  ASSUME Prompt, ShutdownAll, NEW w \in Workers, WorkerStep(w) \/ SpuriousWakeup(w)
  PROVE  ShutdownInv'
<1> USE DEF ShutdownAll, BarrierAll, TypeControl, TypeOK, ControlInv, ShutdownInv,
            MaxTerminate, mainVars, meterVars
<1>1. CASE LoopTop(w)
  BY <1>1 DEF LoopTop
<1>2. CASE EnterWait(w)
  BY <1>2 DEF EnterWait
<1>3. CASE SpuriousWakeup(w)
  BY <1>3 DEF SpuriousWakeup, Prompt
<1>4. CASE WakeUp(w)
  BY <1>4 DEF WakeUp
<1>5. CASE WalkList(w)
  BY <1>5 DEF WalkList
<1>6. CASE QueryReturns(w)
  BY <1>6 DEF QueryReturns
<1>7. QED
  BY <1>1, <1>2, <1>3, <1>4, <1>5, <1>6 DEF WorkerStep

LEMMA ShutdownMain ==
  ASSUME Prompt, ShutdownAll, MainStep \/ BeginSomeRound \/ Terminate
  PROVE  ShutdownInv'
<1> USE IndexFacts
    DEF ShutdownAll, BarrierAll, TypeControl, TypeOK, ControlInv, HandshakeInv,
        ShutdownInv, MaxTerminate, poolVars, meterVars
<1>1. CASE CreateWorker
  BY <1>1 DEF CreateWorker
<1>2. CASE LockUnlock
  BY <1>2 DEF LockUnlock, AfterLocks
<1>3. CASE LockTimeout
  BY <1>3 DEF LockTimeout
<1>4. CASE Signal
  BY <1>4 DEF Signal
<1>5. CASE Sleep
  BY <1>5 DEF Sleep, Settled, Prompt
<1>6. ASSUME NEW ok \in SUBSET DueIn(TcpMeters), QueryOwnMeters(ok)
      PROVE  ShutdownInv'
  BY <1>6, QueryOwnFrame
<1>7. CASE SumResults
  BY <1>7 DEF SumResults
<1>8. CASE EvalFormulas
  BY <1>8 DEF EvalFormulas
<1>9. CASE WritesDone
  BY <1>9 DEF WritesDone
<1>10. CASE BeginSomeRound
  BY <1>10 DEF BeginSomeRound, BeginRound
<1>11. CASE Terminate
  BY <1>11 DEF Terminate
<1>12. QED
  BY <1>1, <1>2, <1>3, <1>4, <1>5, <1>6, <1>7, <1>8, <1>9, <1>10, <1>11
     DEF MainStep

LEMMA ShutdownStep ==
  ASSUME Prompt
  PROVE  ShutdownAll /\ [Next]_vars => ShutdownInv'
<1>1. ShutdownInv /\ UNCHANGED vars => ShutdownInv'
  BY DEF ShutdownInv, vars, mainVars, meterVars, poolVars
<1>2. QED
  BY <1>1, ShutdownWorker, ShutdownMain DEF Next, Ended, ShutdownAll

LEMMA ShutdownInvariant == Prompt => (Spec => []ShutdownAll)
<1> SUFFICES ASSUME Prompt
             PROVE  Spec => []ShutdownAll
  OBVIOUS
<1>1. Init => ShutdownInv
  BY ShutdownInit
<1>2. Spec => []BarrierAll
  BY BarrierInvariant
<1>3. BarrierAll /\ ShutdownInv /\ [Next]_vars => ShutdownInv'
  BY ShutdownStep DEF ShutdownAll
<1>4. QED
  BY <1>1, <1>2, <1>3, PTL DEF Spec, ShutdownAll

(* cronFree frees the mutexes and condition variables of the workers when  *)
(* every thread has ended, on any number of ports.                         *)
THEOREM WorkersHaveEnded == Prompt => (Spec => []WorkersGone)
<1>1. ShutdownAll => WorkersGone
  BY DEF ShutdownAll, BarrierAll, TypeControl, ControlInv, ShutdownInv, WorkersGone
<1>2. QED
  BY <1>1, ShutdownInvariant, PTL

-----------------------------------------------------------------------------
(* One round: who has been polled.                                         *)
LEMMA SerialFacts ==
  /\ \A m \in SerialMeters : m \in Meters /\ PortOf[m] \in Workers
  /\ \A m \in Meters : m \notin SerialMeters <=> m \in TcpMeters \cup FormulaMeters
  /\ \A m \in Meters : m \in Nat /\ m >= 1
BY PoolAssumption DEF SerialMeters, Meters

LEMMA PolledInit == Init => PolledInv
  BY DEF Init, PolledInv, InRound

LEMMA PolledWorker ==
  ASSUME Prompt, ShutdownAll, PolledInv, NEW w \in Workers,
         WorkerStep(w) \/ SpuriousWakeup(w)
  PROVE  PolledInv'
<1> USE IndexFacts, SerialFacts
    DEF ShutdownAll, BarrierAll, TypeControl, TypeOK, PolledInv, InRound, Passed,
        Begun, mainVars, meterVars
<1>1. CASE LoopTop(w)
  BY <1>1 DEF LoopTop
<1>2. CASE EnterWait(w)
  BY <1>2 DEF EnterWait
<1>3. CASE SpuriousWakeup(w)
  BY <1>3 DEF SpuriousWakeup, Prompt
<1>4. CASE WakeUp(w)
  BY <1>4 DEF WakeUp
<1>5. CASE WalkList(w)
  <2>1. UNCHANGED <<mainVars, isDue>> /\ wpc[w] = "walk"
    BY <1>5 DEF WalkList
  <2>2. CASE Ahead(w) = {} /\ wpc' = [wpc EXCEPT ![w] = "top"]
             /\ UNCHANGED <<cursor, attempts>>
    <3>1. ASSUME NEW m \in SerialMeters, PortOf[m] = w, isDue[m]
          PROVE  m < cursor[w]
      BY <2>2, <3>1 DEF Ahead, DueIn, Cursors
    <3>2. QED
      BY <2>1, <2>2, <3>1
  <2>3. ASSUME NEW c \in Ahead(w), \A n \in Ahead(w) : c <= n,
               wpc' = [wpc EXCEPT ![w] = "query"],
               cursor' = [cursor EXCEPT ![w] = c],
               attempts' = Counted(attempts, {c})
        PROVE  PolledInv'
    <3>1. c \in SerialMeters /\ isDue[c] /\ PortOf[c] = w /\ c >= cursor[w]
      BY DEF Ahead, DueIn
    <3>2. ASSUME NEW m \in SerialMeters, PortOf[m] = w, isDue[m], m # c
          PROVE  m <= c <=> m < cursor[w]
      <4>1. m \in Ahead(w) <=> m >= cursor[w]
        BY <3>2 DEF Ahead, DueIn
      <4>2. /\ m \in Nat /\ c \in Nat /\ cursor[w] \in Nat
        BY <3>1, PoolAssumption
      <4>3. QED
        BY <2>3, <3>1, <3>2, <4>1, <4>2
    <3>3. ASSUME InRound
          PROVE  attempts[c] = 0
      BY <2>1, <3>1, <3>3, PoolAssumption
    <3>4. ASSUME InRound, NEW m \in Meters
          PROVE  attempts'[m] = IF isDue[m] /\ Passed(m)' THEN 1 ELSE 0
      <4>1. CASE m = c
        <5>1. Begun(w)'
          BY <2>1, <2>3, <3>4 DEF HandshakeInv, Busy, Started
        <5>2. Passed(m)'
          BY <2>3, <3>1, <4>1, <5>1
        <5>3. attempts'[m] = 1
          BY <2>3, <3>3, <3>4, <4>1 DEF Counted, MaxAttempts
        <5>4. QED
          BY <3>1, <4>1, <5>2, <5>3
      <4>2. CASE m # c
        <5>1. attempts'[m] = attempts[m]
          BY <2>3, <4>2 DEF Counted
        <5>2. isDue[m] => (Passed(m)' <=> Passed(m))
          BY <2>1, <2>3, <3>2, <4>2
        <5>3. QED
          BY <3>4, <5>1, <5>2
      <4>3. QED
        BY <4>1, <4>2
    <3>5. QED
      BY <2>1, <3>4
  <2>4. QED
    BY <1>5, <2>2, <2>3 DEF WalkList
<1>6. CASE QueryReturns(w)
  <2>1. ASSUME NEW m \in Meters
        PROVE  Passed(m)' <=> Passed(m)
    <3>1. cursor[w] \in Nat
      BY PoolAssumption
    <3>2. QED
      BY <1>6, <3>1 DEF QueryReturns
  <2>2. QED
    BY <1>6, <2>1 DEF QueryReturns
<1>7. QED
  BY <1>1, <1>2, <1>3, <1>4, <1>5, <1>6 DEF WorkerStep

(* A signal does not count as a worker's beginning before it is woken.     *)
LEMMA SignalFrame ==
  ASSUME ShutdownAll, Signal, terminateWorker = 0, NEW w \in Workers
  PROVE  /\ Begun(w)' <=> Begun(w)
         /\ wpc'[w] = "walk" <=> wpc[w] = "walk"
         /\ wpc'[w] = "query" <=> wpc[w] = "query"
<1> USE IndexFacts
    DEF ShutdownAll, BarrierAll, TypeControl, TypeOK, HandshakeInv, Begun
<1>1. mpc = "signal" /\ wpc[idx] = "waiting"
  BY DEF Signal
<1>2. CASE w = idx
  <2>1. ~Begun(w)
    BY <1>1, <1>2
  <2>2. wpc'[w] = "woken"
    BY <1>1, <1>2 DEF Signal
  <2>3. QED
    BY <1>1, <1>2, <2>1, <2>2
<1>3. CASE w # idx
  <2>1. wpc'[w] = wpc[w]
    BY <1>3 DEF Signal
  <2>2. CASE idx + 1 = NumWorkers
    <3>1. mpc' = "settle" /\ w < idx
      BY <1>3, <2>2 DEF Signal
    <3>2. QED
      BY <2>1, <3>1
  <2>3. CASE idx + 1 # NumWorkers
    <3>1. mpc' = "signal" /\ idx' = idx + 1
      BY <1>1, <2>3 DEF Signal
    <3>2. w < idx' <=> w < idx
      BY <1>3, <3>1
    <3>3. QED
      BY <1>1, <2>1, <3>1, <3>2
  <2>4. QED
    BY <2>2, <2>3
<1>4. QED
  BY <1>2, <1>3

LEMMA PolledMain ==
  ASSUME Prompt, ShutdownAll, PolledInv, MainStep \/ BeginSomeRound \/ Terminate
  PROVE  PolledInv'
<1> USE IndexFacts, SerialFacts
    DEF ShutdownAll, BarrierAll, TypeControl, TypeOK, ControlInv, HandshakeInv,
        ShutdownInv, PolledInv, InRound, Passed, Begun, poolVars, meterVars
<1>1. CASE CreateWorker
  BY <1>1 DEF CreateWorker
<1>2. CASE LockUnlock
  BY <1>2 DEF LockUnlock, AfterLocks
<1>3. CASE LockTimeout
  BY <1>3 DEF LockTimeout
<1>4. CASE Signal
  <2>1. UNCHANGED <<terminateWorker, meterVars, cursor>> /\ mpc = "signal"
    BY <1>4 DEF Signal
  <2>2. ASSUME terminateWorker = 0, NEW w \in Workers
        PROVE  /\ Begun(w)' <=> Begun(w)
               /\ wpc'[w] = "walk" <=> wpc[w] = "walk"
               /\ wpc'[w] = "query" <=> wpc[w] = "query"
    BY <1>4, <2>2, SignalFrame
  <2>4. ASSUME InRound', NEW m \in Meters
        PROVE  Passed(m)' <=> Passed(m)
    <3>1. CASE m \in SerialMeters
      BY <2>1, <2>2, <2>4, <3>1 DEF Passed
    <3>2. CASE m \notin SerialMeters
      BY <1>4, <2>1, <3>2 DEF Signal
    <3>3. QED
      BY <3>1, <3>2
  <2>5. QED
    BY <2>1, <2>4
<1>5. CASE Sleep
  BY <1>5 DEF Sleep, Settled, Prompt
<1>6. ASSUME NEW ok \in SUBSET DueIn(TcpMeters), QueryOwnMeters(ok)
      PROVE  PolledInv'
  <2>1. attempts' = Counted(attempts, DueIn(TcpMeters \cup FormulaMeters))
    BY <1>6 DEF QueryOwnMeters
  <2>2. QED
    BY <1>6, <2>1, QueryOwnFrame DEF Counted, DueIn, MaxAttempts
<1>7. CASE SumResults
  BY <1>7 DEF SumResults
<1>8. CASE EvalFormulas
  BY <1>8 DEF EvalFormulas
<1>9. CASE WritesDone
  BY <1>9 DEF WritesDone
<1>10. CASE BeginSomeRound
  BY <1>10 DEF BeginSomeRound, BeginRound
<1>11. CASE Terminate
  BY <1>11 DEF Terminate, MaxTerminate
<1>12. QED
  BY <1>1, <1>2, <1>3, <1>4, <1>5, <1>6, <1>7, <1>8, <1>9, <1>10, <1>11
     DEF MainStep

LEMMA PolledStep ==
  ASSUME Prompt
  PROVE  ShutdownAll /\ PolledInv /\ [Next]_vars => PolledInv'
<1>1. PolledInv /\ UNCHANGED vars => PolledInv'
  BY DEF PolledInv, InRound, Passed, Begun, vars, mainVars, meterVars, poolVars
<1>2. QED
  BY <1>1, PolledWorker, PolledMain DEF Next, Ended

(* Every due meter is polled exactly once in a round and no other meter is *)
(* polled at all, for every number of ports and every division of the      *)
(* meters among them.                                                      *)
THEOREM EveryDueMeterPolledOnce == Prompt => (Spec => []PolledOnce)
<1> SUFFICES ASSUME Prompt
             PROVE  Spec => []PolledOnce
  OBVIOUS
<1>1. Init => PolledInv
  BY PolledInit
<1>2. Spec => []ShutdownAll
  BY ShutdownInvariant
<1>3. ShutdownAll /\ PolledInv /\ [Next]_vars => PolledInv'
  BY PolledStep
<1>4. ShutdownAll /\ PolledInv => PolledOnce
  BY SerialFacts DEF ShutdownAll, BarrierAll, TypeControl, ControlInv, HandshakeInv,
     PolledInv, PolledOnce, InRound, Passed, Begun
<1>5. QED
  BY <1>1, <1>2, <1>3, <1>4, PTL DEF Spec

-----------------------------------------------------------------------------
(* One round: what has been counted.                                       *)
CountAll == ShutdownAll /\ CountInv

LEMMA CountInit == Init => CountInv
  BY DEF Init, CountInv, InRound

(* Nothing of a port has been read before its worker begins.               *)
LEMMA NothingReadYet ==
  ASSUME CountAll, InRound, NEW w \in Workers, ~Begun(w)
  PROVE  ReadOn(w) = {}
BY SerialFacts DEF CountAll, CountInv, ReadOn, Passed

(* Main's counter does not change while workers only change what they have *)
(* read themselves: it counts that when all workers wait.                  *)
LEMMA SummedFrame ==
  ASSUME CountAll, NEW w \in Workers, wpc[w] # "waiting", InRound,
         UNCHANGED mainVars,
         \A m \in Meters : m \notin SerialMeters => hasBeenRead'[m] = hasBeenRead[m]
  PROVE  mpc \in {"wait", "sum", "post"}
           => mpc = "wait" /\ Summed' = Summed
<1>1. mpc \notin {"sum", "post"}
  BY DEF CountAll, ShutdownAll, BarrierAll, HandshakeInv, InRound
<1>2. QED
  BY <1>1 DEF Summed, mainVars

(* A step that neither reads nor begins a query keeps the counts.          *)
LEMMA CountFrame ==
  ASSUME CountAll, UNCHANGED <<mainVars, isDue, hasBeenRead, wdNumMeters>>,
         \A m \in Meters : hasBeenRead[m] /\ Passed(m) => Passed(m)',
         \A v \in Workers : Begun(v)' => Begun(v),
         \A v \in Workers :
           wpc'[v] = "query" => wpc[v] = "query" /\ cursor'[v] = cursor[v]
  PROVE  CountInv'
<1>1. Summed' = Summed /\ (InRound' <=> InRound)
  BY DEF Summed, InRound, mainVars
<1>2. \A v \in Workers : ReadOn(v)' = ReadOn(v)
  BY DEF ReadOn
<1> SUFFICES ASSUME InRound
             PROVE  CountInv'
  BY <1>1 DEF CountInv
<1>3. \A m \in Meters : hasBeenRead'[m] => isDue'[m] /\ Passed(m)'
  BY DEF CountAll, CountInv
<1>4. ASSUME NEW v \in Workers, wpc'[v] = "query"
      PROVE  /\ cursor'[v] \in SerialMeters /\ isDue'[cursor'[v]]
             /\ PortOf[cursor'[v]] = v /\ ~hasBeenRead'[cursor'[v]]
  <2>1. wpc[v] = "query" /\ cursor'[v] = cursor[v]
    BY <1>4
  <2>2. /\ cursor[v] \in SerialMeters /\ isDue[cursor[v]]
        /\ PortOf[cursor[v]] = v /\ ~hasBeenRead[cursor[v]]
    BY <2>1 DEF CountAll, CountInv
  <2>3. QED
    BY <2>1, <2>2
<1>5. ASSUME NEW v \in Workers, Begun(v)'
      PROVE  wdNumMeters'[v] = Cardinality(ReadOn(v)')
  <2>1. Begun(v)
    BY <1>5
  <2>2. wdNumMeters[v] = Cardinality(ReadOn(v))
    BY <2>1 DEF CountAll, CountInv
  <2>3. QED
    BY <1>2, <2>2
<1>6. mpc' \in {"wait", "sum", "post"} => numMeters' = Cardinality(Summed')
  BY <1>1 DEF CountAll, CountInv, mainVars
<1>7. QED
  BY <1>3, <1>4, <1>5, <1>6 DEF CountInv

LEMMA CountWorker ==
  ASSUME Prompt, CountAll, NEW w \in Workers, WorkerStep(w) \/ SpuriousWakeup(w)
  PROVE  CountInv'
<1> USE IndexFacts, SerialFacts
    DEF CountAll, ShutdownAll, BarrierAll, TypeControl, TypeOK, CountInv, InRound,
        Passed, Begun, mainVars, meterVars
<1>1. CASE LoopTop(w)
  BY <1>1, CountFrame DEF LoopTop
<1>2. CASE EnterWait(w)
  BY <1>2, CountFrame DEF EnterWait
<1>3. CASE SpuriousWakeup(w)
  BY <1>3 DEF SpuriousWakeup, Prompt
<1>4. CASE WakeUp(w)
  <2>1. UNCHANGED <<mainVars, meterVars>> /\ wpc[w] = "woken"
    BY <1>4 DEF WakeUp
  <2>2. ASSUME InRound
        PROVE  /\ wpc' = [wpc EXCEPT ![w] = "walk"]
               /\ cursor' = [cursor EXCEPT ![w] = 1]
               /\ wdNumMeters' = [wdNumMeters EXCEPT ![w] = 0]
    BY <1>4, <2>2 DEF WakeUp
  <2>3. ASSUME InRound, NEW m \in Meters, hasBeenRead[m]
        PROVE  Passed(m)'
    BY <2>1, <2>2, <2>3
  <2>4. \A v \in Workers : ReadOn(v)' = ReadOn(v)
    BY <2>1 DEF ReadOn
  <2>5. InRound => ReadOn(w) = {}
    BY <2>1, NothingReadYet
  <2>6. ASSUME InRound, NEW v \in Workers, Begun(v)'
        PROVE  wdNumMeters'[v] = Cardinality(ReadOn(v)')
    <3>1. CASE v = w
      <4>1. Cardinality(ReadOn(w)') = 0
        BY <2>4, <2>5, <2>6, FS_EmptySet
      <4>2. QED
        BY <2>2, <2>6, <3>1, <4>1
    <3>2. CASE v # w
      BY <2>1, <2>2, <2>4, <2>6, <3>2
    <3>3. QED
      BY <3>1, <3>2
  <2>7. Summed' = Summed
    BY <2>1 DEF Summed
  <2>8. ASSUME InRound, NEW v \in Workers, wpc'[v] = "query"
        PROVE  v # w /\ wpc[v] = "query" /\ cursor'[v] = cursor[v]
    BY <2>2, <2>8
  <2>9. QED
    BY <2>1, <2>3, <2>6, <2>7, <2>8
<1>5. CASE WalkList(w)
  <2>1. UNCHANGED <<mainVars, isDue, wdNumMeters>> /\ wpc[w] = "walk"
    BY <1>5 DEF WalkList
  <2>2. CASE wpc' = [wpc EXCEPT ![w] = "top"] /\ UNCHANGED <<cursor, hasBeenRead>>
    BY <2>1, <2>2, CountFrame
  <2>3. ASSUME InRound,
               NEW c \in Ahead(w), \A n \in Ahead(w) : c <= n,
               wpc' = [wpc EXCEPT ![w] = "query"],
               cursor' = [cursor EXCEPT ![w] = c],
               hasBeenRead' = [hasBeenRead EXCEPT ![c] = FALSE]
        PROVE  CountInv'
    <3>1. c \in SerialMeters /\ isDue[c] /\ PortOf[c] = w /\ c >= cursor[w]
      BY DEF Ahead, DueIn
    <3>2. cursor[w] \in Nat /\ c \in Nat
      BY <3>1, PoolAssumption
    <3>3. ~hasBeenRead[c]
      BY <2>1, <2>3, <3>1, <3>2
    <3>4. \A m \in Meters : hasBeenRead'[m] <=> hasBeenRead[m]
      BY <2>3, <3>3
    <3>5. ASSUME NEW m \in Meters, hasBeenRead'[m]
          PROVE  isDue'[m] /\ Passed(m)'
      <4>1. isDue[m] /\ Passed(m) /\ m # c
        BY <2>3, <3>3, <3>4, <3>5
      <4>2. CASE m \in SerialMeters /\ PortOf[m] = w
        <5>1. m < cursor[w]
          BY <2>1, <4>1, <4>2
        <5>2. m <= c
          BY <3>1, <3>2, <5>1
        <5>3. QED
          BY <2>1, <2>3, <4>1, <4>2, <5>2
      <4>3. CASE ~(m \in SerialMeters /\ PortOf[m] = w)
        BY <2>1, <2>3, <4>1, <4>3
      <4>4. QED
        BY <4>2, <4>3
    <3>6. \A v \in Workers : ReadOn(v)' = ReadOn(v)
      BY <3>4 DEF ReadOn
    <3>7. Summed' = Summed
      BY <2>1, <3>4 DEF Summed
    <3>8. ASSUME NEW v \in Workers, wpc'[v] = "query"
          PROVE  /\ cursor'[v] \in SerialMeters /\ isDue'[cursor'[v]]
                 /\ PortOf[cursor'[v]] = v /\ ~hasBeenRead'[cursor'[v]]
      BY <2>1, <2>3, <3>1, <3>4, <3>8
    <3>9. \A v \in Workers : Begun(v)' => wdNumMeters'[v] = Cardinality(ReadOn(v)')
      BY <2>1, <2>3, <3>6
    <3>10. QED
      BY <2>1, <2>3, <3>5, <3>7, <3>8, <3>9
  <2>4. QED
    BY <1>5, <2>1, <2>2, <2>3 DEF WalkList
<1>6. CASE QueryReturns(w)
  <2> DEFINE c == cursor[w]
  <2>1. UNCHANGED <<mainVars, isDue>> /\ wpc[w] = "query"
    BY <1>6 DEF QueryReturns
  <2>2. PICK ok \in BOOLEAN :
          /\ hasBeenRead' = [hasBeenRead EXCEPT ![c] = ok]
          /\ wdNumMeters' = [wdNumMeters EXCEPT ![w] = IF ok THEN @ + 1 ELSE @]
    BY <1>6 DEF QueryReturns
  <2>3. /\ cursor' = [cursor EXCEPT ![w] = @ + 1]
        /\ wpc' = [wpc EXCEPT ![w] = "walk"]
    BY <1>6 DEF QueryReturns
  <2> SUFFICES ASSUME InRound
               PROVE  CountInv'
    BY <2>1
  <2>4. c \in SerialMeters /\ isDue[c] /\ PortOf[c] = w /\ ~hasBeenRead[c]
    BY <2>1
  <2>5. c \in Nat
    BY <2>4
  <2>6. ASSUME NEW m \in Meters
        PROVE  Passed(m)' <=> Passed(m)
    BY <2>1, <2>3, <2>5
  <2>7. ASSUME NEW m \in Meters, hasBeenRead'[m]
        PROVE  isDue'[m] /\ Passed(m)'
    <3>1. CASE m = c
      BY <2>1, <2>3, <2>4, <2>5, <2>6, <3>1 DEF HandshakeInv, Busy, Started
    <3>2. CASE m # c
      BY <2>1, <2>2, <2>6, <2>7, <3>2
    <3>3. QED
      BY <3>1, <3>2
  <2>8. ASSUME NEW v \in Workers, v # w
        PROVE  ReadOn(v)' = ReadOn(v)
    BY <2>2, <2>4, <2>8 DEF ReadOn
  <2>9. wdNumMeters'[w] = Cardinality(ReadOn(w)')
    <3>1. wdNumMeters[w] = Cardinality(ReadOn(w))
      BY <2>1 DEF HandshakeInv, Busy, Started
    <3>2. CASE ok
      <4>1. ReadOn(w)' = ReadOn(w) \cup {c} /\ c \notin ReadOn(w)
        BY <2>2, <2>4, <3>2 DEF ReadOn
      <4>2. IsFiniteSet(ReadOn(w))
        BY FiniteMeters DEF ReadOn
      <4>3. Cardinality(ReadOn(w) \cup {c}) = Cardinality(ReadOn(w)) + 1
        BY <4>1, <4>2, FS_AddElement
      <4>4. QED
        BY <2>2, <3>1, <3>2, <4>1, <4>3
    <3>3. CASE ~ok
      <4>1. ReadOn(w)' = ReadOn(w)
        BY <2>2, <2>4, <3>3 DEF ReadOn
      <4>2. QED
        BY <2>2, <3>1, <3>3, <4>1
    <3>4. QED
      BY <3>2, <3>3
  <2>10. \A v \in Workers : Begun(v)' => wdNumMeters'[v] = Cardinality(ReadOn(v)')
    BY <2>1, <2>2, <2>3, <2>8, <2>9
  <2>11. ASSUME NEW v \in Workers, wpc'[v] = "query"
         PROVE  /\ cursor'[v] \in SerialMeters /\ isDue'[cursor'[v]]
                /\ PortOf[cursor'[v]] = v /\ ~hasBeenRead'[cursor'[v]]
    BY <2>1, <2>2, <2>3, <2>4, <2>11
  <2>12. mpc \in {"wait", "sum", "post"} => mpc = "wait" /\ Summed' = Summed
    BY <2>1, <2>2, <2>4, SummedFrame
  <2>13. QED
    BY <2>1, <2>7, <2>10, <2>11, <2>12
<1>7. QED
  BY <1>1, <1>2, <1>3, <1>4, <1>5, <1>6 DEF WorkerStep

(* Main adds the counter of a worker that waits.                           *)
LEMMA CountSum ==
  ASSUME CountAll, SumResults
  PROVE  numMeters' = Cardinality(Summed')
<1> USE IndexFacts, SerialFacts
    DEF CountAll, ShutdownAll, BarrierAll, TypeControl, TypeOK, ControlInv
<1>1. mpc = "sum" /\ InRound
  BY DEF SumResults, InRound
<1>2. Summed' = Summed \cup ReadOn(idx)
  <2>1. CASE idx + 1 = NumWorkers
    <3>1. mpc' = "post" /\ UNCHANGED hasBeenRead
      BY <2>1 DEF SumResults, meterVars
    <3>2. \A m \in SerialMeters : PortOf[m] < idx \/ PortOf[m] = idx
      BY <2>1
    <3>3. QED
      BY <1>1, <3>1, <3>2 DEF Summed, ReadOn
  <2>2. CASE idx + 1 # NumWorkers
    <3>1. mpc' = "sum" /\ idx' = idx + 1 /\ UNCHANGED hasBeenRead
      BY <1>1, <2>2 DEF SumResults, meterVars
    <3>2. \A m \in SerialMeters : PortOf[m] < idx' <=> PortOf[m] < idx \/ PortOf[m] = idx
      BY <3>1
    <3>3. QED
      BY <1>1, <3>1, <3>2 DEF Summed, ReadOn
  <2>3. QED
    BY <2>1, <2>2
<1>3. Summed \cap ReadOn(idx) = {}
  BY <1>1 DEF Summed, ReadOn
<1>4. /\ IsFiniteSet(Summed) /\ Cardinality(Summed) \in Nat
      /\ IsFiniteSet(ReadOn(idx)) /\ Cardinality(ReadOn(idx)) \in Nat
  <2>1. Summed \subseteq Meters /\ ReadOn(idx) \subseteq Meters
    BY DEF Summed, ReadOn
  <2>2. QED
    BY <2>1, FiniteMeters
<1>5. Cardinality(Summed \cup ReadOn(idx))
        = Cardinality(Summed) + Cardinality(ReadOn(idx)) - Cardinality({})
  BY <1>3, <1>4, FS_Union
<1>6. Begun(idx)
  BY <1>1 DEF HandshakeInv, Begun
<1>7. wdNumMeters[idx] = Cardinality(ReadOn(idx)) /\ numMeters = Cardinality(Summed)
  BY <1>1, <1>6 DEF CountInv
<1>8. numMeters' = Cardinality(Summed) + Cardinality(ReadOn(idx))
  BY <1>7 DEF SumResults
<1>9. Cardinality({}) = 0
  BY FS_EmptySet
<1>10. QED
  BY <1>2, <1>4, <1>5, <1>8, <1>9

(* What main has read itself when it begins to wait.                       *)
LEMMA CountOwn ==
  ASSUME CountAll, NEW ok \in SUBSET DueIn(TcpMeters), QueryOwnMeters(ok)
  PROVE  CountInv'
<1> USE SerialFacts
    DEF CountAll, ShutdownAll, BarrierAll, TypeControl, TypeOK, ControlInv
<1> DEFINE own == DueIn(TcpMeters \cup FormulaMeters)
           read == ok \cup DueIn(FormulaMeters)
<1>1. /\ mpc = "query" /\ mpc' = "wait"
      /\ UNCHANGED <<idx, tries, terminateWorker, writePorts, isDue, poolVars>>
  BY QueryOwnFrame
<1>2. /\ hasBeenRead' = [m \in Meters |-> \/ m \in read
                                          \/ m \notin own /\ hasBeenRead[m]]
      /\ numMeters' = Cardinality(read)
  BY DEF QueryOwnMeters
<1>3. InRound
  BY <1>1 DEF InRound
<1>4. \A m \in Meters : m \notin SerialMeters => ~hasBeenRead[m]
  BY <1>1, <1>3 DEF CountInv, Passed
<1>5. \A m \in Meters : hasBeenRead'[m] <=> m \in read \/ (m \notin own /\ hasBeenRead[m])
  BY <1>2
<1>6. \A m \in SerialMeters : hasBeenRead'[m] <=> hasBeenRead[m]
  BY <1>5 DEF DueIn
<1>7. \A m \in Meters : m \notin SerialMeters => (hasBeenRead'[m] <=> m \in read)
  BY <1>4, <1>5
<1>8. \A v \in Workers : ReadOn(v)' = ReadOn(v) /\ (Begun(v)' <=> Begun(v))
  BY <1>1, <1>6 DEF ReadOn, Begun, poolVars
<1>9. Summed' = read
  <2>1. read \subseteq Meters /\ read \cap SerialMeters = {}
    BY PoolAssumption DEF DueIn, SerialMeters
  <2>2. Summed' = {m \in Meters : hasBeenRead'[m] /\ m \notin SerialMeters}
    BY <1>1 DEF Summed
  <2>3. QED
    BY <1>7, <2>1, <2>2
<1>10. ASSUME NEW m \in Meters, hasBeenRead'[m]
       PROVE  isDue'[m] /\ Passed(m)'
  <2>1. CASE m \in SerialMeters
    <3>1. hasBeenRead[m]
      BY <1>6, <1>10, <2>1
    <3>2. isDue[m] /\ Passed(m)
      BY <1>3, <3>1 DEF CountInv
    <3>3. QED
      BY <1>1, <1>8, <2>1, <3>2 DEF Passed, poolVars
  <2>2. CASE m \notin SerialMeters
    BY <1>1, <1>7, <1>10, <2>2 DEF DueIn, Passed
  <2>3. QED
    BY <2>1, <2>2
<1>11. ASSUME NEW v \in Workers, wpc'[v] = "query"
       PROVE  /\ cursor'[v] \in SerialMeters /\ isDue'[cursor'[v]]
              /\ PortOf[cursor'[v]] = v /\ ~hasBeenRead'[cursor'[v]]
  BY <1>1, <1>3, <1>6, <1>11 DEF CountInv, poolVars
<1>12. ASSUME NEW v \in Workers, Begun(v)'
       PROVE  wdNumMeters'[v] = Cardinality(ReadOn(v)')
  BY <1>1, <1>3, <1>8, <1>12 DEF CountInv, poolVars
<1>13. QED
  BY <1>2, <1>9, <1>10, <1>11, <1>12 DEF CountInv

LEMMA CountMain ==
  ASSUME Prompt, CountAll, MainStep \/ BeginSomeRound \/ Terminate
  PROVE  CountInv'
<1> USE IndexFacts, SerialFacts
    DEF CountAll, ShutdownAll, BarrierAll, TypeControl, TypeOK, ControlInv,
        HandshakeInv, ShutdownInv, poolVars, meterVars
<1>1. CASE CreateWorker
  BY <1>1 DEF CreateWorker, CountInv, InRound
<1>2. CASE LockUnlock
  <2>1. UNCHANGED <<terminateWorker, numMeters, meterVars, poolVars>>
    BY <1>2 DEF LockUnlock
  <2>2. InRound' => mpc = "wait" /\ (mpc' = "wait" \/ (mpc' = "sum" /\ idx' = 0))
    <3>1. CASE mpc = "started"
      BY <1>2, <3>1 DEF LockUnlock, AfterLocks, InRound
    <3>2. CASE mpc = "wait" /\ terminateWorker = 0
      <4>1. AfterLocks = "sum"
        BY <3>2 DEF AfterLocks
      <4>2. \/ mpc' = AfterLocks /\ idx' = 0
            \/ mpc' = mpc
        BY <1>2 DEF LockUnlock
      <4>3. QED
        BY <3>2, <4>1, <4>2
    <3>3. CASE terminateWorker # 0
      BY <2>1, <3>3 DEF InRound
    <3>4. QED
      BY <1>2, <3>1, <3>2, <3>3 DEF LockUnlock
  <2>3. InRound' => InRound
    BY <2>1, <2>2 DEF InRound
  <2>4. ASSUME InRound'
        PROVE  /\ Summed' = Summed
               /\ \A v \in Workers : ReadOn(v)' = ReadOn(v) /\ (Begun(v)' <=> Begun(v))
    BY <2>1, <2>2, <2>4 DEF Summed, ReadOn, Begun
  <2>5. ASSUME InRound', NEW m \in Meters
        PROVE  Passed(m)' <=> Passed(m)
    BY <2>1, <2>2, <2>4, <2>5 DEF Passed
  <2>6. QED
    BY <2>1, <2>2, <2>3, <2>4, <2>5 DEF CountInv
<1>3. CASE LockTimeout
  <2>1. UNCHANGED <<idx, terminateWorker, numMeters, meterVars, poolVars>>
        /\ (mpc' = mpc \/ mpc' = "exit")
    BY <1>3 DEF LockTimeout
  <2>2. QED
    <3>1. CASE mpc' = "exit"
      BY <3>1 DEF CountInv, InRound
    <3>2. CASE mpc' = mpc
      <4>1. Summed' = Summed /\ \A v \in Workers : ReadOn(v)' = ReadOn(v)
        BY <2>1, <3>2 DEF Summed, ReadOn
      <4>2. QED
        BY <2>1, <3>2, <4>1 DEF CountInv, InRound, Passed, Begun
    <3>3. QED
      BY <2>1, <3>1, <3>2
<1>4. CASE Signal
  <2>1. UNCHANGED <<terminateWorker, numMeters, meterVars, cursor, wdNumMeters>>
        /\ mpc = "signal" /\ mpc' \in {"signal", "settle"}
    BY <1>4 DEF Signal
  <2>2. InRound' <=> InRound
    BY <2>1 DEF InRound
  <2>3. ASSUME InRound, NEW w \in Workers
        PROVE  /\ Begun(w)' <=> Begun(w)
               /\ wpc'[w] = "walk" <=> wpc[w] = "walk"
               /\ wpc'[w] = "query" <=> wpc[w] = "query"
    BY <1>4, <2>1, <2>3, SignalFrame DEF InRound
  <2>4. \A v \in Workers : ReadOn(v)' = ReadOn(v)
    BY <2>1 DEF ReadOn
  <2>5. ASSUME InRound, NEW m \in Meters
        PROVE  Passed(m)' <=> Passed(m)
    BY <2>1, <2>3, <2>5 DEF Passed
  <2>6. QED
    BY <2>1, <2>2, <2>3, <2>4, <2>5 DEF CountInv
<1>5. CASE Sleep
  <2>1. UNCHANGED <<idx, terminateWorker, numMeters, meterVars, poolVars>>
    BY <1>5 DEF Sleep
  <2>2. InRound' => mpc = "settle" /\ mpc' = "query"
    BY <1>5 DEF Sleep, InRound
  <2>3. InRound' => InRound
    BY <2>1, <2>2 DEF InRound
  <2>4. \A v \in Workers : ReadOn(v)' = ReadOn(v)
    BY <2>1 DEF ReadOn
  <2>5. QED
    BY <2>1, <2>2, <2>3, <2>4 DEF CountInv, Passed, Begun
<1>6. ASSUME NEW ok \in SUBSET DueIn(TcpMeters), QueryOwnMeters(ok)
      PROVE  CountInv'
  BY <1>6, CountOwn
<1>7. CASE SumResults
  <2>1. UNCHANGED <<terminateWorker, meterVars, poolVars>>
        /\ mpc = "sum" /\ mpc' \in {"sum", "post"} /\ InRound
    BY <1>7 DEF SumResults, InRound
  <2>2. \A v \in Workers : ReadOn(v)' = ReadOn(v) /\ (Begun(v)' <=> Begun(v))
    BY <2>1 DEF ReadOn, Begun
  <2>3. \A m \in Meters : Passed(m)' <=> Passed(m)
    BY <2>1, <2>2 DEF Passed
  <2>4. numMeters' = Cardinality(Summed')
    BY <1>7, CountSum
  <2>5. QED
    BY <2>1, <2>2, <2>3, <2>4 DEF CountInv
<1>8. CASE EvalFormulas
  BY <1>8 DEF EvalFormulas, CountInv, InRound
<1>9. CASE WritesDone
  BY <1>9 DEF WritesDone, CountInv, InRound
<1>10. CASE BeginSomeRound
  <2>1. /\ mpc = "idle" /\ mpc' \in {"idle", "signal"}
        /\ hasBeenRead' = [m \in Meters |-> FALSE]
        /\ UNCHANGED <<idx, poolVars>>
    BY <1>10 DEF BeginSomeRound, BeginRound
  <2>2. \A v \in Workers : wpc'[v] = "waiting" /\ ~(v < idx')
    BY <2>1
  <2>3. QED
    BY <2>1, <2>2 DEF CountInv, InRound, Begun
<1>11. CASE Terminate
  BY <1>11 DEF Terminate, MaxTerminate, CountInv, InRound
<1>12. QED
  BY <1>1, <1>2, <1>3, <1>4, <1>5, <1>6, <1>7, <1>8, <1>9, <1>10, <1>11
     DEF MainStep

LEMMA CountStep ==
  ASSUME Prompt
  PROVE  CountAll /\ [Next]_vars => CountInv'
<1>1. CountInv /\ UNCHANGED vars => CountInv'
  BY DEF CountInv, InRound, Passed, Begun, ReadOn, Summed, vars, mainVars,
     meterVars, poolVars
<1>2. QED
  BY <1>1, CountWorker, CountMain DEF Next, Ended, CountAll

(* Once the formula-only meters are counted the number does not change.    *)
LEMMA ReturnedCountStep ==
  ASSUME Prompt
  PROVE  CountAll /\ ReturnedCount /\ [Next]_vars => ReturnedCount'
<1> SUFFICES ASSUME CountAll, ReturnedCount, [Next]_vars
             PROVE  ReturnedCount'
  OBVIOUS
<1> USE DEF CountAll, ShutdownAll, BarrierAll, TypeControl, ControlInv, ReturnedCount
<1>1. CASE UNCHANGED vars
  BY <1>1 DEF vars, mainVars, meterVars
<1>2. ASSUME NEW w \in Workers, WorkerStep(w) \/ SpuriousWakeup(w)
      PROVE  ReturnedCount'
  <2>1. UNCHANGED mainVars
    BY <1>2 DEF WorkerStep, SpuriousWakeup, LoopTop, EnterWait, WakeUp, WalkList,
                QueryReturns
  <2>2. CASE mpc = "write"
    <3>1. wpc[w] = "waiting"
      BY <2>2 DEF HandshakeInv
    <3>2. QED
      BY <1>2, <3>1 DEF WorkerStep, SpuriousWakeup, LoopTop, EnterWait, WakeUp,
                        WalkList, QueryReturns, Prompt
  <2>3. CASE mpc # "write"
    BY <2>1, <2>3 DEF mainVars
  <2>4. QED
    BY <2>2, <2>3
<1>3. CASE CreateWorker \/ LockUnlock \/ LockTimeout \/ Signal \/ Sleep
  <2>1. mpc' # "write"
    BY <1>3 DEF CreateWorker, LockUnlock, AfterLocks, LockTimeout, Signal, Sleep
  <2>2. QED
    BY <2>1
<1>4. ASSUME NEW ok \in SUBSET DueIn(TcpMeters), QueryOwnMeters(ok)
      PROVE  ReturnedCount'
  BY <1>4 DEF QueryOwnMeters
<1>5. CASE SumResults
  BY <1>5 DEF SumResults
<1>6. CASE EvalFormulas
  <2>1. /\ mpc = "post" /\ mpc' = "write" /\ terminateWorker = 0
        /\ hasBeenRead' = hasBeenRead
        /\ numMeters' = numMeters + Cardinality(FormulaMeters)
    BY <1>6 DEF EvalFormulas, meterVars
  <2>2. Summed = {m \in Meters : hasBeenRead[m]}
    BY <2>1 DEF Summed
  <2>3. numMeters = Cardinality(Summed)
    BY <2>1 DEF CountInv, InRound
  <2>4. QED
    BY <2>1, <2>2, <2>3
<1>7. CASE WritesDone \/ BeginSomeRound \/ Terminate
  BY <1>7 DEF WritesDone, BeginSomeRound, BeginRound, Terminate
<1>8. QED
  BY <1>1, <1>2, <1>3, <1>4, <1>5, <1>6, <1>7 DEF Next, MainStep, Ended

(* The number cron_queryMeters returns is that of the meters read in this  *)
(* round, added up over the workers without their mutexes and yet neither  *)
(* stale nor partial, plus that of all formula-only meters, for every      *)
(* number of ports and meters.                                             *)
THEOREM ReturnedCountIsExact == Prompt => (Spec => []ReturnedCount)
<1> SUFFICES ASSUME Prompt
             PROVE  Spec => []ReturnedCount
  OBVIOUS
<1>1. Init => CountInv /\ ReturnedCount
  BY CountInit DEF Init, ReturnedCount
<1>2. Spec => []ShutdownAll
  BY ShutdownInvariant
<1>3. ShutdownAll /\ CountInv /\ [Next]_vars => CountInv'
  BY CountStep DEF CountAll
<1>4. ShutdownAll /\ CountInv /\ ReturnedCount /\ [Next]_vars => ReturnedCount'
  BY ReturnedCountStep DEF CountAll
<1>5. QED
  BY <1>1, <1>2, <1>3, <1>4, PTL DEF Spec

-----------------------------------------------------------------------------
(* The refinement of PollRound.                                            *)
RoundAll == CountAll /\ PolledInv /\ DueInv

LEMMA DueStep ==
  ASSUME Prompt
  PROVE  CountAll /\ DueInv /\ [Next]_vars => DueInv'
<1> SUFFICES ASSUME CountAll, DueInv, [Next]_vars
             PROVE  DueInv'
  OBVIOUS
<1> USE DEF CountAll, ShutdownAll, BarrierAll, TypeControl, ControlInv, DueInv,
            InRound, RoundDue, DueIn
<1>1. CASE UNCHANGED vars
  BY <1>1 DEF vars, mainVars, meterVars, poolVars
<1>2. ASSUME NEW w \in Workers, WorkerStep(w) \/ SpuriousWakeup(w)
      PROVE  DueInv'
  <2>1. UNCHANGED <<mpc, terminateWorker, isDue>>
    BY <1>2 DEF WorkerStep, SpuriousWakeup, LoopTop, EnterWait, WakeUp, WalkList,
                QueryReturns, mainVars, meterVars
  <2>2. QED
    BY <2>1
<1>3. CASE CreateWorker
  BY <1>3 DEF CreateWorker, meterVars
<1>4. CASE LockUnlock
  BY <1>4 DEF LockUnlock, AfterLocks, meterVars
<1>5. CASE LockTimeout
  BY <1>5 DEF LockTimeout, meterVars
<1>6. CASE Signal
  BY <1>6 DEF Signal, meterVars
<1>7. CASE Sleep
  BY <1>7 DEF Sleep, meterVars
<1>8. ASSUME NEW ok \in SUBSET DueIn(TcpMeters), QueryOwnMeters(ok)
      PROVE  DueInv'
  BY <1>8, QueryOwnFrame
<1>9. CASE SumResults
  BY <1>9 DEF SumResults, meterVars
<1>10. CASE EvalFormulas
  BY <1>10 DEF EvalFormulas, meterVars
<1>11. CASE WritesDone
  BY <1>11 DEF WritesDone, meterVars
<1>12. CASE BeginSomeRound
  BY <1>12 DEF BeginSomeRound, BeginRound
<1>13. CASE Terminate
  BY <1>13 DEF Terminate, MaxTerminate, meterVars
<1>14. QED
  BY <1>1, <1>2, <1>3, <1>4, <1>5, <1>6, <1>7, <1>8, <1>9, <1>10, <1>11, <1>12,
     <1>13 DEF Next, MainStep, Ended

LEMMA RoundInvariant == Prompt => (Spec => []RoundAll)
<1> SUFFICES ASSUME Prompt
             PROVE  Spec => []RoundAll
  OBVIOUS
<1>1. Init => CountInv /\ PolledInv /\ DueInv
  BY CountInit, PolledInit DEF Init, DueInv, RoundDue, DueIn, InRound
<1>2. Spec => []ShutdownAll
  BY ShutdownInvariant
<1>3. ShutdownAll /\ PolledInv /\ [Next]_vars => PolledInv'
  BY PolledStep
<1>4. ShutdownAll /\ CountInv /\ [Next]_vars => CountInv'
  BY CountStep DEF CountAll
<1>5. ShutdownAll /\ CountInv /\ DueInv /\ [Next]_vars => DueInv'
  BY DueStep DEF CountAll
<1>6. QED
  BY <1>1, <1>2, <1>3, <1>4, <1>5, PTL DEF Spec, RoundAll, CountAll

(* Steps of the pool that the abstract round does not see.                 *)
LEMMA OutcomeFrame ==
  ASSUME UNCHANGED <<attempts, hasBeenRead, cursor>>,
         \A w \in Workers : wpc'[w] = "query" <=> wpc[w] = "query"
  PROVE  UNCHANGED Outcome
BY DEF Outcome, InQuery

RoundStep == [Round!Next]_(Round!pollVars)

LEMMA StutterFrame ==
  ASSUME UNCHANGED <<RoundPhase, RoundDue, Outcome, RoundTotal>>
  PROVE  RoundStep
BY DEF RoundStep, Round!pollVars

(* The parts of the mapping a worker does not touch.                       *)
LEMMA WorkerFrame ==
  ASSUME UNCHANGED <<mainVars, isDue>>
  PROVE  UNCHANGED <<RoundPhase, RoundDue, RoundTotal>>
BY DEF mainVars, RoundPhase, RoundDue, RoundTotal, DueIn

(* Only a worker inside a round walks the list.                            *)
LEMMA PollsInRound ==
  ASSUME RoundAll, Running, NEW w \in Workers, Polling(w)
  PROVE  InRound /\ Begun(w) /\ mpc \notin {"sum", "post"}
BY IndexFacts DEF RoundAll, CountAll, ShutdownAll, BarrierAll, TypeControl,
   TypeOK, ControlInv, HandshakeInv, ShutdownInv, Polling, Running, InRound,
   Begun, Started, Busy, MaxTerminate

LEMMA WalkStutters ==
  ASSUME RoundAll, Running, NEW w \in Workers, WalkList(w)
  PROVE  UNCHANGED Outcome
<1> USE DEF RoundAll, CountAll, ShutdownAll, BarrierAll, TypeControl, TypeOK
<1>1. UNCHANGED <<mainVars, isDue>> /\ wpc[w] = "walk"
  BY DEF WalkList
<1>2. CASE Ahead(w) = {} /\ wpc' = [wpc EXCEPT ![w] = "top"]
           /\ UNCHANGED <<cursor, hasBeenRead, attempts>>
  BY <1>1, <1>2, OutcomeFrame
<1>3. ASSUME NEW c \in Ahead(w), wpc' = [wpc EXCEPT ![w] = "query"],
             cursor' = [cursor EXCEPT ![w] = c],
             hasBeenRead' = [hasBeenRead EXCEPT ![c] = FALSE],
             attempts' = Counted(attempts, {c})
      PROVE  UNCHANGED Outcome
  <2>1. c \in SerialMeters /\ c \in Meters /\ PortOf[c] = w /\ c >= cursor[w]
    BY SerialFacts DEF Ahead, DueIn
  <2>2. attempts[c] = 0
    <3>1. InRound
      BY <1>1, PollsInRound DEF Polling
    <3>2. ~Passed(c)
      BY <1>1, <2>1, SerialFacts, PoolAssumption DEF Passed
    <3>3. QED
      BY <2>1, <3>1, <3>2 DEF PolledInv
  <2>3. InQuery(c)'
    BY <1>3 DEF InQuery
  <2>4. ASSUME NEW m \in Meters, m # c
        PROVE  /\ attempts'[m] = attempts[m]
               /\ hasBeenRead'[m] = hasBeenRead[m]
               /\ InQuery(m)' <=> InQuery(m)
    <3>1. attempts'[m] = attempts[m]
      BY <1>3, <2>4 DEF Counted
    <3>2. hasBeenRead'[m] = hasBeenRead[m]
      BY <1>3, <2>4
    <3>3. InQuery(m)' <=> InQuery(m)
      BY <1>1, <1>3, <2>4 DEF InQuery
    <3>4. QED
      BY <3>1, <3>2, <3>3
  <2>5. QED
    BY <2>2, <2>3, <2>4 DEF Outcome
<1>4. QED
  BY <1>1, <1>2, <1>3 DEF WalkList

(* The end of a query polls one meter of the abstract round.               *)
LEMMA QueryPolls ==
  ASSUME RoundAll, Running, NEW w \in Workers, QueryReturns(w)
  PROVE  Round!Next
<1> USE DEF RoundAll, CountAll, ShutdownAll, BarrierAll, TypeControl, TypeOK
<1>1. /\ UNCHANGED <<mainVars, isDue, attempts>>
      /\ wpc[w] = "query" /\ wpc' = [wpc EXCEPT ![w] = "walk"]
      /\ cursor' = [cursor EXCEPT ![w] = @ + 1]
  BY DEF QueryReturns
<1>2. InRound /\ Begun(w) /\ mpc \notin {"sum", "post"}
  BY <1>1, PollsInRound DEF Polling
<1> PICK c \in SerialMeters : c = cursor[w]
  BY <1>1, <1>2 DEF CountInv
<1> DEFINE A == {m \in {c} : hasBeenRead'[m]}
<1>3. /\ c \in SerialMeters /\ c \in Meters /\ isDue[c] /\ PortOf[c] = w
      /\ \A v \in Workers \ {w} : wpc[v] = "query" => cursor[v] # c
  BY <1>1, <1>2, SerialFacts DEF CountInv
<1>4. /\ \A m \in Meters : m # c => hasBeenRead'[m] = hasBeenRead[m]
      /\ hasBeenRead' \in [Meters -> BOOLEAN]
  BY <1>3 DEF QueryReturns
<1>5. attempts[c] = 1
  <2>1. Passed(c)
    BY <1>1, <1>2, <1>3, SerialFacts DEF Passed
  <2>2. QED
    BY <1>2, <1>3, <2>1 DEF PolledInv
<1>6. InQuery(c) /\ ~InQuery(c)'
  BY <1>1, <1>3 DEF InQuery
<1>7. \A m \in Meters : m # c => (InQuery(m)' <=> InQuery(m))
  BY <1>1 DEF InQuery
<1>8. Outcome' = [m \in Meters |-> IF m \notin {c} THEN Outcome[m]
                                   ELSE IF m \in A THEN "ok" ELSE "fail"]
  BY <1>1, <1>3, <1>4, <1>5, <1>6, <1>7 DEF Outcome
<1>9. RoundPhase = "polling"
  BY <1>2 DEF InRound, RoundPhase
<1>10. {c} \subseteq {m \in RoundDue : Outcome[m] = "none"}
  BY <1>3, <1>6 DEF RoundDue, DueIn, Outcome
<1>11. UNCHANGED <<RoundPhase, RoundDue, RoundTotal>>
  BY <1>1, WorkerFrame
<1>12. Round!Poll({c}, A)
  BY <1>8, <1>9, <1>10, <1>11 DEF Round!Poll
<1>13. QED
  BY <1>3, <1>12 DEF Round!Next

LEMMA WorkerRefines ==
  ASSUME Prompt, RoundAll, Running, NEW w \in Workers,
         WorkerStep(w) \/ SpuriousWakeup(w)
  PROVE  RoundStep
<1> USE DEF RoundAll, CountAll, ShutdownAll, BarrierAll, TypeControl, TypeOK
<1>1. CASE LoopTop(w) \/ EnterWait(w)
  <2>1. /\ UNCHANGED <<mainVars, meterVars, cursor>>
        /\ \A v \in Workers : wpc'[v] = "query" <=> wpc[v] = "query"
    BY <1>1 DEF LoopTop, EnterWait
  <2>2. QED
    BY <2>1, OutcomeFrame, WorkerFrame, StutterFrame DEF meterVars
<1>2. CASE SpuriousWakeup(w)
  BY <1>2 DEF SpuriousWakeup, Prompt
<1>3. CASE WakeUp(w)
  <2>1. /\ UNCHANGED <<mainVars, meterVars>>
        /\ \A v \in Workers : /\ wpc'[v] = "query" <=> wpc[v] = "query"
                              /\ wpc[v] = "query" => cursor'[v] = cursor[v]
    BY <1>3 DEF WakeUp
  <2>2. UNCHANGED Outcome
    BY <2>1 DEF Outcome, InQuery, meterVars
  <2>3. QED
    BY <2>1, <2>2, WorkerFrame, StutterFrame DEF meterVars
<1>4. CASE WalkList(w)
  <2>1. UNCHANGED <<mainVars, isDue>>
    BY <1>4 DEF WalkList
  <2>2. QED
    BY <1>4, <2>1, WalkStutters, WorkerFrame, StutterFrame
<1>5. CASE QueryReturns(w)
  BY <1>5, QueryPolls DEF RoundStep
<1>6. QED
  BY <1>1, <1>2, <1>3, <1>4, <1>5 DEF WorkerStep

(* A step of main that neither polls nor begins a round.                   *)
LEMMA MainFrame ==
  ASSUME UNCHANGED <<terminateWorker, meterVars, cursor>>,
         \A w \in Workers : wpc'[w] = "query" <=> wpc[w] = "query"
  PROVE  UNCHANGED <<RoundDue, Outcome>>
BY OutcomeFrame DEF meterVars, RoundDue, DueIn

(* The main thread polls its own due meters in one step.                   *)
LEMMA OwnPolls ==
  ASSUME RoundAll, NEW ok \in SUBSET DueIn(TcpMeters), QueryOwnMeters(ok)
  PROVE  Round!Next
<1> USE DEF RoundAll, CountAll, ShutdownAll, BarrierAll, TypeControl, TypeOK
<1> DEFINE own == DueIn(TcpMeters \cup FormulaMeters)
           read == ok \cup DueIn(FormulaMeters)
<1>1. /\ mpc = "query" /\ mpc' = "wait" /\ terminateWorker = 0
      /\ UNCHANGED <<idx, terminateWorker, isDue, poolVars>>
  BY QueryOwnFrame DEF ControlInv
<1>2. /\ hasBeenRead' = [m \in Meters |-> \/ m \in read
                                          \/ m \notin own /\ hasBeenRead[m]]
      /\ attempts' = Counted(attempts, own)
  BY DEF QueryOwnMeters
<1>3. read \subseteq own /\ own \subseteq Meters /\ own \cap SerialMeters = {}
      /\ \A m \in own : isDue[m]
  BY PoolAssumption, SerialFacts DEF DueIn
<1> HIDE DEF own, read
<1>4. ASSUME NEW m \in Meters
      PROVE  /\ InQuery(m)' <=> InQuery(m)
             /\ m \in own => ~InQuery(m)
  <2>1. InQuery(m)' <=> InQuery(m)
    BY <1>1 DEF InQuery, poolVars
  <2>2. \A w \in Workers : wpc[w] = "query" => cursor[w] \in SerialMeters
    BY <1>1 DEF CountInv, InRound
  <2>3. QED
    BY <1>3, <2>1, <2>2 DEF InQuery
<1>5. ASSUME NEW m \in own
      PROVE  attempts[m] = 0
  BY <1>1, <1>3 DEF PolledInv, InRound, Passed
<1>6. ASSUME NEW m \in Meters
      PROVE  attempts'[m] = IF m \in own THEN 1 ELSE attempts[m]
  BY <1>2, <1>5 DEF Counted, MaxAttempts
<1>7. Outcome' = [m \in Meters |-> IF m \notin own THEN Outcome[m]
                                   ELSE IF m \in read THEN "ok" ELSE "fail"]
  BY <1>2, <1>3, <1>4, <1>6 DEF Outcome
<1>8. RoundPhase = "polling" /\ RoundPhase' = "polling"
      /\ UNCHANGED <<RoundDue, RoundTotal>>
  BY <1>1 DEF RoundPhase, RoundDue, DueIn, RoundTotal
<1>9. own \subseteq {m \in RoundDue : Outcome[m] = "none"}
  BY <1>3, <1>5 DEF RoundDue, DueIn, Outcome
<1>10. Round!Poll(own, read)
  BY <1>7, <1>8, <1>9 DEF Round!Poll
<1>11. QED
  BY <1>3, <1>10 DEF Round!Next

(* The instance counts as this module does.                                *)
LEMMA RoundCardinality ==
  ASSUME NEW S
  PROVE  Round!Cardinality(S) = Cardinality(S)
BY DEF Round!Cardinality, Cardinality

(* With the formula-only meters counted, the abstract round reports.       *)
LEMMA FormulasReport ==
  ASSUME RoundAll, EvalFormulas
  PROVE  Round!Next
<1> USE DEF RoundAll, CountAll, ShutdownAll, BarrierAll, TypeControl, TypeOK
<1>1. /\ mpc = "post" /\ mpc' = "write" /\ terminateWorker = 0
      /\ numMeters' = numMeters + Cardinality(FormulaMeters)
      /\ UNCHANGED <<terminateWorker, meterVars, poolVars>>
  BY DEF EvalFormulas, ControlInv
<1>2. UNCHANGED <<RoundDue, Outcome>>
  BY <1>1, MainFrame DEF poolVars
<1>3. \A w \in Workers : wpc[w] = "waiting"
  BY <1>1 DEF HandshakeInv
<1>4. \A m \in RoundDue : m \in Meters /\ attempts[m] = 1 /\ ~InQuery(m)
  <2>1. ASSUME NEW m \in Meters
        PROVE  Passed(m)
    BY <1>1, <1>3, SerialFacts DEF Passed, Begun
  <2>2. QED
    BY <1>1, <1>3, <2>1 DEF RoundDue, DueIn, PolledInv, InRound, InQuery
<1>5. \A m \in RoundDue : Outcome[m] = IF hasBeenRead[m] THEN "ok" ELSE "fail"
  BY <1>4 DEF Outcome
<1>6. Round!Answered = Summed
  <2>1. \A m \in Meters : hasBeenRead[m] => m \in RoundDue
    BY <1>1 DEF CountInv, InRound, RoundDue, DueIn
  <2>2. Summed = {m \in Meters : hasBeenRead[m]}
    BY <1>1 DEF Summed
  <2>3. RoundDue \subseteq Meters
    BY DEF RoundDue, DueIn
  <2>4. QED
    BY <1>5, <2>1, <2>2, <2>3 DEF Round!Answered
<1>7. numMeters = Cardinality(Summed)
  BY <1>1 DEF CountInv, InRound
<1>8. /\ RoundPhase = "polling" /\ RoundPhase' = "report"
      /\ RoundTotal' = Round!Cardinality(Round!Answered)
                         + Round!Cardinality(FormulaMeters)
  BY <1>1, <1>6, <1>7, RoundCardinality DEF RoundPhase, RoundTotal
<1>9. Round!Report
  BY <1>2, <1>5, <1>8 DEF Round!Report
<1>10. QED
  BY <1>9 DEF Round!Next

(* A new round: nobody has been polled.                                    *)
LEMMA BeginStarts ==
  ASSUME RoundAll, BeginSomeRound
  PROVE  Round!Next
<1> USE DEF RoundAll, CountAll, ShutdownAll, BarrierAll, TypeControl
<1>1. PICK due \in SUBSET Meters : \E ports \in SUBSET Workers : BeginRound(due, ports)
  BY DEF BeginSomeRound
<1>2. /\ mpc = "idle" /\ mpc' = IF due = {} THEN "idle" ELSE "signal"
      /\ terminateWorker = 0 /\ terminateWorker' = 0
      /\ isDue' = [m \in Meters |-> m \in due]
      /\ attempts' = [m \in Meters |-> 0]
  BY <1>1 DEF BeginRound, ControlInv
<1>3. RoundDue' = due /\ Outcome' = [m \in Meters |-> "none"]
  BY <1>2 DEF RoundDue, DueIn, Outcome
<1>4. /\ RoundPhase = "idle" /\ RoundPhase' = IF due = {} THEN "idle" ELSE "polling"
      /\ UNCHANGED RoundTotal
  BY <1>2 DEF RoundPhase, RoundTotal
<1>5. QED
  BY <1>3, <1>4 DEF Round!Start, Round!Next

LEMMA MainRefines ==
  ASSUME Prompt, RoundAll, MainStep \/ BeginSomeRound \/ Terminate
  PROVE  RoundStep
<1> USE IndexFacts
    DEF RoundAll, CountAll, ShutdownAll, BarrierAll, TypeControl, TypeOK, ControlInv,
        DueInv, InRound, RoundPhase, RoundTotal, poolVars
<1>1. CASE CreateWorker
  <2>1. \A w \in Workers : wpc'[w] = "query" <=> wpc[w] = "query"
    BY <1>1 DEF CreateWorker, HandshakeInv, Started
  <2>2. UNCHANGED <<RoundDue, Outcome>>
    BY <1>1, <2>1, MainFrame DEF CreateWorker
  <2>3. QED
    BY <1>1, <2>2, StutterFrame DEF CreateWorker
<1>2. CASE LockUnlock
  <2>1. UNCHANGED <<RoundDue, Outcome>>
    BY <1>2, MainFrame DEF LockUnlock
  <2>2. QED
    BY <1>2, <2>1, StutterFrame DEF LockUnlock, AfterLocks
<1>3. CASE LockTimeout
  <2>1. UNCHANGED <<RoundDue, Outcome>>
    BY <1>3, MainFrame DEF LockTimeout
  <2>2. QED
    BY <1>3, <2>1, StutterFrame DEF LockTimeout
<1>4. CASE Signal
  <2>1. \A w \in Workers : wpc'[w] = "query" <=> wpc[w] = "query"
    BY <1>4 DEF Signal
  <2>2. UNCHANGED <<RoundDue, Outcome>>
    BY <1>4, <2>1, MainFrame DEF Signal
  <2>3. QED
    BY <1>4, <2>2, StutterFrame DEF Signal
<1>5. CASE Sleep
  <2>1. UNCHANGED <<RoundDue, Outcome>>
    BY <1>5, MainFrame DEF Sleep
  <2>2. QED
    BY <1>5, <2>1, StutterFrame DEF Sleep
<1>6. ASSUME NEW ok \in SUBSET DueIn(TcpMeters), QueryOwnMeters(ok)
      PROVE  RoundStep
  BY <1>6, OwnPolls DEF RoundStep
<1>7. CASE SumResults
  <2>1. UNCHANGED <<RoundDue, Outcome>>
    BY <1>7, MainFrame DEF SumResults
  <2>2. QED
    BY <1>7, <2>1, StutterFrame DEF SumResults
<1>8. CASE EvalFormulas
  BY <1>8, FormulasReport DEF RoundStep
<1>9. CASE WritesDone
  <2>1. UNCHANGED <<RoundDue, Outcome>>
    BY <1>9, MainFrame DEF WritesDone
  <2>2. Round!Release
    BY <1>9, <2>1 DEF WritesDone, Round!Release
  <2>3. QED
    BY <2>2 DEF RoundStep, Round!Next
<1>10. CASE BeginSomeRound
  BY <1>10, BeginStarts DEF RoundStep
<1>11. CASE Terminate
  <2>1. UNCHANGED <<RoundDue, Outcome>>
    BY <1>11, OutcomeFrame DEF Terminate, meterVars, RoundDue, DueIn
  <2>2. QED
    BY <1>11, <2>1, StutterFrame DEF Terminate
<1>12. QED
  BY <1>1, <1>2, <1>3, <1>4, <1>5, <1>6, <1>7, <1>8, <1>9, <1>10, <1>11
     DEF MainStep

LEMMA RoundInit == Init => Round!Init
BY DEF Init, Round!Init, RoundPhase, RoundDue, DueIn, Outcome, RoundTotal

LEMMA StepRefines ==
  ASSUME Prompt
  PROVE  RoundAll /\ [Next]_vars => RoundStep
<1>1. UNCHANGED vars => RoundStep
  BY StutterFrame DEF vars, mainVars, meterVars, poolVars, RoundPhase, RoundDue,
     DueIn, Outcome, InQuery, RoundTotal
<1>2. QED
  BY <1>1, WorkerRefines, MainRefines DEF Next, Ended

(* cron_queryMeters, its main thread and any number of worker threads      *)
(* together, does what one sequential round would do: take the due meters, *)
(* poll each of them once, and only when every one has been polled return  *)
(* the number that answered plus that of the formula-only meters.          *)
THEOREM PoolImplementsRound == Prompt => (Spec => ImplementsPollRound)
<1> SUFFICES ASSUME Prompt
             PROVE  Spec => ImplementsPollRound
  OBVIOUS
<1>1. Init => Round!Init
  BY RoundInit
<1>2. Spec => []RoundAll
  BY RoundInvariant
<1>3. RoundAll /\ [Next]_vars => [Round!Next]_(Round!pollVars)
  BY StepRefines DEF RoundStep
<1>4. QED
  BY <1>1, <1>2, <1>3, PTL DEF Spec, ImplementsPollRound, Round!Spec
=============================================================================
