----------------------------- MODULE WorkerPool -----------------------------
(***************************************************************************)
(* The threads of cron.cpp: the main thread, which runs cron_queryMeters   *)
(* again and again, and one worker thread per serial port, which polls the *)
(* due meters of its port.  They meet at one mutex and one condition       *)
(* variable per worker: a worker owns its mutex whenever it is not inside  *)
(* pthread_cond_wait, workerRun signals the condition without the mutex    *)
(* and without a predicate, and workerWait takes and releases the mutex    *)
(* of every worker in turn.                                                *)
(***************************************************************************)
EXTENDS Integers, FiniteSets

CONSTANTS
  NumWorkers,      (* number of serial ports, one worker thread each       *)
  NumMeters,       (* number of enabled meters; meters is a list 1..n      *)
  TcpMeters,       (* meters polled by the main thread                     *)
  FormulaMeters,   (* formula-only meters, computed by the main thread     *)
  PortOf,          (* the serial port of each serial meter                 *)
  LockTries,       (* LockMutex attempts before workerWait gives up        *)
  PromptWakeup,    (* TRUE: during a usleep of main every runnable worker  *)
                   (* runs until it blocks (the assumption in cron.cpp)    *)
  SpuriousWakeups  (* TRUE: pthread_cond_wait may return unsignalled       *)

Workers == 0 .. (NumWorkers - 1)
Meters == 1 .. NumMeters
SerialMeters == Meters \ (TcpMeters \cup FormulaMeters)

ASSUME PoolAssumption ==
  /\ NumWorkers \in Nat \ {0}
  /\ NumMeters \in Nat
  /\ TcpMeters \subseteq Meters
  /\ FormulaMeters \subseteq Meters
  /\ TcpMeters \cap FormulaMeters = {}
  /\ PortOf \in [SerialMeters -> Workers]
  /\ LockTries \in Nat \ {0}
  /\ PromptWakeup \in BOOLEAN
  /\ SpuriousWakeups \in BOOLEAN

VARIABLES
  mpc,             (* where the main thread is                             *)
  idx,             (* the worker main's current loop has reached           *)
  tries,           (* LockMutex attempts left                              *)
  terminateWorker, (* 0 while running; workerTerminate increments it       *)
  owner,           (* who owns workAvailableMutex of each worker           *)
  wpc,             (* where each worker thread is                          *)
  cursor,          (* the meter each worker's list walk has reached        *)
  wdNumMeters,     (* workerData[w]->numMeters                             *)
  isDue,           (* meter->isDue                                         *)
  hasBeenRead,     (* meter->meterHasBeenRead                              *)
  writePorts,      (* serial ports written by the due [write] definitions  *)
  numMeters,       (* numMeters of cron_queryMeters                        *)
  attempts         (* history: polls of each meter in this round           *)

mainVars  == <<mpc, idx, tries, terminateWorker, writePorts, numMeters>>
meterVars == <<isDue, hasBeenRead, attempts>>
poolVars  == <<owner, wpc, cursor, wdNumMeters>>
vars == <<mainVars, meterVars, poolVars>>

MaxAttempts == 2        (* attempts counts "none", "once", "more than once" *)
MaxTerminate == 2       (* workerTerminate is called twice                  *)

DueIn(S) == {m \in S : isDue[m]}

Counted(f, S) == [m \in Meters |-> IF m \in S /\ f[m] < MaxAttempts
                                   THEN f[m] + 1 ELSE f[m]]

-----------------------------------------------------------------------------
(* Worker threads: workerThread.                                           *)

(* The main thread's return from main or exit(1) ends every thread.        *)
Running == mpc \notin {"freed", "exit"}

(* The test of terminateWorker at the loop top; the worker owns its mutex, *)
(* or, on the first pass only, main does.                                  *)
LoopTop(w) ==
  /\ wpc[w] = "top"
  /\ IF terminateWorker = 0
     THEN /\ wpc' = [wpc EXCEPT ![w] = "enter"]
          /\ UNCHANGED owner
     ELSE /\ wpc' = [wpc EXCEPT ![w] = "ended"]
          /\ owner' = [owner EXCEPT ![w] = "none"]
  /\ UNCHANGED <<mainVars, meterVars, cursor, wdNumMeters>>

(* pthread_cond_wait releases the mutex, whoever locked it, and blocks.    *)
EnterWait(w) ==
  /\ wpc[w] = "enter"
  /\ wpc' = [wpc EXCEPT ![w] = "waiting"]
  /\ owner' = [owner EXCEPT ![w] = "none"]
  /\ UNCHANGED <<mainVars, meterVars, cursor, wdNumMeters>>

SpuriousWakeup(w) ==
  /\ SpuriousWakeups
  /\ wpc[w] = "waiting"
  /\ wpc' = [wpc EXCEPT ![w] = "woken"]
  /\ UNCHANGED <<mainVars, meterVars, owner, cursor, wdNumMeters>>

(* Mutant: the test of terminateWorker after pthread_cond_wait is gone.    *)
WakeUpAlwaysQueries(w) ==
  /\ wpc[w] = "woken"
  /\ owner[w] = "none"
  /\ owner' = [owner EXCEPT ![w] = "worker"]
  /\ wpc' = [wpc EXCEPT ![w] = "walk"]
  /\ cursor' = [cursor EXCEPT ![w] = 1]
  /\ wdNumMeters' = [wdNumMeters EXCEPT ![w] = 0]
  /\ UNCHANGED <<mainVars, meterVars>>

(* pthread_cond_wait returns once the worker has its mutex again.  Nothing *)
(* is tested but terminateWorker, so any return starts a query.            *)
WakeUp(w) ==
  /\ wpc[w] = "woken"
  /\ owner[w] = "none"
  /\ owner' = [owner EXCEPT ![w] = "worker"]
  /\ IF terminateWorker = 0
     THEN /\ wpc' = [wpc EXCEPT ![w] = "walk"]
          /\ cursor' = [cursor EXCEPT ![w] = 1]
          /\ wdNumMeters' = [wdNumMeters EXCEPT ![w] = 0]
     ELSE /\ wpc' = [wpc EXCEPT ![w] = "top"]
          /\ UNCHANGED <<cursor, wdNumMeters>>
  /\ UNCHANGED <<mainVars, meterVars>>

(* Mutant: the walk does not compare serialPortNum.                        *)
AheadAnyPort(w) == {m \in DueIn(SerialMeters) : m >= cursor[w]}

(* The due meters of port w the list walk has still ahead.                 *)
Ahead(w) == {m \in DueIn(SerialMeters) : PortOf[m] = w /\ m >= cursor[w]}

(* The walk stops at the next due meter of the port and calls queryMeter,  *)
(* which clears meterHasBeenRead first, or is at the end of the list.      *)
WalkList(w) ==
  /\ wpc[w] = "walk"
  /\ \/ /\ Ahead(w) = {}
        /\ wpc' = [wpc EXCEPT ![w] = "top"]
        /\ UNCHANGED <<cursor, hasBeenRead, attempts>>
     \/ \E m \in Ahead(w) :
          /\ \A n \in Ahead(w) : m <= n
          /\ wpc' = [wpc EXCEPT ![w] = "query"]
          /\ cursor' = [cursor EXCEPT ![w] = m]
          /\ hasBeenRead' = [hasBeenRead EXCEPT ![m] = FALSE]
          /\ attempts' = Counted(attempts, {m})
  /\ UNCHANGED <<mainVars, isDue, owner, wdNumMeters>>

(* queryMeter returns: 0 with the meter marked as read, or an error.       *)
QueryReturns(w) ==
  /\ wpc[w] = "query"
  /\ \E ok \in BOOLEAN :
       /\ hasBeenRead' = [hasBeenRead EXCEPT ![cursor[w]] = ok]
       /\ wdNumMeters' = [wdNumMeters EXCEPT ![w] = IF ok THEN @ + 1 ELSE @]
  /\ cursor' = [cursor EXCEPT ![w] = @ + 1]
  /\ wpc' = [wpc EXCEPT ![w] = "walk"]
  /\ UNCHANGED <<mainVars, isDue, attempts, owner>>

WorkerStep(w) ==
  \/ LoopTop(w)
  \/ EnterWait(w)
  \/ WakeUp(w)
  \/ WalkList(w)
  \/ QueryReturns(w)

-----------------------------------------------------------------------------
(* The main thread, start up: workerInit.                                  *)

(* Lock the new worker's mutex, so that the thread's start can be awaited, *)
(* and create the thread.                                                  *)
CreateWorker ==
  /\ mpc = "create"
  /\ owner' = [owner EXCEPT ![idx] = "main"]
  /\ wpc' = [wpc EXCEPT ![idx] = "top"]
  /\ IF idx + 1 = NumWorkers
     THEN mpc' = "started" /\ idx' = 0
     ELSE mpc' = "create" /\ idx' = idx + 1
  /\ UNCHANGED <<tries, terminateWorker, writePorts, numMeters>>
  /\ UNCHANGED <<meterVars, cursor, wdNumMeters>>

(* What follows the last iteration of a LockMutex loop.                    *)
AfterLocks == CASE mpc = "started" -> "idle"
                [] mpc = "wait" /\ terminateWorker = 0 -> "sum"
                [] OTHER -> "settle2"

(* LockMutex succeeds and the mutex is unlocked again, in workerInit and   *)
(* in workerWait.  Worker idx is then not between its cond_wait calls.     *)
LockUnlock ==
  /\ mpc \in {"started", "wait"}
  /\ owner[idx] = "none"
  /\ tries' = LockTries
  /\ IF idx + 1 = NumWorkers
     THEN mpc' = AfterLocks /\ idx' = 0
     ELSE UNCHANGED mpc /\ idx' = idx + 1
  /\ UNCHANGED <<terminateWorker, writePorts, numMeters, meterVars, poolVars>>

(* Mutant: the last timeout is taken for success instead of exiting.       *)
LockTimeoutIgnored ==
  /\ mpc \in {"started", "wait"}
  /\ owner[idx] # "none"
  /\ IF tries > 1
     THEN tries' = tries - 1 /\ UNCHANGED <<mpc, idx>>
     ELSE /\ tries' = LockTries
          /\ IF idx + 1 = NumWorkers
             THEN mpc' = AfterLocks /\ idx' = 0
             ELSE UNCHANGED mpc /\ idx' = idx + 1
  /\ UNCHANGED <<terminateWorker, writePorts, numMeters>>
  /\ UNCHANGED <<meterVars, poolVars>>

(* One attempt of LockMutex times out; after the last one main exits.      *)
LockTimeout ==
  /\ mpc \in {"started", "wait"}
  /\ owner[idx] # "none"
  /\ tries' = tries - 1
  /\ mpc' = IF tries = 1 THEN "exit" ELSE mpc
  /\ UNCHANGED <<idx, terminateWorker, writePorts, numMeters>>
  /\ UNCHANGED <<meterVars, poolVars>>

-----------------------------------------------------------------------------
(* The main thread, one round: cron_queryMeters.                           *)

(* Flags are cleared, the meters and writes of the due schedules are       *)
(* marked; with no meter due the round is over.                            *)
BeginRound(due, ports) ==
  /\ mpc = "idle"
  /\ isDue' = [m \in Meters |-> m \in due]
  /\ hasBeenRead' = [m \in Meters |-> FALSE]
  /\ attempts' = [m \in Meters |-> 0]
  /\ numMeters' = 0
  /\ IF due = {}
     THEN UNCHANGED <<mpc, writePorts>>
     ELSE mpc' = "signal" /\ writePorts' = ports
  /\ UNCHANGED <<idx, tries, terminateWorker, poolVars>>

(* workerRun: pthread_cond_signal is lost unless the worker is blocked.    *)
Signal ==
  /\ mpc = "signal"
  /\ wpc' = [wpc EXCEPT ![idx] = IF @ = "waiting" THEN "woken" ELSE @]
  /\ IF idx + 1 = NumWorkers
     THEN mpc' = "settle" /\ idx' = 0
     ELSE UNCHANGED mpc /\ idx' = idx + 1
  /\ UNCHANGED <<tries, terminateWorker, writePorts, numMeters>>
  /\ UNCHANGED <<meterVars, owner, cursor, wdNumMeters>>

(* Blocked in pthread_cond_wait or in a Modbus transfer, or gone.          *)
Settled == \A w \in Workers : wpc[w] \in {"waiting", "query", "ended"}

(* The usleep calls: "give them some time".                                *)
Sleep ==
  /\ PromptWakeup => Settled
  /\ \/ /\ mpc = "settle"
        /\ mpc' = IF terminateWorker = 0 THEN "query" ELSE "wait"
     \/ /\ mpc = "settle2"
        /\ mpc' = IF terminateWorker < MaxTerminate THEN "freeMeters"
                                                    ELSE "freed"
  /\ UNCHANGED <<idx, tries, terminateWorker, writePorts, numMeters>>
  /\ UNCHANGED <<meterVars, poolVars>>

(* Mutant: the results are summed without waiting for the workers.         *)
QueryOwnMetersNoWait(ok) ==
  /\ mpc = "query"
  /\ LET own == DueIn(TcpMeters \cup FormulaMeters)
         read == ok \cup DueIn(FormulaMeters)
     IN /\ hasBeenRead' = [m \in Meters |-> \/ m \in read
                                            \/ m \notin own /\ hasBeenRead[m]]
        /\ numMeters' = Cardinality(read)
        /\ attempts' = Counted(attempts, own)
  /\ mpc' = "sum"
  /\ UNCHANGED <<idx, tries, terminateWorker, writePorts, isDue, poolVars>>

(* Main evaluates the due formula-only meters and queries the due TCP      *)
(* meters; those in "ok" answer.                                           *)
QueryOwnMeters(ok) ==
  /\ mpc = "query"
  /\ LET own == DueIn(TcpMeters \cup FormulaMeters)
         read == ok \cup DueIn(FormulaMeters)
     IN /\ hasBeenRead' = [m \in Meters |-> \/ m \in read
                                            \/ m \notin own /\ hasBeenRead[m]]
        /\ numMeters' = Cardinality(read)
        /\ attempts' = Counted(attempts, own)
  /\ mpc' = "wait"
  /\ UNCHANGED <<idx, tries, terminateWorker, writePorts, isDue, poolVars>>

(* Mutants: the loop forgets i++, or runs past the last worker.            *)
SumResultsNoIncrement ==
  /\ mpc = "sum"
  /\ numMeters' = wdNumMeters[idx]
  /\ UNCHANGED <<mpc, idx, tries, terminateWorker, writePorts>>
  /\ UNCHANGED <<meterVars, poolVars>>

SumResultsPastEnd ==
  /\ mpc = "sum"
  /\ numMeters' = numMeters + wdNumMeters[idx]
  /\ IF idx = NumWorkers
     THEN mpc' = "post" /\ idx' = 0
     ELSE UNCHANGED mpc /\ idx' = idx + 1
  /\ UNCHANGED <<tries, terminateWorker, writePorts, meterVars, poolVars>>

(* The loop that adds workerData[i]->numMeters, without any mutex.         *)
SumResults ==
  /\ mpc = "sum"
  /\ numMeters' = numMeters + wdNumMeters[idx]
  /\ IF idx + 1 = NumWorkers
     THEN mpc' = "post" /\ idx' = 0
     ELSE UNCHANGED mpc /\ idx' = idx + 1
  /\ UNCHANGED <<tries, terminateWorker, writePorts, meterVars, poolVars>>

(* Meter formulas and the influx window calculation over what was read;    *)
(* formula-only meters are counted again, due or not.                      *)
EvalFormulas ==
  /\ mpc = "post"
  /\ numMeters' = numMeters + Cardinality(FormulaMeters)
  /\ mpc' = "write"
  /\ UNCHANGED <<idx, tries, terminateWorker, writePorts>>
  /\ UNCHANGED <<meterVars, poolVars>>

(* execMeterWrite for the due writes; in the state before this step main   *)
(* talks on every bus of writePorts.                                       *)
WritesDone ==
  /\ mpc = "write"
  /\ mpc' = "idle"
  /\ writePorts' = {}
  /\ UNCHANGED <<idx, tries, terminateWorker, numMeters>>
  /\ UNCHANGED <<meterVars, poolVars>>

-----------------------------------------------------------------------------
(* The main thread, shutdown.                                              *)

(* Mutant: workerTerminate does not call workerRun.                        *)
TerminateUnsignalled ==
  /\ mpc \in {"idle", "freeMeters"}
  /\ terminateWorker' = terminateWorker + 1
  /\ mpc' = "settle"
  /\ UNCHANGED <<idx, tries, writePorts, numMeters, meterVars, poolVars>>

(* workerTerminate, called by main before freeMeters and once more by      *)
(* cronFree before it frees workerData.                                    *)
Terminate ==
  /\ mpc \in {"idle", "freeMeters"}
  /\ terminateWorker' = terminateWorker + 1
  /\ mpc' = "signal"
  /\ UNCHANGED <<idx, tries, writePorts, numMeters, meterVars, poolVars>>

-----------------------------------------------------------------------------
Init ==
  /\ mpc = "create"
  /\ idx = 0
  /\ tries = LockTries
  /\ terminateWorker = 0
  /\ owner = [w \in Workers |-> "none"]
  /\ wpc = [w \in Workers |-> "none"]
  /\ cursor = [w \in Workers |-> 1]
  /\ wdNumMeters = [w \in Workers |-> 0]
  /\ isDue = [m \in Meters |-> FALSE]
  /\ hasBeenRead = [m \in Meters |-> FALSE]
  /\ attempts = [m \in Meters |-> 0]
  /\ writePorts = {}
  /\ numMeters = 0

MainStep ==
  \/ CreateWorker
  \/ LockUnlock
  \/ LockTimeout
  \/ Signal
  \/ Sleep
  \/ \E ok \in SUBSET DueIn(TcpMeters) : QueryOwnMeters(ok)
  \/ SumResults
  \/ EvalFormulas
  \/ WritesDone

(* The environment: the clock makes schedules due, an operator stops the   *)
(* program, the threads library wakes a waiter.                            *)
BeginSomeRound ==
  \E due \in SUBSET Meters, ports \in SUBSET Workers : BeginRound(due, ports)

(* main has returned or called exit(1).                                    *)
Ended == ~Running /\ UNCHANGED vars

Next ==
  \/ Running /\ \E w \in Workers : WorkerStep(w) \/ SpuriousWakeup(w)
  \/ MainStep
  \/ BeginSomeRound
  \/ Terminate
  \/ Ended

Spec == Init /\ [][Next]_vars

(* Every thread that can run does run, and every Modbus transfer ends (by  *)
(* an answer or by libmodbus's response timeout).  The two phases of the   *)
(* shutdown follow each other.  No round has to begin and no signal to     *)
(* terminate has to arrive.                                                *)
Fairness ==
  /\ WF_vars(MainStep)
  /\ WF_vars(terminateWorker > 0 /\ Terminate)
  /\ \A w \in Workers : WF_vars(Running /\ WorkerStep(w))

FairSpec == Spec /\ Fairness

-----------------------------------------------------------------------------
(* Properties.                                                             *)

(* Every variable has its type; in particular the loops over workerData    *)
(* stay inside the array and a walk never leaves the meter list by more    *)
(* than the terminating NULL.                                              *)
TypeOK ==
  /\ mpc \in {"create", "started", "idle", "signal", "settle", "query", "wait",
              "sum", "post", "write", "settle2", "freeMeters", "freed", "exit"}
  /\ idx \in Workers
  /\ tries \in 0 .. LockTries
  /\ terminateWorker \in 0 .. MaxTerminate
  /\ owner \in [Workers -> {"none", "main", "worker"}]
  /\ wpc \in [Workers -> {"none", "top", "enter", "waiting", "woken", "walk",
                         "query", "ended"}]
  /\ cursor \in [Workers -> 1 .. (NumMeters + 1)]
  /\ wdNumMeters \in [Workers -> Nat]
  /\ isDue \in [Meters -> BOOLEAN]
  /\ hasBeenRead \in [Meters -> BOOLEAN]
  /\ writePorts \subseteq Workers
  /\ numMeters \in Nat
  /\ attempts \in [Meters -> 0 .. MaxAttempts]

Polling(w) == wpc[w] \in {"walk", "query"}

(* workerWait really waits "for all worker threads to finish work": while  *)
(* main sums, evaluates, sends and writes to the meters, no worker touches *)
(* a meter, a result or a serial bus.                                      *)
MainAlone ==
  mpc \in {"idle", "sum", "post", "write"} => \A w \in Workers : ~Polling(w)

(* The number cron_queryMeters returns: each meter that answered in this   *)
(* round once (no stale and no partial worker result), and every formula-  *)
(* only meter on top, due or not, so that a due one counts twice.          *)
ReturnedCount ==
  mpc = "write" =>
    numMeters = Cardinality({m \in Meters : hasBeenRead[m]})
                  + Cardinality(FormulaMeters)

(* When results are used every due meter has been polled once and no other *)
(* meter at all, whichever thread had to do it.                            *)
PolledOnce ==
  mpc = "post" => \A m \in Meters : attempts[m] = IF isDue[m] THEN 1 ELSE 0

MetersFreed == mpc \in {"freeMeters", "freed"} \/ terminateWorker = MaxTerminate

(* No worker walks the meter list once the first workerTerminate is over   *)
(* and main frees the meters (freeMeters runs before cronFree).            *)
NoPollAfterFree == MetersFreed => \A w \in Workers : ~Polling(w)

(* cronFree frees the workers' mutexes only when no thread uses them.      *)
WorkersGone == mpc = "freed" => \A w \in Workers : wpc[w] = "ended"

(* "trigger all worker threads": during a round no signal of workerRun is  *)
(* lost on a worker that is not waiting for it.                            *)
EveryWorkerTriggered ==
  [][mpc = "signal" /\ mpc' # "exit" /\ terminateWorker = 0
     => wpc[idx] = "waiting"]_<<mpc, idx>>

(* A started round ends: main is back in its loop, has finished, or has    *)
(* given up on a worker after LockTries attempts.                          *)
RoundEnds == mpc = "signal" ~> mpc \in {"idle", "freed", "exit"}

(* cron_queryMeters with its threads implements PollRound: what was polled *)
(* is known when no worker is inside queryMeter for that meter.            *)
InQuery(m) == \E w \in Workers : wpc[w] = "query" /\ cursor[w] = m

RoundDue == DueIn(Meters)

RoundPhase ==
  CASE \/ /\ mpc \in {"signal", "settle", "query", "wait", "sum", "post"}
          /\ terminateWorker = 0
       \/ mpc = "exit" /\ terminateWorker = 0 /\ RoundDue # {} -> "polling"
    [] mpc = "write" -> "report"
    [] OTHER -> "idle"

Outcome == [m \in Meters |-> IF attempts[m] = 0 \/ InQuery(m) THEN "none"
                             ELSE IF hasBeenRead[m] THEN "ok" ELSE "fail"]

RoundTotal == IF mpc = "write" THEN numMeters ELSE 0

Round == INSTANCE PollRound WITH
  Computed <- FormulaMeters, phase <- RoundPhase, due <- RoundDue,
  outcome <- Outcome, total <- RoundTotal

ImplementsPollRound == Round!Spec

-----------------------------------------------------------------------------
(* Inductive invariants: what the properties above rest on.                *)

(* Where main is tells how many workerTerminate calls have begun, the      *)
(* attempts are used up only on the way to exit, loops start at the first  *)
(* worker, and a worker queries a meter of the list.                       *)
ControlInv ==
  /\ mpc \in {"create", "started", "idle", "query", "sum", "post", "write"}
       => terminateWorker = 0
  /\ mpc = "settle2" => terminateWorker > 0
  /\ mpc = "freeMeters" => terminateWorker = 1
  /\ mpc = "freed" => terminateWorker = MaxTerminate
  /\ mpc # "exit" => tries > 0
  /\ mpc \in {"settle", "query", "settle2"} => idx = 0
  /\ \A w \in Workers : wpc[w] = "query" => cursor[w] \in Meters

(* A worker that is not in pthread_cond_wait has a locked mutex, and one   *)
(* that polls has locked it itself.                                        *)
OwnerInv ==
  \A w \in Workers :
    /\ wpc[w] \in {"top", "enter"} => owner[w] # "none"
    /\ Polling(w) => owner[w] = "worker"

(* Once workerTerminate has seen a worker's mutex free, that worker never  *)
(* polls again.                                                            *)
QuietInv ==
  \A w \in Workers :
    \/ mpc \in {"settle2", "freeMeters", "freed"}
    \/ mpc = "wait" /\ terminateWorker > 0 /\ w < idx
    \/ terminateWorker = MaxTerminate
    => ~Polling(w)

(* The handshake of workerInit and the pairing of workerRun and workerWait *)
(* when a signalled worker runs during the usleep that follows.            *)
Started == {"top", "enter", "waiting"}
Busy == Started \cup {"walk", "query"}

HandshakeInv ==
  terminateWorker = 0 =>
    \A w \in Workers :
      /\ mpc = "create" => wpc[w] \in IF w < idx THEN Started ELSE {"none"}
      /\ mpc = "started" => wpc[w] \in IF w < idx THEN {"waiting"} ELSE Started
      /\ mpc \in {"idle", "sum", "post", "write"} => wpc[w] = "waiting"
      /\ mpc = "signal"
           => wpc[w] \in IF w < idx THEN Busy \cup {"woken"} ELSE {"waiting"}
      /\ mpc = "settle" => wpc[w] \in Busy \cup {"woken"}
      /\ mpc = "query" => wpc[w] \in Busy
      /\ mpc = "wait" => wpc[w] \in IF w < idx THEN {"waiting"} ELSE Busy

(* The shutdown under the same assumption: the first workerTerminate ends  *)
(* every worker while main sleeps.                                         *)
ShutdownInv ==
  /\ mpc \in {"idle", "post", "write"} => idx = 0
  /\ terminateWorker = 1 =>
       \A w \in Workers :
         /\ mpc = "signal"
              => wpc[w] \in IF w < idx THEN {"woken", "top", "ended"} ELSE {"waiting"}
         /\ mpc = "settle" => wpc[w] \in {"woken", "top", "ended"}
  /\ \/ terminateWorker = 1 /\ mpc \in {"wait", "settle2", "freeMeters"}
     \/ terminateWorker = MaxTerminate /\ mpc # "exit"
     => \A w \in Workers : wpc[w] = "ended"

(* How far a round has come: a worker has begun its walk once it is woken, *)
(* and has passed the meters before its cursor; main passes its own meters *)
(* in one step.                                                            *)
InRound == terminateWorker = 0
           /\ mpc \in {"signal", "settle", "query", "wait", "sum", "post"}

Begun(w) == wpc[w] # "woken" /\ (mpc = "signal" => w < idx)

Passed(m) ==
  IF m \in SerialMeters
  THEN /\ Begun(PortOf[m])
       /\ wpc[PortOf[m]] = "walk" => m < cursor[PortOf[m]]
       /\ wpc[PortOf[m]] = "query" => m <= cursor[PortOf[m]]
  ELSE mpc \in {"wait", "sum", "post"}

(* A meter has been polled if and only if it is due and has been passed.   *)
PolledInv ==
  InRound => \A m \in Meters : attempts[m] = IF isDue[m] /\ Passed(m) THEN 1 ELSE 0

(* Only such a meter can have been read, and no longer while it is being   *)
(* queried again; the counters count what has been read.                   *)
ReadOn(w) == {m \in SerialMeters : PortOf[m] = w /\ hasBeenRead[m]}

Summed == {m \in Meters : /\ hasBeenRead[m]
                          /\ m \in SerialMeters /\ mpc # "post"
                               => mpc = "sum" /\ PortOf[m] < idx}

CountInv ==
  InRound =>
    /\ \A m \in Meters : hasBeenRead[m] => isDue[m] /\ Passed(m)
    /\ \A w \in Workers :
         /\ wpc[w] = "query" => /\ cursor[w] \in SerialMeters /\ isDue[cursor[w]]
                                /\ PortOf[cursor[w]] = w
                                /\ ~hasBeenRead[cursor[w]]
         /\ Begun(w) => wdNumMeters[w] = Cardinality(ReadOn(w))
    /\ mpc \in {"wait", "sum", "post"} => numMeters = Cardinality(Summed)

(* A round goes on only with a due meter, and none is due before the first *)
(* round: what tells an exit out of a round from one during the start.     *)
DueInv ==
  /\ mpc \in {"create", "started"} => RoundDue = {}
  /\ InRound => RoundDue # {}
=============================================================================
