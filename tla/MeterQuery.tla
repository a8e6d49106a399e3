----------------------------- MODULE MeterQuery -----------------------------
(***************************************************************************)
(* queryMeter step by step, with the pool of TCP connections it shares     *)
(* with the other meters and with execMeterWrite.                          *)
(*                                                                         *)
(* A query opens or reuses the connection of the meter's host, resolves    *)
(* the sunspec block once, sends the init writes once, reads the blocks of *)
(* the meter type and then, one by one, the registers no block covered.    *)
(* Between any two steps the peer may drop the link; the pool keeps        *)
(* calling such a connection connected until modbusTCP_close.              *)
(*                                                                         *)
(* One query runs at a time: all TCP meters are queried by the main        *)
(* thread, and the meters of a serial port share nothing with the others.  *)
(* The six attempts of readRegisters are one transfer here.  A register    *)
(* value is represented by where and how it was obtained.  Sunspec devices *)
(* have one block; registers, and meter types, that are formulas only are  *)
(* left out.                                                               *)
(***************************************************************************)
EXTENDS Integers, Sequences

CONSTANTS
  Meters,           (* enabled meters with a meter type                    *)
  TcpMeters,        (* those with a hostname, the others are serial        *)
  HostOf,           (* the pool entry (host and port) of each TCP meter    *)
  CloseAfterQuery,  (* meters whose type has tcpCloseAfterQuery            *)
  SunspecMeters,    (* meters whose type has a sunspec base address        *)
  Offset,           (* address of the sunspec block in each of them        *)
  InitWrites,       (* number of init writes of each meter's type          *)
  Blocks,           (* meterReads: sequence of [type, start, len]          *)
  Regs              (* sequence of [type, addr, words, sf, sfValue,        *)
                    (* sfOther]; sf is the address of the scaling factor,  *)
                    (* a holding register, 0: none; sfOther is what the    *)
                    (* device has at that address in another kind          *)

Hosts == {HostOf[m] : m \in TcpMeters}
RegsOf(m) == DOMAIN Regs[m]

ASSUME QueryAssumption ==
  /\ TcpMeters \subseteq Meters
  /\ CloseAfterQuery \subseteq TcpMeters
  /\ SunspecMeters \subseteq Meters
  /\ DOMAIN HostOf = TcpMeters
  /\ Offset \in [Meters -> Nat]
  /\ InitWrites \in [Meters -> Nat]
  /\ Blocks \in [Meters -> Seq([type : {"holding", "input"}, start : Nat,
                                len : Nat \ {0}])]
  /\ Regs \in [Meters -> Seq([type : {"holding", "input"}, addr : Nat,
                              words : 1 .. 4, sf : Nat, sfValue : Int,
                              sfOther : Int])]
  /\ \A m \in Meters \ SunspecMeters :
       Offset[m] = 0 /\ \A i \in RegsOf(m) : Regs[m][i].sf = 0

NoMeter == "no meter"
NoValue == [type |-> "none", addr |-> 0, sf |-> 0]  (* fvalue = 0          *)

VARIABLES
  isConnected,        (* mc->isConnected of the pool entry                 *)
  linkUp,             (* the TCP link behind it is intact                  *)
  pc,                 (* where the running query is                        *)
  cur,                (* the meter being queried                           *)
  step,               (* init write, block or register that is next        *)
  needSunspecResolve,
  initDone,
  startAddr,          (* rr->startAddr of each register                    *)
  sunspecSf,          (* rr->sunspecSf of each register, 0: not yet read   *)
  hasBeenRead,        (* registers set by a block of the running query     *)
  fvalue,             (* how each register's value was obtained            *)
  meterHasBeenRead,
  queryFailed,        (* serial meters with queryErrorCount > 0; nothing   *)
                      (* looks at the count of the others                  *)
  queried,            (* history: serial meters queried at least once      *)
  calm                (* environment: from now on every request succeeds   *)

conns == <<isConnected, linkUp>>
control == <<pc, cur, step>>
setup == <<needSunspecResolve, initDone, startAddr>>
values == <<sunspecSf, hasBeenRead, fvalue>>
status == <<meterHasBeenRead, queryFailed, queried>>
vars == <<conns, control, setup, values, status, calm>>

-----------------------------------------------------------------------------
(* The TCP pool and transfers.                                             *)

(* modbusTCP_open: an entry that is connected is used as it is.            *)
OpenOk(m) ==
  IF m \notin TcpMeters \/ isConnected[HostOf[m]] THEN UNCHANGED conns
  ELSE /\ isConnected' = [isConnected EXCEPT ![HostOf[m]] = TRUE]
       /\ linkUp' = [linkUp EXCEPT ![HostOf[m]] = TRUE]

OpenFails(m) ==
  /\ m \in TcpMeters /\ ~isConnected[HostOf[m]]
  /\ ~calm
  /\ UNCHANGED conns

(* modbusTCP_close, for a TCP meter if the condition holds.                *)
CloseIf(m, condition) ==
  IF m \in TcpMeters /\ condition
  THEN /\ isConnected' = [isConnected EXCEPT ![HostOf[m]] = FALSE]
       /\ linkUp' = [linkUp EXCEPT ![HostOf[m]] = FALSE]
  ELSE UNCHANGED conns

(* A request needs an intact link.  It may fail on one too, and it does    *)
(* not repair one: libmodbus recovers the protocol only, not the link.     *)
Intact(m) == m \in TcpMeters => linkUp[HostOf[m]]
MayFail(m) == ~Intact(m) \/ ~calm

Goto(p) == pc' = p /\ step' = 1 /\ UNCHANGED cur
Return == pc' = "idle" /\ cur' = NoMeter /\ step' = 1

-----------------------------------------------------------------------------
(* queryMeter up to and including the open; without a connection the error *)
(* is not counted in queryErrorCount and the old values stay.              *)
QueryOpen(m) ==
  /\ pc = "idle"
  /\ meterHasBeenRead' = [meterHasBeenRead EXCEPT ![m] = FALSE]
  /\ queried' = queried \cup ({m} \ TcpMeters)
  /\ UNCHANGED <<setup, sunspecSf, queryFailed, calm>>
  /\ \/ /\ OpenOk(m)
        /\ pc' = "resolve" /\ cur' = m /\ step' = 1
        /\ hasBeenRead' = [hasBeenRead EXCEPT ![m] = {}]
        /\ fvalue' = [fvalue EXCEPT ![m] = [i \in RegsOf(m) |-> NoValue]]
     \/ /\ OpenFails(m)
        /\ UNCHANGED <<control, hasBeenRead, fvalue>>

ResolveNotNeeded ==
  /\ pc = "resolve" /\ ~needSunspecResolve[cur]
  /\ Goto("init")
  /\ UNCHANGED <<conns, setup, values, status, calm>>

(* meterResolveSunspec adds the block's address to every register.         *)
ResolveOk ==
  /\ pc = "resolve" /\ needSunspecResolve[cur]
  /\ Intact(cur)
  /\ startAddr' = [startAddr EXCEPT ![cur] =
                     [i \in RegsOf(cur) |-> @[i] + Offset[cur]]]
  /\ needSunspecResolve' = [needSunspecResolve EXCEPT ![cur] = FALSE]
  /\ Goto("init")
  /\ UNCHANGED <<conns, initDone, values, status, calm>>

(* A failed read closes the connection (readRegisters); a header that is   *)
(* not sunspec's leaves it open.  Neither counts as a query error.         *)
ResolveFails ==
  /\ pc = "resolve" /\ needSunspecResolve[cur]
  /\ MayFail(cur)
  /\ \E readFailed \in BOOLEAN :
       (readFailed \/ Intact(cur)) /\ CloseIf(cur, readFailed)
  /\ Return
  /\ UNCHANGED <<setup, values, status, calm>>

(* The block of a register or of a read is not in the device's list.       *)
ResolveExits ==
  /\ pc = "resolve" /\ needSunspecResolve[cur]
  /\ Intact(cur) /\ ~calm
  /\ pc' = "exited"
  /\ UNCHANGED <<conns, cur, step, setup, values, status, calm>>

(* The init writes are sent until all of them have succeeded in a row.     *)
InitDone ==
  /\ pc = "init" /\ (initDone[cur] \/ step > InitWrites[cur])
  /\ initDone' = [initDone EXCEPT ![cur] = TRUE]
  /\ Goto("blocks")
  /\ UNCHANGED <<conns, needSunspecResolve, startAddr, values, status, calm>>

InitWriteOk ==
  /\ pc = "init" /\ ~initDone[cur] /\ step <= InitWrites[cur]
  /\ Intact(cur)
  /\ step' = step + 1
  /\ UNCHANGED <<conns, pc, cur, setup, values, status, calm>>

InitWriteFails ==
  /\ pc = "init" /\ ~initDone[cur] /\ step <= InitWrites[cur]
  /\ MayFail(cur)
  /\ CloseIf(cur, cur \in CloseAfterQuery)
  /\ queryFailed' = queryFailed \cup ({cur} \ TcpMeters)
  /\ Return
  /\ UNCHANGED <<setup, values, meterHasBeenRead, queried, calm>>

-----------------------------------------------------------------------------
(* The blocks.  A block's address is relative to the sunspec block too.    *)
FirstReg(m, b) == b.start + Offset[m]
LastReg(m, b) == FirstReg(m, b) + b.len - 1

(* Mutant: the kind of register is not compared.                           *)
CoveredAnyType(m, b, i) ==
  /\ FirstReg(m, b) <= startAddr[m][i]
  /\ startAddr[m][i] + Regs[m][i].words - 1 <= LastReg(m, b)

Covered(m, b, i) ==
  /\ FirstReg(m, b) <= startAddr[m][i]
  /\ startAddr[m][i] + Regs[m][i].words - 1 <= LastReg(m, b)
  /\ b.type = Regs[m][i].type

(* A scaling factor that is still 0 is taken from the block if its address *)
(* is there.  The kind of the block is not looked at.                      *)
SfReg(m, i) == Regs[m][i].sf + Offset[m]
SfMissing(m, i) == Regs[m][i].sf # 0 /\ sunspecSf[m][i] = 0

(* Mutant: the scaling factors are left to the end of the query.           *)
SfInBlockNever(m, b, i) == FALSE

SfInBlock(m, b, i) == SfReg(m, i) \in FirstReg(m, b) .. LastReg(m, b)

SfInBuffer(m, b, i) ==
  IF b.type = "holding" THEN Regs[m][i].sfValue ELSE Regs[m][i].sfOther

(* getRegisterValue on data of the given kind, read from the register's    *)
(* address, and applyDevider with the scaling factor known by then.        *)
RegisterValue(type, m, i, sf) ==
  [type |-> type, addr |-> startAddr[m][i], sf |-> sf]

BlocksDone ==
  /\ pc = "blocks" /\ step > Len(Blocks[cur])
  /\ Goto("registers")
  /\ UNCHANGED <<conns, setup, values, status, calm>>

BlockRead ==
  /\ pc = "blocks" /\ step <= Len(Blocks[cur])
  /\ Intact(cur)
  /\ LET b == Blocks[cur][step]
         sfNow == [i \in RegsOf(cur) |->
                     IF SfMissing(cur, i) /\ SfInBlock(cur, b, i)
                     THEN SfInBuffer(cur, b, i) ELSE sunspecSf[cur][i]]
         covered == {i \in RegsOf(cur) : Covered(cur, b, i)}
     IN  /\ sunspecSf' = [sunspecSf EXCEPT ![cur] = sfNow]
         /\ hasBeenRead' = [hasBeenRead EXCEPT ![cur] = @ \cup covered]
         /\ fvalue' = [fvalue EXCEPT ![cur] = [i \in RegsOf(cur) |->
              IF i \in covered THEN RegisterValue(b.type, cur, i, sfNow[i])
              ELSE @[i]]]
  /\ step' = step + 1
  /\ UNCHANGED <<conns, pc, cur, setup, status, calm>>

(* Mutant: the query goes on with the next block.                          *)
BlockFailsContinue ==
  /\ pc = "blocks" /\ step <= Len(Blocks[cur])
  /\ MayFail(cur)
  /\ CloseIf(cur, TRUE)
  /\ step' = step + 1
  /\ UNCHANGED <<pc, cur, setup, values, status, calm>>

BlockFails ==
  /\ pc = "blocks" /\ step <= Len(Blocks[cur])
  /\ MayFail(cur)
  /\ CloseIf(cur, TRUE)
  /\ queryFailed' = queryFailed \cup ({cur} \ TcpMeters)
  /\ Return
  /\ UNCHANGED <<setup, values, meterHasBeenRead, queried, calm>>

-----------------------------------------------------------------------------
(* The registers that are left, in their order: first a scaling factor     *)
(* that is still missing, then the register itself.                        *)
AtRegister == pc = "registers" /\ step <= Len(Regs[cur])

RegisterAlreadySet ==
  /\ AtRegister
  /\ ~SfMissing(cur, step) /\ step \in hasBeenRead[cur]
  /\ step' = step + 1
  /\ UNCHANGED <<conns, pc, cur, setup, values, status, calm>>

RegisterRead ==
  /\ AtRegister
  /\ SfMissing(cur, step) \/ step \notin hasBeenRead[cur]
  /\ Intact(cur)
  /\ LET sfNow == IF SfMissing(cur, step) THEN Regs[cur][step].sfValue
                  ELSE sunspecSf[cur][step]
     IN  /\ sunspecSf' = [sunspecSf EXCEPT ![cur][step] = sfNow]
         /\ fvalue' = IF step \in hasBeenRead[cur] THEN fvalue
                      ELSE [fvalue EXCEPT ![cur][step] =
                              RegisterValue(Regs[cur][step].type, cur, step, sfNow)]
  /\ step' = step + 1
  /\ UNCHANGED <<conns, pc, cur, setup, hasBeenRead, status, calm>>

(* Mutant: the failure is not counted.                                     *)
RegisterFailsUncounted ==
  /\ AtRegister
  /\ SfMissing(cur, step) \/ step \notin hasBeenRead[cur]
  /\ MayFail(cur)
  /\ CloseIf(cur, TRUE)
  /\ Return
  /\ UNCHANGED <<setup, values, status, calm>>

(* Mutant: the connection stays open for the next attempt.                 *)
RegisterFailsStaysOpen ==
  /\ AtRegister
  /\ SfMissing(cur, step) \/ step \notin hasBeenRead[cur]
  /\ MayFail(cur)
  /\ queryFailed' = queryFailed \cup ({cur} \ TcpMeters)
  /\ Return
  /\ UNCHANGED <<conns, setup, values, meterHasBeenRead, queried, calm>>

(* readRegisters has closed the connection.  The scaling factor may have   *)
(* been read before the register's own transfer failed.                    *)
RegisterFails ==
  /\ AtRegister
  /\ SfMissing(cur, step) \/ step \notin hasBeenRead[cur]
  /\ MayFail(cur)
  /\ \/ UNCHANGED sunspecSf
     \/ /\ SfMissing(cur, step) /\ step \notin hasBeenRead[cur] /\ Intact(cur)
        /\ sunspecSf' = [sunspecSf EXCEPT ![cur][step] = Regs[cur][step].sfValue]
  /\ CloseIf(cur, TRUE)
  /\ queryFailed' = queryFailed \cup ({cur} \ TcpMeters)
  /\ Return
  /\ UNCHANGED <<setup, hasBeenRead, fvalue, meterHasBeenRead, queried, calm>>

(* The rest of queryMeter, with the formulas of the meter type.            *)
QueryDone ==
  /\ pc = "registers" /\ step > Len(Regs[cur])
  /\ CloseIf(cur, cur \in CloseAfterQuery)
  /\ meterHasBeenRead' = [meterHasBeenRead EXCEPT ![cur] = TRUE]
  /\ queryFailed' = queryFailed \ {cur}
  /\ Return
  /\ UNCHANGED <<setup, values, queried, calm>>

(* execMeterWrite: failed writes are only reported, and a formula that     *)
(* cannot be evaluated returns without the close.                          *)
ExecMeterWrite(m) ==
  /\ pc = "idle"
  /\ \/ OpenFails(m)
     \/ OpenOk(m) /\ (m \in CloseAfterQuery => ~calm)
     \/ m \in CloseAfterQuery /\ CloseIf(m, TRUE)
  /\ UNCHANGED <<control, setup, values, status, calm>>

(* The peer drops a link; a calm environment does not.                     *)
LinkDrops(h) ==
  /\ linkUp[h] /\ ~calm
  /\ linkUp' = [linkUp EXCEPT ![h] = FALSE]
  /\ UNCHANGED <<isConnected, control, setup, values, status, calm>>

BecomesCalm ==
  /\ ~calm /\ calm' = TRUE
  /\ UNCHANGED <<conns, control, setup, values, status>>

-----------------------------------------------------------------------------
Init ==
  /\ isConnected = [h \in Hosts |-> FALSE]
  /\ linkUp = [h \in Hosts |-> FALSE]
  /\ pc = "idle" /\ cur = NoMeter /\ step = 1
  /\ needSunspecResolve = [m \in Meters |-> m \in SunspecMeters]
  /\ initDone = [m \in Meters |-> FALSE]
  /\ startAddr = [m \in Meters |-> [i \in RegsOf(m) |-> Regs[m][i].addr]]
  /\ sunspecSf = [m \in Meters |-> [i \in RegsOf(m) |-> 0]]
  /\ hasBeenRead = [m \in Meters |-> {}]
  /\ fvalue = [m \in Meters |-> [i \in RegsOf(m) |-> NoValue]]
  /\ meterHasBeenRead = [m \in Meters |-> FALSE]
  /\ queryFailed = {}
  /\ queried = {}
  /\ calm = FALSE

QueryStep ==
  \/ ResolveNotNeeded \/ ResolveOk \/ ResolveFails \/ ResolveExits
  \/ InitDone \/ InitWriteOk \/ InitWriteFails
  \/ BlocksDone \/ BlockRead \/ BlockFails
  \/ RegisterAlreadySet \/ RegisterRead \/ RegisterFails
  \/ QueryDone

Next ==
  \/ \E m \in Meters : QueryOpen(m)
  \/ QueryStep
  \/ \E m \in Meters : ExecMeterWrite(m)
  \/ \E h \in Hosts : LinkDrops(h)
  \/ BecomesCalm

Spec == Init /\ [][Next]_vars

(* A running query goes on, and the schedule of every meter keeps coming.  *)
Fairness == WF_vars(QueryStep) /\ \A m \in Meters : SF_vars(QueryOpen(m))
FairSpec == Spec /\ Fairness

-----------------------------------------------------------------------------
(* Properties.                                                             *)

Value == [type : {"none", "holding", "input"}, addr : Nat, sf : Int]

StepOK ==
  CASE pc = "init" -> step \in 1 .. InitWrites[cur] + 1
    [] pc = "blocks" -> step \in 1 .. Len(Blocks[cur]) + 1
    [] pc = "registers" -> step \in 1 .. Len(Regs[cur]) + 1
    [] OTHER -> step = 1

TypeOK ==
  /\ isConnected \in [Hosts -> BOOLEAN]
  /\ linkUp \in [Hosts -> BOOLEAN]
  /\ pc \in {"idle", "resolve", "init", "blocks", "registers", "exited"}
  /\ cur \in IF pc = "idle" THEN {NoMeter} ELSE Meters
  /\ StepOK
  /\ needSunspecResolve \in [Meters -> BOOLEAN]
  /\ initDone \in [Meters -> BOOLEAN]
  /\ meterHasBeenRead \in [Meters -> BOOLEAN]
  /\ queryFailed \subseteq Meters \ TcpMeters
  /\ queried \subseteq Meters \ TcpMeters
  /\ calm \in BOOLEAN
  /\ DOMAIN startAddr = Meters /\ DOMAIN sunspecSf = Meters
  /\ DOMAIN hasBeenRead = Meters /\ DOMAIN fvalue = Meters
  /\ \A m \in Meters :
       /\ startAddr[m] \in [RegsOf(m) -> Nat]
       /\ sunspecSf[m] \in [RegsOf(m) -> Int]
       /\ hasBeenRead[m] \subseteq RegsOf(m)
       /\ fvalue[m] \in [RegsOf(m) -> Value]

(* No request is sent over a connection the pool has closed: every return  *)
(* path that closes ends the query too.                                    *)
Querying == pc \in {"resolve", "init", "blocks", "registers"}

NoUseAfterClose ==
  Querying /\ cur \in TcpMeters => isConnected[HostOf[cur]]

(* A meter that counts as read has every register's value from its own     *)
(* address and of its own kind, whatever mixture of blocks and single      *)
(* reads, failed resolves and failed queries came before.                  *)
OwnValue(m, i) ==
  /\ fvalue[m][i].type = Regs[m][i].type
  /\ fvalue[m][i].addr = Regs[m][i].addr + Offset[m]

ReadComplete ==
  \A m \in Meters : meterHasBeenRead[m] => \A i \in RegsOf(m) : OwnValue(m, i)

(* What the watch over the serial ports relies on: a serial meter that has *)
(* been queried and not read has an error count, unless it still waits for *)
(* its sunspec resolve.                                                    *)
ErrorsCounted ==
  pc = "idle" =>
    \A m \in queried :
      ~meterHasBeenRead[m] => m \in queryFailed \/ needSunspecResolve[m]

(* A meter that counts as read has its values scaled by the factors of the *)
(* device.  Two configurations are left out: a block that covers a         *)
(* register but not its factor, since a value taken before the factor is   *)
(* known is not scaled afterwards; and a block of another kind that covers *)
(* the factor's address, since its content is taken for the factor, and    *)
(* kept for good unless it is 0.                                           *)
HeldBy(b, addr, words) == b.start <= addr /\ addr + words <= b.start + b.len

SfWithRegister(m, i) ==
  \A k \in 1 .. Len(Blocks[m]) :
    LET b == Blocks[m][k]
        r == Regs[m][i]
    IN b.type = r.type /\ HeldBy(b, r.addr, r.words) => HeldBy(b, r.sf, 1)

SfOfOneKind(m, i) ==
  \A k \in 1 .. Len(Blocks[m]) :
    HeldBy(Blocks[m][k], Regs[m][i].sf, 1) => Blocks[m][k].type = "holding"

Scaled(m, i) ==
  Regs[m][i].sf # 0 /\ SfWithRegister(m, i) /\ SfOfOneKind(m, i)
    => fvalue[m][i].sf = Regs[m][i].sfValue

ValuesScaled ==
  \A m \in Meters : meterHasBeenRead[m] => \A i \in RegsOf(m) : Scaled(m, i)

(* "return res;  // for TCP open retry": once the devices and the network  *)
(* behave, every meter is read by each of its queries from some time on,   *)
(* however its connection was lost before, with one exception: an init     *)
(* write that fails leaves the connection open (no readRegisters closes    *)
(* it), so a dead one is used again and again where every meter of the     *)
(* host is still at its init writes and keeps its connection open.         *)
Stuck(h) ==
  /\ isConnected[h] /\ ~linkUp[h]
  /\ \A m \in TcpMeters \ CloseAfterQuery :
       HostOf[m] = h =>
         InitWrites[m] > 0 /\ ~initDone[m] /\ ~needSunspecResolve[m]
  /\ \A m \in CloseAfterQuery : HostOf[m] # h

ReadAgain ==
  <>calm =>
    <>[](pc = "idle" =>
           \A m \in Meters :
             meterHasBeenRead[m] \/ (m \in TcpMeters /\ Stuck(HostOf[m])))

(* What ReadComplete rests on: addresses are shifted once, when the        *)
(* resolve is over, and the running query has read the registers that are  *)
(* marked or passed.                                                       *)
ShiftedOnce ==
  \A m \in Meters : \A i \in RegsOf(m) :
    startAddr[m][i] =
      Regs[m][i].addr + (IF needSunspecResolve[m] THEN 0 ELSE Offset[m])

QueryInv ==
  Querying =>
    /\ ~meterHasBeenRead[cur]
    /\ pc # "resolve" => ~needSunspecResolve[cur]
    /\ \A i \in hasBeenRead[cur] : OwnValue(cur, i)
    /\ pc = "registers" => \A i \in 1 .. step - 1 : OwnValue(cur, i)

ReadInv == ShiftedOnce /\ QueryInv /\ ReadComplete

(* The same for ValuesScaled: a scaling factor is the device's once it is  *)
(* not 0, and the values taken so far are scaled.                          *)
SfKnown ==
  \A m \in Meters : \A i \in RegsOf(m) :
    Regs[m][i].sf # 0 /\ SfOfOneKind(m, i)
      => sunspecSf[m][i] \in {0, Regs[m][i].sfValue}

ScaleInv ==
  Querying =>
    /\ \A i \in hasBeenRead[cur] : Scaled(cur, i)
    /\ pc = "registers" => \A i \in 1 .. step - 1 : Scaled(cur, i)

ScaledInv == SfKnown /\ ScaleInv /\ ValuesScaled

(* ErrorsCounted in the course of a query: the running one, and one that   *)
(* has ended the program, may still be uncounted; a meter that waits for   *)
(* its resolve has not gone further.                                       *)
ErrorInv ==
  /\ \A m \in queried :
       ~meterHasBeenRead[m] =>
         m \in queryFailed \/ needSunspecResolve[m] \/ (pc # "idle" /\ cur = m)
  /\ pc \in {"init", "blocks", "registers"} => ~needSunspecResolve[cur]
=============================================================================
