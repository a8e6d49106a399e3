-------------------------- MODULE MeterQueryProofs --------------------------
(***************************************************************************)
(* Proofs about MeterQuery for any installation: any meters, connections,  *)
(* blocks and registers.                                                   *)
(***************************************************************************)
EXTENDS MeterQuery, SequenceTheorems, TLAPS

(* The tables of a meter.                                                  *)
LEMMA TableFacts ==
  ASSUME NEW m \in Meters
  PROVE  /\ RegsOf(m) = 1 .. Len(Regs[m])
         /\ Len(Regs[m]) \in Nat
         /\ Len(Blocks[m]) \in Nat
         /\ InitWrites[m] \in Nat
         /\ Offset[m] \in Nat
         /\ m \in TcpMeters => HostOf[m] \in Hosts
         /\ m \notin SunspecMeters => Offset[m] = 0
BY QueryAssumption DEF RegsOf, Hosts

LEMMA RegisterFacts ==
  ASSUME NEW m \in Meters, NEW i \in RegsOf(m)
  PROVE  /\ Regs[m][i].type \in {"holding", "input"}
         /\ Regs[m][i].addr \in Nat
         /\ Regs[m][i].words \in Nat
         /\ Regs[m][i].sf \in Nat
         /\ Regs[m][i].sfValue \in Int
         /\ Regs[m][i].sfOther \in Int
<1> DEFINE Register == [type : {"holding", "input"}, addr : Nat,
                        words : 1 .. 4, sf : Nat, sfValue : Int,
                        sfOther : Int]
<1>1. Regs[m] \in Seq(Register)
  BY QueryAssumption
<1>2. i \in 1 .. Len(Regs[m])
  BY TableFacts
<1>3. Regs[m][i] \in Register
  <2> HIDE DEF Register
  <2>1. QED
    BY <1>1, <1>2, ElementOfSeq
<1>4. QED
  BY <1>3

LEMMA BlockFacts ==
  ASSUME NEW m \in Meters, NEW k \in 1 .. Len(Blocks[m])
  PROVE  /\ Blocks[m][k].type \in {"holding", "input"}
         /\ Blocks[m][k].start \in Nat
         /\ Blocks[m][k].len \in Nat
<1>1. Blocks[m] \in Seq([type : {"holding", "input"}, start : Nat,
                         len : Nat \ {0}])
  BY QueryAssumption
<1>2. Blocks[m][k] \in [type : {"holding", "input"}, start : Nat,
                        len : Nat \ {0}]
  BY <1>1, ElementOfSeq
<1>3. QED
  BY <1>2

-----------------------------------------------------------------------------
(* Opening and closing keep the two tables of the pool, whatever happens.  *)
PoolOK ==
  /\ isConnected \in [Hosts -> BOOLEAN]
  /\ linkUp \in [Hosts -> BOOLEAN]

LEMMA CloseKeepsPool ==
  ASSUME PoolOK, NEW m, NEW c, CloseIf(m, c)
  PROVE  PoolOK'
BY DEF PoolOK, CloseIf, conns

LEMMA OpenKeepsPool ==
  ASSUME PoolOK, NEW m \in Meters, OpenOk(m)
  PROVE  /\ PoolOK'
         /\ m \in TcpMeters => isConnected'[HostOf[m]]
BY TableFacts DEF PoolOK, OpenOk, conns

(* The part of TypeOK about control.                                       *)
ControlOK ==
  /\ pc \in {"idle", "resolve", "init", "blocks", "registers", "exited"}
  /\ cur \in IF pc = "idle" THEN {NoMeter} ELSE Meters
  /\ StepOK

(* The part of TypeOK about the data of the meters.                        *)
DataOK ==
  /\ DOMAIN startAddr = Meters /\ DOMAIN sunspecSf = Meters
  /\ DOMAIN hasBeenRead = Meters /\ DOMAIN fvalue = Meters
  /\ \A m \in Meters :
       /\ startAddr[m] \in [RegsOf(m) -> Nat]
       /\ sunspecSf[m] \in [RegsOf(m) -> Int]
       /\ hasBeenRead[m] \subseteq RegsOf(m)
       /\ fvalue[m] \in [RegsOf(m) -> Value]

(* The part of TypeOK about the flags.                                     *)
FlagsOK ==
  /\ needSunspecResolve \in [Meters -> BOOLEAN]
  /\ initDone \in [Meters -> BOOLEAN]
  /\ meterHasBeenRead \in [Meters -> BOOLEAN]
  /\ queryFailed \subseteq Meters \ TcpMeters
  /\ queried \subseteq Meters \ TcpMeters
  /\ calm \in BOOLEAN

LEMMA TypeParts == TypeOK <=> PoolOK /\ ControlOK /\ FlagsOK /\ DataOK
BY DEF TypeOK, PoolOK, ControlOK, FlagsOK, DataOK

-----------------------------------------------------------------------------
(* Type correctness, part by part.  First the pool.                        *)
LEMMA PoolStep ==
  ASSUME TypeOK, [Next]_vars
  PROVE  PoolOK'
<1> USE DEF TypeOK
<1>0. PoolOK
  BY DEF PoolOK
<1>1. ASSUME NEW m \in Meters, QueryOpen(m) \/ ExecMeterWrite(m)
      PROVE  PoolOK'
  <2>1. OpenOk(m) => PoolOK'
    BY <1>0, OpenKeepsPool
  <2>2. OpenFails(m) => PoolOK'
    BY <1>0 DEF OpenFails, conns, PoolOK
  <2>3. CloseIf(m, TRUE) => PoolOK'
    BY <1>0, CloseKeepsPool
  <2>4. QED
    BY <1>1, <2>1, <2>2, <2>3, Zenon DEF QueryOpen, ExecMeterWrite
<1>2. CASE QueryStep
  <2>1. ASSUME NEW c, CloseIf(cur, c)
        PROVE  PoolOK'
    BY <1>0, <2>1, CloseKeepsPool
  <2>2. CASE UNCHANGED conns
    BY <1>0, <2>2 DEF conns, PoolOK
  <2>3. (\E c : CloseIf(cur, c)) \/ UNCHANGED conns
    BY <1>2, Zenon DEF QueryStep, ResolveNotNeeded, ResolveOk, ResolveFails,
       ResolveExits, InitDone, InitWriteOk, InitWriteFails, BlocksDone,
       BlockRead, BlockFails, RegisterAlreadySet, RegisterRead, RegisterFails,
       QueryDone
  <2>4. QED
    BY <2>1, <2>2, <2>3
<1>3. ASSUME NEW h \in Hosts, LinkDrops(h)
      PROVE  PoolOK'
  BY <1>0, <1>3 DEF LinkDrops, PoolOK
<1>4. CASE BecomesCalm \/ UNCHANGED vars
  BY <1>0, <1>4 DEF BecomesCalm, vars, conns, PoolOK
<1>5. QED
  BY <1>1, <1>2, <1>3, <1>4 DEF Next

(* The steps of the query stay within the tables of the meter.             *)
LEMMA ControlStep ==
  ASSUME TypeOK, [Next]_vars
  PROVE  ControlOK'
<1> USE DEF TypeOK, ControlOK, StepOK
<1>1. ASSUME NEW m \in Meters, QueryOpen(m)
      PROVE  ControlOK'
  BY <1>1 DEF QueryOpen, control
<1>2. CASE QueryStep
  <2>0. cur \in Meters
    <3>1. pc # "idle"
      BY <1>2 DEF QueryStep, ResolveNotNeeded, ResolveOk, ResolveFails,
         ResolveExits, InitDone, InitWriteOk, InitWriteFails, BlocksDone,
         BlockRead, BlockFails, AtRegister, RegisterAlreadySet, RegisterRead,
         RegisterFails, QueryDone
    <3>2. QED
      BY <3>1
  <2> USE <2>0, TableFacts
  <2>1. CASE ResolveNotNeeded \/ ResolveOk
    BY <2>1 DEF ResolveNotNeeded, ResolveOk, Goto
  <2>2. CASE ResolveFails \/ InitWriteFails \/ BlockFails \/ RegisterFails
             \/ QueryDone
    BY <2>2 DEF ResolveFails, InitWriteFails, BlockFails, RegisterFails,
       QueryDone, Return
  <2>3. CASE ResolveExits
    BY <2>3 DEF ResolveExits
  <2>4. CASE InitDone \/ BlocksDone
    BY <2>4 DEF InitDone, BlocksDone, Goto
  <2>5. CASE InitWriteOk
    BY <2>5 DEF InitWriteOk
  <2>6. CASE BlockRead
    BY <2>6 DEF BlockRead
  <2>7. CASE RegisterAlreadySet \/ RegisterRead
    BY <2>7 DEF RegisterAlreadySet, RegisterRead, AtRegister
  <2>8. QED
    BY <1>2, <2>1, <2>2, <2>3, <2>4, <2>5, <2>6, <2>7, Zenon DEF QueryStep
<1>3. ASSUME NEW m \in Meters, ExecMeterWrite(m)
      PROVE  ControlOK'
  BY <1>3 DEF ExecMeterWrite, control
<1>4. ASSUME NEW h \in Hosts, LinkDrops(h)
      PROVE  ControlOK'
  BY <1>4 DEF LinkDrops, control
<1>5. CASE BecomesCalm \/ UNCHANGED vars
  BY <1>5 DEF BecomesCalm, vars, control
<1>6. QED
  BY <1>1, <1>2, <1>3, <1>4, <1>5 DEF Next

LEMMA InQuery ==
  ASSUME TypeOK, QueryStep
  PROVE  cur \in Meters /\ Querying
<1>1. Querying
  BY DEF QueryStep, ResolveNotNeeded, ResolveOk, ResolveFails,
     ResolveExits, InitDone, InitWriteOk, InitWriteFails, BlocksDone,
     BlockRead, BlockFails, AtRegister, RegisterAlreadySet, RegisterRead,
     RegisterFails, QueryDone, Querying
<1>2. QED
  BY <1>1 DEF TypeOK, Querying

LEMMA FlagsStep ==
  ASSUME TypeOK, [Next]_vars
  PROVE  FlagsOK'
<1> USE DEF TypeOK, FlagsOK, setup, status
<1>1. ASSUME NEW m \in Meters, QueryOpen(m)
      PROVE  FlagsOK'
  BY <1>1 DEF QueryOpen
<1>2. CASE QueryStep
  <2> USE <1>2, InQuery
  <2>1. CASE ResolveNotNeeded \/ ResolveOk
    BY <2>1 DEF ResolveNotNeeded, ResolveOk
  <2>2. CASE ResolveFails \/ ResolveExits
    BY <2>2 DEF ResolveFails, ResolveExits
  <2>3. CASE InitDone \/ InitWriteOk
    BY <2>3 DEF InitDone, InitWriteOk
  <2>4. CASE InitWriteFails \/ BlockFails \/ RegisterFails
    BY <2>4 DEF InitWriteFails, BlockFails, RegisterFails
  <2>5. CASE BlocksDone \/ BlockRead
    BY <2>5 DEF BlocksDone, BlockRead
  <2>6. CASE RegisterAlreadySet \/ RegisterRead
    BY <2>6 DEF RegisterAlreadySet, RegisterRead
  <2>7. CASE QueryDone
    BY <2>7 DEF QueryDone
  <2>8. QED
    BY <2>1, <2>2, <2>3, <2>4, <2>5, <2>6, <2>7, Zenon DEF QueryStep
<1>3. ASSUME NEW m \in Meters, ExecMeterWrite(m)
      PROVE  FlagsOK'
  BY <1>3 DEF ExecMeterWrite
<1>4. ASSUME NEW h \in Hosts, LinkDrops(h)
      PROVE  FlagsOK'
  BY <1>4 DEF LinkDrops
<1>5. CASE BecomesCalm \/ UNCHANGED vars
  BY <1>5 DEF BecomesCalm, vars
<1>6. QED
  BY <1>1, <1>2, <1>3, <1>4, <1>5 DEF Next

(* A register value made from a register's own address.                    *)
LEMMA ValueType ==
  ASSUME TypeOK, NEW m \in Meters, NEW i \in RegsOf(m),
         NEW type \in {"holding", "input"}, NEW sf \in Int
  PROVE  RegisterValue(type, m, i, sf) \in Value
BY DEF TypeOK, RegisterValue, Value

LEMMA DataStep ==
  ASSUME TypeOK, [Next]_vars
  PROVE  DataOK'
<1>0. DataOK
  BY TypeParts
<1>u. CASE UNCHANGED <<startAddr, values>>
  BY <1>0, <1>u DEF DataOK, values
<1>1. ASSUME NEW m \in Meters, QueryOpen(m)
      PROVE  DataOK'
  <2>1. CASE UNCHANGED <<hasBeenRead, fvalue>>
    BY <1>1, <1>u, <2>1 DEF QueryOpen, setup, values
  <2>2. CASE /\ hasBeenRead' = [hasBeenRead EXCEPT ![m] = {}]
             /\ fvalue' = [fvalue EXCEPT ![m] = [i \in RegsOf(m) |-> NoValue]]
    <3>1. NoValue \in Value
      BY DEF NoValue, Value
    <3>2. UNCHANGED <<startAddr, sunspecSf>>
      BY <1>1 DEF QueryOpen, setup
    <3> HIDE DEF Value
    <3>3. QED
      BY <1>0, <2>2, <3>1, <3>2 DEF DataOK
  <2>3. QED
    BY <1>1, <2>1, <2>2 DEF QueryOpen
<1>2. CASE QueryStep
  <2>0. cur \in Meters
    BY <1>2, InQuery
  <2>1. CASE ResolveOk
    BY <1>0, <2>0, <2>1, TableFacts DEF ResolveOk, DataOK, values
  <2>2. CASE BlockRead
    <3> DEFINE b == Blocks[cur][step]
               sfNow == [i \in RegsOf(cur) |->
                           IF SfMissing(cur, i) /\ SfInBlock(cur, b, i)
                           THEN SfInBuffer(cur, b, i) ELSE sunspecSf[cur][i]]
               covered == {i \in RegsOf(cur) : Covered(cur, b, i)}
    <3>1. b.type \in {"holding", "input"}
      <4>1. step \in 1 .. Len(Blocks[cur])
        BY <2>0, <2>2, TableFacts DEF BlockRead, TypeOK, StepOK
      <4>2. QED
        BY <2>0, <4>1, BlockFacts
    <3>2. sfNow \in [RegsOf(cur) -> Int]
      BY <1>0, <2>0, RegisterFacts DEF DataOK, SfInBuffer
    <3>3. \A i \in RegsOf(cur) :
            RegisterValue(b.type, cur, i, sfNow[i]) \in Value
      <4> HIDE DEF b, sfNow
      <4>1. QED
        BY <2>0, <3>1, <3>2, ValueType
    <3>4. /\ sunspecSf' = [sunspecSf EXCEPT ![cur] = sfNow]
          /\ hasBeenRead' = [hasBeenRead EXCEPT ![cur] = @ \cup covered]
          /\ fvalue' = [fvalue EXCEPT ![cur] = [i \in RegsOf(cur) |->
               IF i \in covered THEN RegisterValue(b.type, cur, i, sfNow[i])
               ELSE @[i]]]
          /\ startAddr' = startAddr
      BY <2>2 DEF BlockRead, setup
    <3>5. covered \subseteq RegsOf(cur)
      OBVIOUS
    <3> HIDE DEF b, sfNow, covered, Value
    <3>6. QED
      BY <1>0, <2>0, <3>2, <3>3, <3>4, <3>5 DEF DataOK
  <2>3. CASE RegisterRead
    <3> DEFINE sfNow == IF SfMissing(cur, step) THEN Regs[cur][step].sfValue
                        ELSE sunspecSf[cur][step]
               new == RegisterValue(Regs[cur][step].type, cur, step, sfNow)
    <3>1. step \in RegsOf(cur)
      BY <2>0, <2>3, TableFacts DEF RegisterRead, AtRegister, TypeOK, StepOK
    <3>2. sfNow \in Int
      BY <1>0, <2>0, <3>1, RegisterFacts DEF DataOK
    <3>3. new \in Value
      <4> HIDE DEF sfNow
      <4>1. QED
        BY <2>0, <3>1, <3>2, RegisterFacts, ValueType
    <3>4. /\ sunspecSf' = [sunspecSf EXCEPT ![cur][step] = sfNow]
          /\ \/ fvalue' = fvalue
             \/ fvalue' = [fvalue EXCEPT ![cur][step] = new]
          /\ UNCHANGED <<startAddr, hasBeenRead>>
      BY <2>3 DEF RegisterRead, setup
    <3> HIDE DEF sfNow, new, Value
    <3>5. QED
      BY <1>0, <2>0, <3>1, <3>2, <3>3, <3>4 DEF DataOK
  <2>4. CASE RegisterFails
    <3>1. step \in RegsOf(cur)
      BY <2>0, <2>4, TableFacts DEF RegisterFails, AtRegister, TypeOK, StepOK
    <3>2. QED
      BY <1>0, <2>0, <2>4, <3>1, RegisterFacts DEF RegisterFails, DataOK, setup
  <2>5. CASE ResolveNotNeeded \/ ResolveFails \/ ResolveExits \/ InitDone
             \/ InitWriteOk \/ InitWriteFails
    BY <1>u, <2>5 DEF ResolveNotNeeded, ResolveFails, ResolveExits, InitDone,
       InitWriteOk, InitWriteFails, setup
  <2>6. CASE BlocksDone \/ BlockFails \/ RegisterAlreadySet \/ QueryDone
    BY <1>u, <2>6 DEF BlocksDone, BlockFails, RegisterAlreadySet, QueryDone,
       setup
  <2>7. QED
    BY <1>2, <2>1, <2>2, <2>3, <2>4, <2>5, <2>6, Zenon DEF QueryStep
<1>3. ASSUME NEW m \in Meters, ExecMeterWrite(m)
      PROVE  DataOK'
  BY <1>3, <1>u DEF ExecMeterWrite, setup
<1>4. ASSUME NEW h \in Hosts, LinkDrops(h)
      PROVE  DataOK'
  BY <1>4, <1>u DEF LinkDrops, setup
<1>5. CASE BecomesCalm \/ UNCHANGED vars
  BY <1>5, <1>u DEF BecomesCalm, vars, setup
<1>6. QED
  BY <1>1, <1>2, <1>3, <1>4, <1>5 DEF Next

LEMMA TypeInit == Init => TypeOK
<1> SUFFICES ASSUME Init PROVE TypeOK
  OBVIOUS
<1>1. \A m \in Meters : startAddr[m] \in [RegsOf(m) -> Nat]
  BY RegisterFacts DEF Init
<1>2. NoValue \in Value
  BY DEF NoValue, Value
<1>3. DataOK
  <2> HIDE DEF Value
  <2>1. \A m \in Meters : fvalue[m] \in [RegsOf(m) -> Value]
    BY <1>2 DEF Init
  <2>2. \A m \in Meters : sunspecSf[m] \in [RegsOf(m) -> Int]
    <3>1. \A m \in Meters : sunspecSf[m] = [i \in RegsOf(m) |-> 0]
      BY Zenon DEF Init
    <3>2. 0 \in Int
      OBVIOUS
    <3>3. QED
      BY <3>1, <3>2, Zenon
  <2>3. \A m \in Meters : hasBeenRead[m] \subseteq RegsOf(m)
    <3>1. \A m \in Meters : hasBeenRead[m] = {}
      BY DEF Init
    <3>2. QED
      BY <3>1, Zenon
  <2>4. QED
    BY <1>1, <2>1, <2>2, <2>3 DEF Init, DataOK
<1>4. PoolOK /\ FlagsOK
  <2>1. PoolOK
    BY DEF Init, PoolOK
  <2>2. /\ queryFailed \subseteq Meters \ TcpMeters
        /\ queried \subseteq Meters \ TcpMeters
    BY Zenon DEF Init
  <2>3. needSunspecResolve \in [Meters -> BOOLEAN]
    BY DEF Init
  <2>4. QED
    BY <2>1, <2>2, <2>3 DEF Init, FlagsOK
<1>5. ControlOK
  BY DEF Init, ControlOK, StepOK
<1>6. QED
  BY <1>3, <1>4, <1>5, TypeParts

(* The cursors of a query stay within the tables of its meter, its data    *)
(* keep their types and the pool its entries.                              *)
THEOREM TypeCorrect == Spec => []TypeOK
<1>1. TypeOK /\ [Next]_vars => TypeOK'
  <2> SUFFICES ASSUME TypeOK, [Next]_vars PROVE TypeOK'
    OBVIOUS
  <2>1. PoolOK' /\ ControlOK' /\ FlagsOK' /\ DataOK'
    BY PoolStep, ControlStep, FlagsStep, DataStep
  <2>2. QED
    BY <2>1 DEF TypeOK, PoolOK, ControlOK, FlagsOK, DataOK
<1>2. QED
  BY <1>1, TypeInit, PTL DEF Spec

-----------------------------------------------------------------------------
LEMMA NoUseAfterCloseStep ==
  ASSUME TypeOK, NoUseAfterClose, [Next]_vars
  PROVE  NoUseAfterClose'
<1> USE DEF NoUseAfterClose, Querying
<1>1. ASSUME NEW m \in Meters, QueryOpen(m)
      PROVE  NoUseAfterClose'
  <2>1. CASE OpenOk(m) /\ cur' = m
    <3>1. PoolOK
      BY TypeParts
    <3>2. QED
      BY <2>1, <3>1, OpenKeepsPool
  <2>2. CASE UNCHANGED control
    <3>1. pc' = "idle"
      BY <1>1, <2>2 DEF QueryOpen, control
    <3>2. QED
      BY <3>1
  <2>3. QED
    BY <1>1, <2>1, <2>2 DEF QueryOpen
<1>2. CASE QueryStep
  <2>1. CASE pc' \in {"idle", "exited"}
    BY <2>1
  <2>2. CASE UNCHANGED <<conns, cur>>
    BY <1>2, <2>2, InQuery DEF conns
  <2>3. pc' \in {"idle", "exited"} \/ UNCHANGED <<conns, cur>>
    BY <1>2, Zenon DEF QueryStep, ResolveNotNeeded, ResolveOk, ResolveFails,
       ResolveExits, InitDone, InitWriteOk, InitWriteFails, BlocksDone,
       BlockRead, BlockFails, RegisterAlreadySet, RegisterRead,
       RegisterFails, QueryDone, Goto, Return
  <2>4. QED
    BY <2>1, <2>2, <2>3
<1>3. ASSUME NEW m \in Meters, ExecMeterWrite(m)
      PROVE  NoUseAfterClose'
  BY <1>3 DEF ExecMeterWrite, control
<1>4. ASSUME NEW h \in Hosts, LinkDrops(h)
      PROVE  NoUseAfterClose'
  BY <1>4 DEF LinkDrops, control
<1>5. CASE BecomesCalm \/ UNCHANGED vars
  BY <1>5 DEF BecomesCalm, vars, control, conns
<1>6. QED
  BY <1>1, <1>2, <1>3, <1>4, <1>5 DEF Next

(* No request is sent over a connection the pool has closed.               *)
THEOREM ConnectionsAreOpen == Spec => []NoUseAfterClose
<1>1. Init => NoUseAfterClose
  BY DEF Init, NoUseAfterClose, Querying
<1>2. QED
  BY <1>1, NoUseAfterCloseStep, TypeCorrect, PTL DEF Spec

-----------------------------------------------------------------------------
LEMMA ErrorsCountedStep ==
  ASSUME TypeOK, ErrorInv, [Next]_vars
  PROVE  ErrorInv'
<1> USE DEF ErrorInv, TypeOK, setup, status, control
<1>1. ASSUME NEW m \in Meters, QueryOpen(m)
      PROVE  ErrorInv'
  <2>1. CASE cur' = m /\ pc' = "resolve"
    BY <1>1, <2>1 DEF QueryOpen
  <2>2. CASE OpenFails(m) /\ UNCHANGED control
    BY <1>1, <2>2 DEF QueryOpen, OpenFails
  <2>3. QED
    BY <1>1, <2>1, <2>2 DEF QueryOpen
<1>2. CASE QueryStep
  <2> USE <1>2, InQuery
  <2>1. CASE ResolveNotNeeded \/ ResolveOk
    BY <2>1 DEF ResolveNotNeeded, ResolveOk, Goto
  <2>2. CASE ResolveFails
    BY <2>2 DEF ResolveFails, Return
  <2>3. CASE ResolveExits
    BY <2>3 DEF ResolveExits
  <2>4. CASE InitDone \/ InitWriteOk
    BY <2>4 DEF InitDone, InitWriteOk, Goto
  <2>5. CASE InitWriteFails \/ BlockFails \/ RegisterFails
    BY <2>5 DEF InitWriteFails, BlockFails, RegisterFails, Return
  <2>6. CASE BlocksDone \/ BlockRead
    BY <2>6 DEF BlocksDone, BlockRead, Goto
  <2>7. CASE RegisterAlreadySet \/ RegisterRead
    BY <2>7 DEF RegisterAlreadySet, RegisterRead
  <2>8. CASE QueryDone
    BY <2>8 DEF QueryDone, Return
  <2>9. QED
    BY <2>1, <2>2, <2>3, <2>4, <2>5, <2>6, <2>7, <2>8, Zenon DEF QueryStep
<1>3. ASSUME NEW m \in Meters, ExecMeterWrite(m)
      PROVE  ErrorInv'
  BY <1>3 DEF ExecMeterWrite
<1>4. ASSUME NEW h \in Hosts, LinkDrops(h)
      PROVE  ErrorInv'
  BY <1>4 DEF LinkDrops
<1>5. CASE BecomesCalm \/ UNCHANGED vars
  BY <1>5 DEF BecomesCalm, vars
<1>6. QED
  BY <1>1, <1>2, <1>3, <1>4, <1>5 DEF Next

(* Every way a query of a serial meter can fail is counted, but for the    *)
(* failed sunspec resolve.                                                 *)
THEOREM FailuresAreCounted == Spec => []ErrorsCounted
<1>1. Init => ErrorInv
  BY DEF Init, ErrorInv
<1>2. ErrorInv => ErrorsCounted
  BY DEF ErrorInv, ErrorsCounted
<1>3. QED
  BY <1>1, <1>2, ErrorsCountedStep, TypeCorrect, PTL DEF Spec

-----------------------------------------------------------------------------
(* The address of a register is changed by the resolve only, which happens *)
(* once.                                                                   *)
LEMMA ShiftedOnceStep ==
  ASSUME TypeOK, ShiftedOnce, [Next]_vars
  PROVE  ShiftedOnce'
<1>u. CASE UNCHANGED <<startAddr, needSunspecResolve>>
  BY <1>u DEF ShiftedOnce
<1>1. CASE ResolveOk
  <2>1. cur \in Meters
    BY <1>1, InQuery DEF QueryStep
  <2>2. \A i \in RegsOf(cur) : startAddr[cur][i] = Regs[cur][i].addr
    BY <1>1, <2>1, RegisterFacts DEF ResolveOk, ShiftedOnce
  <2>3. QED
    BY <1>1, <2>1, <2>2 DEF ResolveOk, ShiftedOnce, TypeOK
<1>2. CASE ~ResolveOk
  <2>1. UNCHANGED <<startAddr, needSunspecResolve>>
    BY <1>2, Zenon DEF Next, QueryOpen, QueryStep, ResolveNotNeeded,
       ResolveFails, ResolveExits, InitDone, InitWriteOk, InitWriteFails,
       BlocksDone, BlockRead, BlockFails, RegisterAlreadySet, RegisterRead,
       RegisterFails, QueryDone, ExecMeterWrite, LinkDrops, BecomesCalm, vars,
       setup
  <2>2. QED
    BY <1>u, <2>1
<1>3. QED
  BY <1>1, <1>2

(* A value taken from a register's address after the resolve is its own.   *)
LEMMA ReadsOwnValue ==
  ASSUME TypeOK, ShiftedOnce, NEW m \in Meters, NEW i \in RegsOf(m),
         ~needSunspecResolve[m], NEW sf
  PROVE  /\ RegisterValue(Regs[m][i].type, m, i, sf).type = Regs[m][i].type
         /\ RegisterValue(Regs[m][i].type, m, i, sf).addr
              = Regs[m][i].addr + Offset[m]
BY DEF ShiftedOnce, RegisterValue

LEMMA QueryInvStep ==
  ASSUME TypeOK, ReadInv, [Next]_vars
  PROVE  QueryInv' /\ ReadComplete'
<1> USE DEF ReadInv
<1>u. CASE UNCHANGED <<pc, cur, step, hasBeenRead, fvalue, meterHasBeenRead,
                       needSunspecResolve>>
  BY <1>u DEF QueryInv, Querying, ReadComplete, OwnValue
<1>1. ASSUME NEW m \in Meters, QueryOpen(m)
      PROVE  QueryInv' /\ ReadComplete'
  <2>1. /\ meterHasBeenRead' = [meterHasBeenRead EXCEPT ![m] = FALSE]
        /\ needSunspecResolve' = needSunspecResolve
        /\ \A k \in Meters \ {m} : fvalue'[k] = fvalue[k]
    BY <1>1 DEF QueryOpen, setup, TypeOK
  <2>2. ReadComplete'
    BY <2>1 DEF ReadComplete, OwnValue, TypeOK
  <2>3. CASE /\ pc' = "resolve" /\ cur' = m
             /\ hasBeenRead' = [hasBeenRead EXCEPT ![m] = {}]
    <3>1. hasBeenRead'[m] = {} /\ ~meterHasBeenRead'[m]
      BY <2>1, <2>3 DEF TypeOK
    <3>2. QED
      BY <2>2, <2>3, <3>1, Zenon DEF QueryInv
  <2>4. CASE UNCHANGED control
    <3>1. pc' = "idle"
      BY <1>1, <2>4 DEF QueryOpen, control
    <3>2. QED
      BY <3>1, <2>2 DEF QueryInv, Querying
  <2>5. QED
    BY <1>1, <2>2, <2>3, <2>4 DEF QueryOpen
<1>2. CASE QueryStep
  <2>0. cur \in Meters /\ Querying
    BY <1>2, InQuery
  <2> USE <2>0
  <2>e. ASSUME pc' \in {"idle", "exited"}, UNCHANGED <<fvalue, meterHasBeenRead>>
        PROVE  QueryInv' /\ ReadComplete'
    BY <2>e DEF QueryInv, Querying, ReadComplete, OwnValue
  <2>n. ASSUME pc' \in {"init", "blocks"}, cur' = cur,
               UNCHANGED <<hasBeenRead, fvalue, meterHasBeenRead>>,
               ~needSunspecResolve'[cur]
        PROVE  QueryInv' /\ ReadComplete'
    BY <2>n DEF QueryInv, Querying, ReadComplete, OwnValue
  <2>1. CASE ResolveNotNeeded \/ ResolveOk
    BY <2>1, <2>n DEF ResolveNotNeeded, ResolveOk, Goto, setup, values, status,
       TypeOK
  <2>2. CASE ResolveFails \/ InitWriteFails \/ BlockFails \/ RegisterFails
             \/ ResolveExits
    BY <2>2, <2>e DEF ResolveFails, InitWriteFails, BlockFails, RegisterFails,
       ResolveExits, Return, values, status
  <2>3. CASE InitDone \/ InitWriteOk
    BY <2>3, <2>n DEF InitDone, InitWriteOk, Goto, setup, values, status,
       QueryInv
  <2>4. CASE BlocksDone
    BY <2>4 DEF BlocksDone, Goto, setup, values, status, QueryInv, Querying,
       ReadComplete, OwnValue
  <2>5. CASE BlockRead
    <3> DEFINE b == Blocks[cur][step]
               covered == {i \in RegsOf(cur) : Covered(cur, b, i)}
               sfNow == [i \in RegsOf(cur) |->
                           IF SfMissing(cur, i) /\ SfInBlock(cur, b, i)
                           THEN SfInBuffer(cur, b, i) ELSE sunspecSf[cur][i]]
    <3>0. fvalue' = [fvalue EXCEPT ![cur] = [i \in RegsOf(cur) |->
            IF i \in covered THEN RegisterValue(b.type, cur, i, sfNow[i])
            ELSE @[i]]]
      BY <2>5 DEF BlockRead
    <3> HIDE DEF sfNow
    <3>1. /\ pc = "blocks" /\ pc' = "blocks" /\ cur' = cur
          /\ hasBeenRead'[cur] = hasBeenRead[cur] \cup covered
          /\ UNCHANGED <<meterHasBeenRead, needSunspecResolve>>
      BY <2>5 DEF BlockRead, setup, status, TypeOK
    <3>2. /\ ~meterHasBeenRead[cur] /\ ~needSunspecResolve[cur]
          /\ \A i \in hasBeenRead[cur] : OwnValue(cur, i)
      BY <3>1 DEF QueryInv
    <3>3. ASSUME NEW i \in covered
          PROVE  OwnValue(cur, i)'
      <4>1. i \in RegsOf(cur) /\ b.type = Regs[cur][i].type
        BY DEF Covered
      <4>2. fvalue'[cur][i] = RegisterValue(b.type, cur, i, sfNow[i])
        BY <3>0, <4>1 DEF TypeOK
      <4> HIDE DEF b, covered
      <4>3. QED
        BY <3>1, <3>2, <4>1, <4>2, ReadsOwnValue DEF OwnValue
    <3>4. ASSUME NEW i \in hasBeenRead[cur] \ covered
          PROVE  OwnValue(cur, i)'
      <4>1. i \in RegsOf(cur)
        BY DEF TypeOK
      <4>2. fvalue'[cur][i] = fvalue[cur][i]
        BY <3>0, <4>1 DEF TypeOK
      <4> HIDE DEF b, covered
      <4>3. QED
        BY <3>1, <3>2, <4>2 DEF OwnValue
    <3>5. \A k \in Meters \ {cur} : fvalue'[k] = fvalue[k]
      BY <3>0 DEF TypeOK
    <3> HIDE DEF b, covered
    <3>6. ReadComplete'
      BY <3>1, <3>2, <3>5 DEF ReadComplete, OwnValue
    <3>7. QED
      BY <3>1, <3>2, <3>3, <3>4, <3>6 DEF QueryInv, Querying
  <2>6. CASE RegisterAlreadySet
    BY <2>6 DEF RegisterAlreadySet, AtRegister, setup, values, status, QueryInv,
       Querying, ReadComplete, OwnValue, TypeOK, StepOK
  <2>7. CASE RegisterRead
    <3>0. /\ pc = "registers" /\ pc' = "registers" /\ cur' = cur
          /\ step' = step + 1 /\ hasBeenRead' = hasBeenRead
          /\ UNCHANGED <<meterHasBeenRead, needSunspecResolve>>
      BY <2>7 DEF RegisterRead, AtRegister, setup, status
    <3>1. step \in RegsOf(cur) /\ step \in Nat
      BY <2>7, TableFacts DEF RegisterRead, AtRegister, TypeOK, StepOK
    <3>2. /\ ~meterHasBeenRead[cur] /\ ~needSunspecResolve[cur]
          /\ \A i \in hasBeenRead[cur] : OwnValue(cur, i)
          /\ \A i \in 1 .. step - 1 : OwnValue(cur, i)
      BY <3>0 DEF QueryInv
    <3>3. PICK sfNow :
            fvalue' = IF step \in hasBeenRead[cur] THEN fvalue
                      ELSE [fvalue EXCEPT ![cur][step] =
                              RegisterValue(Regs[cur][step].type, cur, step, sfNow)]
      BY <2>7 DEF RegisterRead
    <3>4. \A i \in RegsOf(cur) \ {step} : fvalue'[cur][i] = fvalue[cur][i]
      BY <3>3 DEF TypeOK
    <3>5. /\ fvalue'[cur][step].type = Regs[cur][step].type
          /\ fvalue'[cur][step].addr = Regs[cur][step].addr + Offset[cur]
      <4>1. CASE step \in hasBeenRead[cur]
        BY <3>0, <3>2, <3>3, <4>1 DEF OwnValue
      <4>2. CASE step \notin hasBeenRead[cur]
        <5>1. fvalue'[cur][step] =
                RegisterValue(Regs[cur][step].type, cur, step, sfNow)
          BY <3>1, <3>3, <4>2 DEF TypeOK
        <5>2. QED
          BY <3>1, <3>2, <5>1, ReadsOwnValue
      <4>3. QED
        BY <4>1, <4>2
    <3>6. \A i \in RegsOf(cur) \ {step} : OwnValue(cur, i) => OwnValue(cur, i)'
      BY <3>0, <3>4 DEF OwnValue
    <3>7. \A i \in 1 .. step' - 1 : OwnValue(cur, i)'
      <4>1. \A i \in 1 .. step' - 1 :
              i = step \/ (i \in 1 .. step - 1 /\ i \in RegsOf(cur) \ {step})
        BY <3>0, <3>1, TableFacts
      <4>2. QED
        BY <3>0, <3>2, <3>5, <3>6, <4>1 DEF OwnValue
    <3>8. \A i \in hasBeenRead'[cur] : OwnValue(cur, i)'
      <4>1. hasBeenRead[cur] \subseteq RegsOf(cur)
        BY DEF TypeOK
      <4>2. QED
        BY <3>0, <3>2, <3>5, <3>6, <4>1 DEF OwnValue
    <3>9. \A k \in Meters \ {cur} : fvalue'[k] = fvalue[k]
      BY <3>3 DEF TypeOK
    <3>10. ReadComplete'
      BY <3>0, <3>2, <3>9 DEF ReadComplete, OwnValue
    <3>11. QED
      BY <3>0, <3>2, <3>7, <3>8, <3>10 DEF QueryInv, Querying
  <2>8. CASE QueryDone
    <3>1. /\ pc = "registers" /\ step > Len(Regs[cur]) /\ pc' = "idle"
          /\ fvalue' = fvalue
          /\ meterHasBeenRead' = [meterHasBeenRead EXCEPT ![cur] = TRUE]
      BY <2>8 DEF QueryDone, Return, values
    <3>2. \A i \in RegsOf(cur) : OwnValue(cur, i)
      <4>1. \A i \in RegsOf(cur) : i \in 1 .. step - 1
        BY <3>1, TableFacts DEF TypeOK, StepOK
      <4>2. QED
        BY <3>1, <4>1 DEF QueryInv
    <3>3. QED
      BY <3>1, <3>2 DEF QueryInv, Querying, ReadComplete, OwnValue, TypeOK
  <2>9. QED
    BY <1>2, <2>1, <2>2, <2>3, <2>4, <2>5, <2>6, <2>7, <2>8, Zenon DEF QueryStep
<1>3. ASSUME NEW m \in Meters, ExecMeterWrite(m)
      PROVE  QueryInv' /\ ReadComplete'
  BY <1>3, <1>u DEF ExecMeterWrite, control, setup, values, status
<1>4. ASSUME NEW h \in Hosts, LinkDrops(h)
      PROVE  QueryInv' /\ ReadComplete'
  BY <1>4, <1>u DEF LinkDrops, control, setup, values, status
<1>5. CASE BecomesCalm \/ UNCHANGED vars
  BY <1>5, <1>u DEF BecomesCalm, vars, control, setup, values, status
<1>6. QED
  BY <1>1, <1>2, <1>3, <1>4, <1>5 DEF Next

LEMMA ReadInvInit == Init => ReadInv
<1> SUFFICES ASSUME Init PROVE ReadInv
  OBVIOUS
<1>1. ASSUME NEW m \in Meters, NEW i \in RegsOf(m)
      PROVE  startAddr[m][i] =
               Regs[m][i].addr + (IF needSunspecResolve[m] THEN 0 ELSE Offset[m])
  <2>1. startAddr[m][i] = Regs[m][i].addr
    BY <1>1 DEF Init
  <2>2. needSunspecResolve[m] <=> m \in SunspecMeters
    BY <1>1 DEF Init
  <2>3. QED
    <3>1. Regs[m][i].addr \in Nat /\ Offset[m] \in Nat
      BY <1>1, RegisterFacts, TableFacts
    <3>2. CASE m \in SunspecMeters
      <4>1. needSunspecResolve[m]
        BY <2>2, <3>2
      <4>2. QED
        BY <2>1, <3>1, <4>1
    <3>3. CASE m \notin SunspecMeters
      BY <2>1, <2>2, <3>1, <3>3, TableFacts
    <3>4. QED
      BY <3>2, <3>3
<1>2. QueryInv /\ ReadComplete
  BY DEF Init, QueryInv, Querying, ReadComplete
<1>3. QED
  BY <1>1, <1>2 DEF ReadInv, ShiftedOnce

(* A meter that counts as read has all its registers from their own        *)
(* addresses and of their own kind.                                        *)
THEOREM ReadsAreComplete == Spec => []ReadComplete
<1>1. TypeOK /\ ReadInv /\ [Next]_vars => ReadInv'
  BY ShiftedOnceStep, QueryInvStep DEF ReadInv
<1>2. ReadInv => ReadComplete
  BY DEF ReadInv
<1>3. QED
  BY <1>1, <1>2, ReadInvInit, TypeCorrect, PTL DEF Spec

-----------------------------------------------------------------------------
(* Scaling factors.  The sunspec offset moves blocks and registers alike.  *)
LEMMA ShiftBack ==
  ASSUME NEW s \in Nat, NEW l \in Nat, NEW a \in Nat, NEW w \in Nat, NEW o \in Nat,
         s + o <= a + o, a + o + w - 1 <= s + o + l - 1
  PROVE  s <= a /\ a + w <= s + l
OBVIOUS

(* ... and back: a range that lies in a block does so after the shift.    *)
LEMMA ShiftForward ==
  ASSUME NEW s \in Nat, NEW l \in Nat, NEW a \in Nat, NEW o \in Nat,
         s <= a, a + 1 <= s + l
  PROVE  a + o \in (s + o) .. (s + o + l - 1)
OBVIOUS

(* A block that holds a register with its factor brings the factor before  *)
(* the register's value is taken.                                          *)
LEMMA FactorInBlock ==
  ASSUME TypeOK, ShiftedOnce, NEW m \in Meters, ~needSunspecResolve[m],
         NEW i \in RegsOf(m), NEW k \in 1 .. Len(Blocks[m]),
         Covered(m, Blocks[m][k], i), SfWithRegister(m, i)
  PROVE  SfInBlock(m, Blocks[m][k], i)
<1> DEFINE b == Blocks[m][k]
           r == Regs[m][i]
<1>1. /\ b.start \in Nat /\ b.len \in Nat
      /\ r.addr \in Nat /\ r.words \in Nat /\ r.sf \in Nat /\ Offset[m] \in Nat
  BY BlockFacts, RegisterFacts, TableFacts
<1>2. startAddr[m][i] = r.addr + Offset[m]
  BY DEF ShiftedOnce
<1>3. HeldBy(b, r.addr, r.words) /\ b.type = r.type
  <2> HIDE DEF b, r
  <2>1. /\ b.start + Offset[m] <= r.addr + Offset[m]
        /\ r.addr + Offset[m] + r.words - 1 <= b.start + Offset[m] + b.len - 1
        /\ b.type = r.type
    BY <1>2 DEF Covered, FirstReg, LastReg, b, r
  <2>2. QED
    BY <1>1, <2>1, ShiftBack DEF HeldBy
<1>4. HeldBy(b, r.sf, 1)
  BY <1>3 DEF SfWithRegister
<1> HIDE DEF b, r
<1>5. r.sf + Offset[m] \in (b.start + Offset[m]) .. (b.start + Offset[m] + b.len - 1)
  <2>1. b.start <= r.sf /\ r.sf + 1 <= b.start + b.len
    BY <1>4 DEF HeldBy
  <2>2. QED
    BY <1>1, <2>1, ShiftForward
<1>6. QED
  BY <1>5 DEF SfInBlock, SfReg, FirstReg, LastReg, b, r

(* Where every block at the factor's address is of the factor's kind, what *)
(* is taken from a block is the device's factor.                           *)
LEMMA FactorOfBlock ==
  ASSUME NEW m \in Meters, NEW i \in RegsOf(m), NEW k \in 1 .. Len(Blocks[m]),
         SfInBlock(m, Blocks[m][k], i), SfOfOneKind(m, i)
  PROVE  SfInBuffer(m, Blocks[m][k], i) = Regs[m][i].sfValue
<1> DEFINE b == Blocks[m][k]
           r == Regs[m][i]
<1>1. /\ b.start \in Nat /\ b.len \in Nat
      /\ r.sf \in Nat /\ Offset[m] \in Nat
  BY BlockFacts, RegisterFacts, TableFacts
<1>2. /\ b.start + Offset[m] <= r.sf + Offset[m]
      /\ r.sf + Offset[m] + 1 - 1 <= b.start + Offset[m] + b.len - 1
  <2>1. r.sf + Offset[m] \in (b.start + Offset[m]) .. (b.start + Offset[m] + b.len - 1)
    BY DEF SfInBlock, SfReg, FirstReg, LastReg
  <2> HIDE DEF b, r
  <2>2. QED
    BY <1>1, <2>1
<1>3. HeldBy(b, r.sf, 1)
  <2> HIDE DEF b, r
  <2>1. QED
    BY <1>1, <1>2, ShiftBack DEF HeldBy
<1>4. QED
  BY <1>3 DEF SfOfOneKind, SfInBuffer

(* The factors a block's read leaves, and those of a single read.          *)
SfAfterBlock(m, b) ==
  [i \in RegsOf(m) |-> IF SfMissing(m, i) /\ SfInBlock(m, b, i)
                       THEN SfInBuffer(m, b, i) ELSE sunspecSf[m][i]]

SfAfterRead(m, i) ==
  IF SfMissing(m, i) THEN Regs[m][i].sfValue ELSE sunspecSf[m][i]

LEMMA SfKnownStep ==
  ASSUME TypeOK, SfKnown, [Next]_vars
  PROVE  SfKnown'
<1>u. CASE UNCHANGED sunspecSf
  BY <1>u DEF SfKnown
<1>1. CASE BlockRead
  <2>1. cur \in Meters
    BY <1>1, InQuery DEF QueryStep
  <2>2. sunspecSf' = [sunspecSf EXCEPT ![cur] = SfAfterBlock(cur, Blocks[cur][step])]
    BY <1>1 DEF BlockRead, SfAfterBlock
  <2>3. step \in 1 .. Len(Blocks[cur])
    BY <1>1, <2>1, TableFacts DEF BlockRead, TypeOK, StepOK
  <2>4. /\ \A m \in Meters \ {cur} : sunspecSf'[m] = sunspecSf[m]
        /\ \A i \in RegsOf(cur) : sunspecSf'[cur][i] =
             IF SfMissing(cur, i) /\ SfInBlock(cur, Blocks[cur][step], i)
             THEN SfInBuffer(cur, Blocks[cur][step], i) ELSE sunspecSf[cur][i]
    BY <2>1, <2>2 DEF SfAfterBlock, TypeOK
  <2>5. QED
    BY <2>1, <2>3, <2>4, FactorOfBlock DEF SfKnown
<1>2. CASE RegisterRead \/ RegisterFails
  <2>1. cur \in Meters
    BY <1>2, InQuery DEF QueryStep
  <2>2. \/ UNCHANGED sunspecSf
        \/ sunspecSf' = [sunspecSf EXCEPT ![cur][step] = SfAfterRead(cur, step)]
    BY <1>2 DEF RegisterRead, RegisterFails, SfAfterRead
  <2>3. CASE sunspecSf' = [sunspecSf EXCEPT ![cur][step] = SfAfterRead(cur, step)]
    <3>1. /\ \A m \in Meters \ {cur} : sunspecSf'[m] = sunspecSf[m]
          /\ \A i \in RegsOf(cur) : sunspecSf'[cur][i] =
               IF i = step THEN SfAfterRead(cur, i) ELSE sunspecSf[cur][i]
      BY <2>1, <2>3 DEF TypeOK
    <3>2. QED
      BY <2>1, <3>1 DEF SfKnown, SfAfterRead
  <2>4. QED
    BY <1>u, <2>2, <2>3
<1>3. CASE ~(BlockRead \/ RegisterRead \/ RegisterFails)
  <2>1. UNCHANGED sunspecSf
    BY <1>3, Zenon DEF Next, QueryOpen, QueryStep, ResolveNotNeeded, ResolveOk,
       ResolveFails, ResolveExits, InitDone, InitWriteOk, InitWriteFails,
       BlocksDone, BlockFails, RegisterAlreadySet, QueryDone, ExecMeterWrite,
       LinkDrops, BecomesCalm, vars, values
  <2>2. QED
    BY <1>u, <2>1
<1>4. QED
  BY <1>1, <1>2, <1>3

(* The factor a value is taken with is the device's, if it was at hand.    *)
LEMMA FactorsAreRight ==
  ASSUME TypeOK, ShiftedOnce, SfKnown, NEW m \in Meters, NEW i \in RegsOf(m),
         Regs[m][i].sf # 0, SfOfOneKind(m, i)
  PROVE  /\ SfAfterRead(m, i) = Regs[m][i].sfValue
         /\ \A k \in 1 .. Len(Blocks[m]) :
              /\ ~needSunspecResolve[m] /\ Covered(m, Blocks[m][k], i)
              /\ SfWithRegister(m, i)
              => SfAfterBlock(m, Blocks[m][k])[i] = Regs[m][i].sfValue
<1>1. sunspecSf[m][i] \in {0, Regs[m][i].sfValue}
  BY DEF SfKnown
<1>2. QED
  BY <1>1, FactorInBlock, FactorOfBlock DEF SfAfterRead, SfAfterBlock, SfMissing

LEMMA ScaleStep ==
  ASSUME TypeOK, ReadInv, ErrorInv, ScaledInv, [Next]_vars
  PROVE  ScaleInv' /\ ValuesScaled'
<1> USE DEF ScaledInv
<1>u. CASE UNCHANGED <<pc, cur, step, hasBeenRead, fvalue, meterHasBeenRead>>
  BY <1>u DEF ScaleInv, Querying, ValuesScaled, Scaled
<1>1. ASSUME NEW m \in Meters, QueryOpen(m)
      PROVE  ScaleInv' /\ ValuesScaled'
  <2>1. /\ meterHasBeenRead' = [meterHasBeenRead EXCEPT ![m] = FALSE]
        /\ \A k \in Meters \ {m} : fvalue'[k] = fvalue[k]
    BY <1>1 DEF QueryOpen, TypeOK
  <2>2. ValuesScaled'
    BY <2>1 DEF ValuesScaled, Scaled, TypeOK
  <2>3. CASE /\ pc' = "resolve" /\ cur' = m
             /\ hasBeenRead' = [hasBeenRead EXCEPT ![m] = {}]
    <3>1. hasBeenRead'[m] = {}
      BY <2>3 DEF TypeOK
    <3>2. QED
      BY <2>2, <2>3, <3>1, Zenon DEF ScaleInv
  <2>4. CASE UNCHANGED control
    <3>1. pc' = "idle"
      BY <1>1, <2>4 DEF QueryOpen, control
    <3>2. QED
      BY <3>1, <2>2 DEF ScaleInv, Querying
  <2>5. QED
    BY <1>1, <2>2, <2>3, <2>4 DEF QueryOpen
<1>2. CASE QueryStep
  <2>0. cur \in Meters /\ Querying /\ ~meterHasBeenRead[cur]
    BY <1>2, InQuery DEF ReadInv, QueryInv
  <2> USE <2>0
  <2>e. ASSUME pc' \in {"idle", "exited"}, UNCHANGED <<fvalue, meterHasBeenRead>>
        PROVE  ScaleInv' /\ ValuesScaled'
    BY <2>e DEF ScaleInv, Querying, ValuesScaled, Scaled
  <2>n. ASSUME pc' # "registers" \/ step' = 1, cur' = cur,
               UNCHANGED <<hasBeenRead, fvalue, meterHasBeenRead>>
        PROVE  ScaleInv' /\ ValuesScaled'
    BY <2>n DEF ScaleInv, ValuesScaled, Scaled
  <2>1. CASE ResolveNotNeeded \/ ResolveOk \/ BlocksDone
    BY <2>1, <2>n DEF ResolveNotNeeded, ResolveOk, BlocksDone, Goto, values, status
  <2>2. CASE ResolveFails \/ InitWriteFails \/ BlockFails \/ RegisterFails
             \/ ResolveExits
    BY <2>2, <2>e DEF ResolveFails, InitWriteFails, BlockFails, RegisterFails,
       ResolveExits, Return, values, status
  <2>3. CASE InitDone \/ InitWriteOk
    BY <2>3, <2>n DEF InitDone, InitWriteOk, Goto, setup, values, status
  <2>4. CASE BlockRead
    <3>1. PICK k \in 1 .. Len(Blocks[cur]) : k = step
      BY <2>4 DEF BlockRead, TypeOK, StepOK
    <3> DEFINE b == Blocks[cur][k]
               covered == {i \in RegsOf(cur) : Covered(cur, b, i)}
    <3>2. /\ fvalue' = [fvalue EXCEPT ![cur] = [i \in RegsOf(cur) |->
               IF i \in covered
               THEN RegisterValue(b.type, cur, i, SfAfterBlock(cur, b)[i]) ELSE @[i]]]
      BY <2>4, <3>1 DEF BlockRead, SfAfterBlock
    <3>3. /\ pc = "blocks" /\ pc' = "blocks" /\ cur' = cur
          /\ hasBeenRead'[cur] = hasBeenRead[cur] \cup covered
          /\ UNCHANGED meterHasBeenRead
      BY <2>4, <3>1 DEF BlockRead, status, TypeOK
    <3>4. ~needSunspecResolve[cur]
      BY <3>3 DEF ErrorInv
    <3>5. ASSUME NEW i \in covered
          PROVE  Scaled(cur, i)'
      <4>1. i \in RegsOf(cur) /\ Covered(cur, b, i)
        OBVIOUS
      <4>2. fvalue'[cur][i] = RegisterValue(b.type, cur, i, SfAfterBlock(cur, b)[i])
        BY <3>2, <4>1 DEF TypeOK
      <4>3. Regs[cur][i].sf # 0 /\ SfWithRegister(cur, i) /\ SfOfOneKind(cur, i)
              => SfAfterBlock(cur, b)[i] = Regs[cur][i].sfValue
        BY <3>4, <4>1, FactorsAreRight DEF ReadInv
      <4> HIDE DEF b, covered
      <4>4. fvalue'[cur][i].sf = SfAfterBlock(cur, b)[i]
        BY <4>2 DEF RegisterValue
      <4>5. QED
        BY <3>3, <4>3, <4>4 DEF Scaled
    <3>6. ASSUME NEW i \in hasBeenRead[cur] \ covered
          PROVE  Scaled(cur, i)'
      <4>1. i \in RegsOf(cur)
        BY DEF TypeOK
      <4>2. fvalue'[cur][i] = fvalue[cur][i]
        BY <3>2, <4>1 DEF TypeOK
      <4> HIDE DEF b, covered
      <4>3. QED
        BY <3>3, <4>2 DEF Scaled, ScaleInv
    <3>7. \A n \in Meters \ {cur} : fvalue'[n] = fvalue[n]
      BY <3>2 DEF TypeOK
    <3> HIDE DEF b, covered
    <3>8. ValuesScaled'
      BY <3>3, <3>7 DEF ValuesScaled, Scaled
    <3>9. QED
      BY <3>3, <3>5, <3>6, <3>8 DEF ScaleInv
  <2>5. CASE RegisterAlreadySet
    BY <2>5 DEF RegisterAlreadySet, AtRegister, values, status, ScaleInv,
       ValuesScaled, Scaled, TypeOK, StepOK
  <2>6. CASE RegisterRead
    <3>1. /\ pc = "registers" /\ pc' = "registers" /\ cur' = cur
          /\ step' = step + 1 /\ hasBeenRead' = hasBeenRead
          /\ UNCHANGED meterHasBeenRead
      BY <2>6 DEF RegisterRead, AtRegister, setup, status
    <3>2. step \in RegsOf(cur) /\ step \in Nat
      BY <2>6, TableFacts DEF RegisterRead, AtRegister, TypeOK, StepOK
    <3>3. /\ \A i \in hasBeenRead[cur] : Scaled(cur, i)
          /\ \A i \in 1 .. step - 1 : Scaled(cur, i)
      BY <3>1 DEF ScaleInv
    <3>4. fvalue' = IF step \in hasBeenRead[cur] THEN fvalue
                    ELSE [fvalue EXCEPT ![cur][step] = RegisterValue(
                            Regs[cur][step].type, cur, step, SfAfterRead(cur, step))]
      BY <2>6 DEF RegisterRead, SfAfterRead
    <3>5. \A i \in RegsOf(cur) \ {step} : fvalue'[cur][i] = fvalue[cur][i]
      BY <3>4 DEF TypeOK
    <3>6. Regs[cur][step].sf # 0 /\ SfWithRegister(cur, step) /\ SfOfOneKind(cur, step)
            => fvalue'[cur][step].sf = Regs[cur][step].sfValue
      <4>1. CASE step \in hasBeenRead[cur]
        BY <3>3, <3>4, <4>1 DEF Scaled
      <4>2. CASE step \notin hasBeenRead[cur]
        <5>1. fvalue'[cur][step].sf = SfAfterRead(cur, step)
          BY <3>2, <3>4, <4>2 DEF TypeOK, RegisterValue
        <5>2. QED
          BY <3>2, <5>1, FactorsAreRight DEF ReadInv
      <4>3. QED
        BY <4>1, <4>2
    <3>7. \A i \in RegsOf(cur) \ {step} : Scaled(cur, i) => Scaled(cur, i)'
      BY <3>1, <3>5 DEF Scaled
    <3>8. \A i \in 1 .. step' - 1 : Scaled(cur, i)'
      <4>1. \A i \in 1 .. step' - 1 :
              i = step \/ (i \in 1 .. step - 1 /\ i \in RegsOf(cur) \ {step})
        BY <3>1, <3>2, TableFacts
      <4>2. QED
        BY <3>1, <3>3, <3>6, <3>7, <4>1 DEF Scaled
    <3>9. \A i \in hasBeenRead'[cur] : Scaled(cur, i)'
      <4>1. hasBeenRead[cur] \subseteq RegsOf(cur)
        BY DEF TypeOK
      <4>2. QED
        BY <3>1, <3>3, <3>6, <3>7, <4>1 DEF Scaled
    <3>10. \A k \in Meters \ {cur} : fvalue'[k] = fvalue[k]
      BY <3>4 DEF TypeOK
    <3>11. ValuesScaled'
      BY <3>1, <3>10 DEF ValuesScaled, Scaled
    <3>12. QED
      BY <3>1, <3>8, <3>9, <3>11 DEF ScaleInv
  <2>7. CASE QueryDone
    <3>1. /\ pc = "registers" /\ step > Len(Regs[cur]) /\ pc' = "idle"
          /\ fvalue' = fvalue
          /\ meterHasBeenRead' = [meterHasBeenRead EXCEPT ![cur] = TRUE]
      BY <2>7 DEF QueryDone, Return, values
    <3>2. \A i \in RegsOf(cur) : Scaled(cur, i)
      <4>1. \A i \in RegsOf(cur) : i \in 1 .. step - 1
        BY <3>1, TableFacts DEF TypeOK, StepOK
      <4>2. QED
        BY <3>1, <4>1 DEF ScaleInv
    <3>3. QED
      BY <3>1, <3>2 DEF ScaleInv, Querying, ValuesScaled, Scaled, TypeOK
  <2>8. QED
    BY <1>2, <2>1, <2>2, <2>3, <2>4, <2>5, <2>6, <2>7, Zenon DEF QueryStep
<1>3. ASSUME NEW m \in Meters, ExecMeterWrite(m)
      PROVE  ScaleInv' /\ ValuesScaled'
  BY <1>3, <1>u DEF ExecMeterWrite, control, values, status
<1>4. ASSUME NEW h \in Hosts, LinkDrops(h)
      PROVE  ScaleInv' /\ ValuesScaled'
  BY <1>4, <1>u DEF LinkDrops, control, values, status
<1>5. CASE BecomesCalm \/ UNCHANGED vars
  BY <1>5, <1>u DEF BecomesCalm, vars, control, values, status
<1>6. QED
  BY <1>1, <1>2, <1>3, <1>4, <1>5 DEF Next

(* A meter that counts as read has its values scaled by the factors of the *)
(* device, whatever queries have failed half-way before: for every layout  *)
(* of blocks and registers in which the blocks that hold a register hold   *)
(* its factor too, and no block of another kind holds the factor's         *)
(* address.  For the other layouts the code promises nothing.              *)
THEOREM ValuesAreScaled == Spec => []ValuesScaled
<1>1. Init => ScaledInv
  BY DEF Init, ScaledInv, SfKnown, ScaleInv, Querying, ValuesScaled
<1>2. TypeOK /\ ReadInv /\ [Next]_vars => ReadInv'
  BY ShiftedOnceStep, QueryInvStep DEF ReadInv
<1>3. Init => ErrorInv
  BY DEF Init, ErrorInv
<1>4. TypeOK /\ ErrorInv /\ [Next]_vars => ErrorInv'
  BY ErrorsCountedStep
<1>5. TypeOK /\ ReadInv /\ ErrorInv /\ ScaledInv /\ [Next]_vars => ScaledInv'
  BY SfKnownStep, ScaleStep DEF ScaledInv
<1>6. ScaledInv => ValuesScaled
  BY DEF ScaledInv
<1>7. QED
  BY <1>1, <1>2, <1>3, <1>4, <1>5, <1>6, ReadInvInit, TypeCorrect, PTL DEF Spec
=============================================================================
