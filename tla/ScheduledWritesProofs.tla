------------------------ MODULE ScheduledWritesProofs ------------------------
(***************************************************************************)
(* Proofs about ScheduledWrites and MeterWrite for any definitions, items, *)
(* schedules and hosts.                                                    *)
(***************************************************************************)
EXTENDS ScheduledWrites, FiniteSetTheorems, TLAPS

-----------------------------------------------------------------------------
(* Inductive invariants.                                                   *)

(* A call of execMeterWrite.                                               *)
CallInv ==
  /\ \A a \in 1 .. Len(attempts) :
       /\ attempts[a].item \in 1 .. Len(Items) /\ attempts[a].item <= w
       /\ attempts[a].item < w \/ wpc \in {"returned", "idle"}
       /\ Items[attempts[a].item].return => a = Len(attempts) /\ wpc \in {"returned", "idle"}
       /\ \A b \in 1 .. Len(attempts) : a < b => attempts[a].item < attempts[b].item
  /\ wpc = "items" /\ ~test /\ IsTCP => Def[mw].host \in connected
  /\ wpc = "open" => ~test
  /\ wpc \in {"condition", "open"} => attempts = <<>>

Loading == pc \in {"sections", "write", "append", "default", "defaultNext"}
InSection == pc = "write" \/ (pc = "append" /\ list \in Named)
InFile == pc \in {"sections", "write"} \/ (pc = "append" /\ list # Default)

(* The file and the members of the schedules.                              *)
FileInv ==
  /\ \A j, k \in 1 .. Len(parsed) : parsed[j] = parsed[k] => j = k
  /\ InSection => cur \in Writes /\ ~Parsed(cur)
  /\ pc = "append" => cur \in Writes /\ tail \in Writes
  /\ pc = "append" /\ list = Global => Len(parsed) > 1 /\ cur = parsed[Len(parsed)]
  /\ \A x \in Writes : memberOf[x] # {} => Parsed(x) \/ (InSection /\ x = cur)
  /\ \A s \in Scheds : IF heads[s] = NoWrite THEN \A x \in Writes : s \notin memberOf[x]
                       ELSE s \in memberOf[heads[s]]
  /\ InFile => \A x \in Writes : Default \notin memberOf[x]
  /\ \A x \in Writes : /\ IsFiniteSet(memberOf[x])
                       /\ hasSchedule[x] >= Cardinality(memberOf[x] \ {Default})
  /\ IF Len(parsed) > 0 THEN heads[Global] = parsed[1] ELSE heads[Global] = NoWrite
  /\ \A x \in Writes : next[x] # NoWrite => Parsed(next[x]) \/ (InSection /\ next[x] = cur)
  /\ pc \in {"default", "defaultNext"} \/ (pc = "append" /\ list = Default) =>
       cur = NoWrite \/ Parsed(cur)

(* The first n definitions of the file are linked in their order.          *)
LinkedTo(n) ==
  /\ \A k \in 1 .. Len(parsed) : IF k < n THEN next[parsed[k]] = parsed[k + 1]
                                 ELSE next[parsed[k]] = NoWrite
  /\ \A x \in Writes : ~Parsed(x) => next[x] = NoWrite

(* As long as no schedule has two definitions.                             *)
GoodInv ==
  /\ pc = "append" => list = Global /\ \E k \in 1 .. Len(parsed) - 1 : tail = parsed[k]
  /\ LinkedTo(IF pc = "append" THEN Len(parsed) - 1 ELSE Len(parsed))
  /\ pc \in {"default", "defaultNext"} /\ cur # NoWrite =>
       \E p \in 1 .. Len(parsed) :
         /\ cur = parsed[p]
         /\ \A x \in Writes : Default \in memberOf[x] =>
              \E j \in 1 .. p : parsed[j] = x /\ (pc = "default" => j < p)

(* Following the links from x never comes to an end.                       *)
Closed(S) == \A z \in S : next[z] \in S
Endless(x) == \E S \in SUBSET Writes : x \in S /\ Closed(S)

(* The definition that is read, cur, has been linked to the file's chain   *)
(* or to itself before its own section ended; n others have been read.     *)
Linked(n) ==
  /\ \A k \in 1 .. n - 1 : next[parsed[k]] = parsed[k + 1]
  /\ n > 0 => next[parsed[n]] \in {NoWrite, cur}
  /\ next[cur] \in {NoWrite, cur}

(* Once a schedule has two definitions.                                    *)
BadInv ==
  /\ Loading
  /\ pc = "sections" => Endless(heads[Global])
  /\ InSection =>
       \/ Endless(heads[Global])
       \/ /\ Linked(Len(parsed))
          /\ pc = "write" => next[cur] = cur
                             \/ (Len(parsed) > 0 /\ next[parsed[Len(parsed)]] = cur)
          /\ pc = "append" => tail = cur \/ \E k \in 1 .. Len(parsed) : tail = parsed[k]
  /\ pc = "append" /\ list = Global =>
       \/ Endless(tail)
       \/ /\ Linked(Len(parsed) - 1)
          /\ next[cur] = cur \/ next[parsed[Len(parsed) - 1]] = cur
          /\ \E k \in 1 .. Len(parsed) : tail = parsed[k]
  /\ pc \in {"default", "defaultNext"} => Endless(cur)
  /\ pc = "append" /\ list = Default =>
       \/ Endless(cur)
       \/ /\ LinkedTo(Len(parsed))
          /\ \E k \in 1 .. Len(parsed) : tail = parsed[k]
          /\ \E k \in 1 .. Len(parsed) : cur = parsed[k]

ListInv ==
  /\ FileInv
  /\ OnePerSchedule => GoodInv
  /\ ~OnePerSchedule => BadInv

Before(y, x) == \E j, k \in 1 .. Len(parsed) : j <= k /\ parsed[j] = y /\ parsed[k] = x

(* The rounds.                                                             *)
RoundInv ==
  /\ \A x \in Writes : isDue[x] \/ ran[x] > 0 =>
       \E y \in Writes : memberOf[y] \cap dueNow # {} /\ Before(y, x)
  /\ Loading \/ pc = "test" => \A x \in Writes : ran[x] = 0 /\ ~isDue[x]
  /\ pc \in {"test", "exec"} => cur = NoWrite \/ Parsed(cur)
  /\ pc = "exec" =>
       /\ wpc # "idle" => cur # NoWrite /\ isDue[cur]
       /\ \A s \in dueNow : heads[s] # NoWrite => isDue[heads[s]]
       /\ \A j \in 1 .. i : LET h == heads[CronTab[j]]
            IN h # NoWrite /\ isDue[h] => ran[h] > 0 \/ (j = i /\ cur = h)
       /\ \A k \in 1 .. Len(parsed) :
            /\ ran[parsed[k]] <= i
            /\ (\E c \in 1 .. k : cur = parsed[c]) => ran[parsed[k]] <= i - 1
  /\ \A x \in Writes : ran[x] <= Len(CronTab)

-----------------------------------------------------------------------------
(* Types.                                                                  *)
TypeInv ==
  /\ STypeOK
  /\ pc \in {"write", "append", "defaultNext"} => cur \in Writes
  /\ pc = "append" => tail \in Writes
  /\ wpc # "idle" => cur \in Writes /\ pc \in {"test", "exec"}

LEMMA DefTypes ==
  ASSUME NEW x \in Writes
  PROVE  Def[x].items \in Seq(Item) /\ Len(Def[x].items) \in Nat
<1>1. Def[x] \in Definition
  BY DefAssumption
<1>2. QED
  BY <1>1 DEF Definition

LEMMA TabTypes ==
  /\ Len(CronTab) \in Nat /\ 1 \in 1 .. Len(CronTab)
  /\ \A j \in 1 .. Len(CronTab) : CronTab[j] \in Scheds
BY SchedAssumption

LEMMA TypeInit == SInit => TypeInv
<1> SUFFICES ASSUME SInit
             PROVE  TypeInv
  OBVIOUS
<1>1. WTypeOK
  <2>1. w \in 1 .. Len(Items) + 1
    BY DefTypes DEF SInit, WInit, Items
  <2>2. <<>> \in Seq([item : Nat, ok : BOOLEAN])
    OBVIOUS
  <2>3. test \in BOOLEAN
    BY DEF SInit, WInit
  <2>4. QED
    BY <2>1, <2>2, <2>3 DEF SInit, WInit, WTypeOK
<1>2. QED
  BY <1>1, TabTypes, SchedAssumption DEF SInit, WInit, TypeInv, STypeOK, Lists

(* The steps of a call.                                                    *)
LEMMA CallTypes ==
  ASSUME WTypeOK,
         \/ WriteStep \/ WriteReturned \/ UNCHANGED wvars
         \/ \E x \in Writes : \E t \in BOOLEAN : Call(x, t)
  PROVE  WTypeOK'
<1> USE DEF WTypeOK, Items
<1>1. ASSUME NEW x \in Writes, NEW t \in BOOLEAN, Call(x, t)
      PROVE  WTypeOK'
  BY <1>1, DefTypes DEF Call
<1>2. CASE Condition \/ Open \/ WriteReturned
  BY <1>2 DEF Condition, Open, WriteReturned, Goto
<1>3. CASE ItemError
  BY <1>3 DEF ItemError, Goto
<1>4. CASE ItemSkipped
  BY <1>4, DefTypes DEF ItemSkipped, AtItem, Advance
<1>5. ASSUME NEW ok \in BOOLEAN, ItemWritten(ok)
      PROVE  WTypeOK'
  <2>1. w \in Nat /\ w <= Len(Items) /\ Len(Items) \in Nat /\ wpc = "items"
    BY <1>5, DefTypes DEF ItemWritten, AtItem
  <2>2. attempts' \in Seq([item : Nat, ok : BOOLEAN])
    BY <1>5, <2>1 DEF ItemWritten
  <2>3. /\ mw' = mw /\ test' = test /\ connected' \subseteq connected
        /\ \/ wpc' = "returned" /\ w' = w
           \/ wpc' = "items" /\ w' = w + 1
    BY <1>5, <2>1 DEF ItemWritten, CloseAndReturn, Advance
  <2>4. QED
    BY <2>1, <2>2, <2>3
<1>6. CASE ItemsDone
  BY <1>6 DEF ItemsDone, CloseAndReturn
<1>7. CASE UNCHANGED wvars
  BY <1>7 DEF wvars
<1>8. QED
  BY <1>1, <1>2, <1>3, <1>4, <1>5, <1>6, <1>7 DEF WriteStep

(* What an append begins with.                                             *)
LEMMA AppendTypes ==
  ASSUME TypeInv, NEW l \in Lists, Append1(l), cur \in Writes, cur' = cur, WTypeOK',
         UNCHANGED <<next, wait, i, isDue, dueNow, ran>>, wpc = "idle", wpc' = "idle",
         hasSchedule' \in [Writes -> 0 .. MaxLines], memberOf' \in [Writes -> SUBSET Scheds],
         parsed' \in Seq(Writes)
  PROVE  TypeInv'
<1>1. /\ list' = l
      /\ pc' \in {"sections", "write", "append", "defaultNext"}
      /\ heads' \in [Lists -> Writes \cup {NoWrite}]
      /\ tail' \in Writes \cup {NoWrite}
      /\ pc' = "append" => tail' \in Writes
  <2>1. CASE heads[l] = NoWrite
    BY <2>1 DEF Append1, After, TypeInv, STypeOK
  <2>2. CASE heads[l] # NoWrite
    BY <2>2 DEF Append1, TypeInv, STypeOK
  <2>3. QED
    BY <2>1, <2>2
<1>2. QED
  BY <1>1 DEF TypeInv, STypeOK

LEMMA TypeLoad ==
  ASSUME TypeInv, Load
  PROVE  TypeInv'
<1> USE DEF TypeInv, STypeOK
<1>1. UNCHANGED wvars /\ wpc = "idle" /\ wpc' = "idle"
  BY DEF Load, WalkOn, LinkAtEnd, BeginWrite, ScheduleLine, EndWrite, EndOfFile,
         DefaultAdd, DefaultNext, DefaultDone, wvars
<1>2. WTypeOK'
  BY <1>1, CallTypes
<1>3. DefaultDone \/ UNCHANGED <<i, isDue, dueNow, ran>>
  BY DEF Load, WalkOn, LinkAtEnd, BeginWrite, ScheduleLine, EndWrite, EndOfFile,
         DefaultAdd, DefaultNext, roundVars
<1>4. CASE WalkOn
  BY <1>1, <1>2, <1>4 DEF WalkOn, roundVars
<1>5. CASE LinkAtEnd
  BY <1>1, <1>2, <1>5 DEF LinkAtEnd, After, roundVars
<1>6. ASSUME NEW x \in Writes, BeginWrite(x)
      PROVE  TypeInv'
  BY <1>1, <1>2, <1>6 DEF BeginWrite, roundVars
<1>7. ASSUME NEW s \in Named, ScheduleLine(s), ~DefaultDone
      PROVE  TypeInv'
  <2>1. s \in Scheds /\ s \in Lists /\ cur \in Writes /\ pc = "write"
    BY <1>7 DEF ScheduleLine, Scheds, Lists
  <2>2. hasSchedule' \in [Writes -> 0 .. MaxLines] /\ memberOf' \in [Writes -> SUBSET Scheds]
    <3>0. hasSchedule[cur] \in 0 .. MaxLines /\ hasSchedule[cur] < MaxLines /\ MaxLines \in Nat
      BY <1>7, <2>1, SchedAssumption DEF ScheduleLine
    <3>1. hasSchedule[cur] + 1 \in 0 .. MaxLines
      BY <3>0
    <3>2. memberOf[cur] \cup {s} \in SUBSET Scheds
      BY <2>1
    <3>3. QED
      BY <1>7, <2>1, <3>1, <3>2 DEF ScheduleLine
  <2>3. /\ Append1(s)
        /\ UNCHANGED <<cur, next, parsed, wait>>
    BY <1>7 DEF ScheduleLine, roundVars
  <2>4. parsed' \in Seq(Writes) /\ cur' = cur /\ UNCHANGED <<next, wait, i, isDue, dueNow, ran>>
    BY <1>3, <1>7, <2>3
  <2>5. QED
    BY <1>1, <1>2, <2>1, <2>2, <2>3, <2>4, AppendTypes
<1>8. CASE EndWrite /\ ~DefaultDone
  <2>1. Global \in Lists /\ cur \in Writes /\ pc = "write"
    BY <1>8 DEF EndWrite, Lists
  <2>2. /\ Append1(Global) /\ parsed' \in Seq(Writes)
        /\ UNCHANGED <<cur, next, hasSchedule, memberOf, wait>>
    BY <1>8, <2>1 DEF EndWrite, roundVars
  <2>3. /\ hasSchedule' \in [Writes -> 0 .. MaxLines] /\ memberOf' \in [Writes -> SUBSET Scheds]
        /\ cur' = cur /\ UNCHANGED <<next, wait, i, isDue, dueNow, ran>>
    BY <1>3, <1>8, <2>2
  <2>4. QED
    BY <1>1, <1>2, <2>1, <2>2, <2>3, AppendTypes
<1>9. CASE EndOfFile
  BY <1>1, <1>2, <1>9 DEF EndOfFile, Lists, roundVars
<1>10. CASE DefaultAdd /\ ~DefaultDone
  <2>1. Default \in Lists /\ Default \in Scheds /\ cur \in Writes
    BY <1>10 DEF DefaultAdd, Lists, Scheds
  <2>2. /\ Append1(Default) /\ memberOf' \in [Writes -> SUBSET Scheds]
        /\ UNCHANGED <<cur, next, hasSchedule, parsed, wait>>
    BY <1>10, <2>1 DEF DefaultAdd, roundVars
  <2>3. /\ hasSchedule' \in [Writes -> 0 .. MaxLines] /\ parsed' \in Seq(Writes)
        /\ cur' = cur /\ UNCHANGED <<next, wait, i, isDue, dueNow, ran>>
    BY <1>3, <1>10, <2>2
  <2>4. QED
    BY <1>1, <1>2, <2>1, <2>2, <2>3, AppendTypes
<1>11. CASE DefaultNext
  BY <1>1, <1>2, <1>11 DEF DefaultNext, roundVars
<1>12. CASE DefaultDone
  <2>1. CronTab[1] \in Lists /\ 1 \in 1 .. Len(CronTab)
    BY TabTypes DEF Lists
  <2>2. cur' \in Writes \cup {NoWrite} /\ i' = 1 /\ pc' = "test"
    BY <1>12, <2>1 DEF DefaultDone
  <2>3. wait' \in [Scheds -> 0 .. MaxPeriod]
    BY <1>12, SchedAssumption DEF DefaultDone
  <2>4. UNCHANGED <<tail, list, next, heads, hasSchedule, parsed, memberOf, isDue, dueNow, ran>>
    BY <1>12 DEF DefaultDone
  <2>5. QED
    BY <1>1, <1>2, <2>1, <2>2, <2>3, <2>4
<1>13. QED
  BY <1>4, <1>5, <1>6, <1>7, <1>8, <1>9, <1>10, <1>11, <1>12 DEF Load

LEMMA TypeStep == TypeInv /\ [SNext]_svars => TypeInv'
<1> SUFFICES ASSUME TypeInv, [SNext]_svars
             PROVE  TypeInv'
  OBVIOUS
<1> USE DEF TypeInv, STypeOK
<1>1. CASE Load
  BY <1>1, TypeLoad
<1>2. CASE Tick
  <2>1. wait' \in [Scheds -> 0 .. MaxPeriod]
    <3>1. \A s \in Scheds : (IF wait[s] > 0 THEN wait[s] - 1 ELSE 0) \in 0 .. MaxPeriod
      <4> TAKE s \in Scheds
      <4>1. wait[s] \in 0 .. MaxPeriod /\ MaxPeriod \in Nat
        BY SchedAssumption
      <4>2. QED
        BY <4>1
    <3>2. QED
      BY <1>2, <3>1 DEF Tick
  <2>2. WTypeOK'
    BY <1>2 DEF Tick, WTypeOK, Items
  <2>3. QED
    BY <1>2, <2>1, <2>2 DEF Tick, loadVars
<1>3. CASE Round
  <2>1. CronTab[1] \in Lists /\ 1 \in 1 .. Len(CronTab)
    BY TabTypes DEF Lists
  <2>2. /\ wait' \in [Scheds -> 0 .. MaxPeriod] /\ isDue' \in [Writes -> BOOLEAN]
        /\ dueNow' \subseteq Scheds /\ ran' \in [Writes -> Nat]
    <3>1. isDue' \in [Writes -> BOOLEAN]
      BY <1>3 DEF Round, Marked
    <3>2. QED
      BY <1>3, <3>1 DEF Round, Due
  <2>3. WTypeOK'
    BY <1>3, CallTypes DEF Round
  <2>4. /\ UNCHANGED <<wpc, tail, list, next, heads, hasSchedule, parsed, memberOf>>
        /\ wpc = "idle"
        /\ \/ UNCHANGED <<pc, i, cur>>
           \/ pc' = "exec" /\ i' = 1 /\ cur' = heads[CronTab[1]]
    BY <1>3 DEF Round, wvars
  <2>5. pc' \in {"idle", "exec"} /\ cur' \in Writes \cup {NoWrite} /\ i' \in 1 .. Len(CronTab)
    BY <1>3, <2>1, <2>4 DEF Round
  <2>6. QED
    BY <2>2, <2>3, <2>4, <2>5
<1>4. CASE NextList
  <2>1. UNCHANGED wvars /\ wpc = "idle" /\ UNCHANGED <<tail, list, next, heads, hasSchedule, parsed, memberOf, wait, isDue, dueNow, ran>>
    BY <1>4 DEF NextList, Executing
  <2>2. /\ pc' \in {"test", "exec", "idle"} /\ i' \in 1 .. Len(CronTab)
        /\ cur' \in Writes \cup {NoWrite}
    <3>1. CASE i < Len(CronTab)
      <4>1. i + 1 \in 1 .. Len(CronTab)
        BY <3>1, TabTypes
      <4>2. CronTab[i + 1] \in Lists
        BY <4>1, TabTypes DEF Lists
      <4>3. QED
        BY <1>4, <3>1, <4>1, <4>2 DEF NextList, Executing
    <3>2. CASE ~ (i < Len(CronTab))
      BY <1>4, <3>2 DEF NextList, Executing
    <3>3. QED
      BY <3>1, <3>2
  <2>3. WTypeOK'
    BY <2>1, CallTypes
  <2>4. QED
    BY <2>1, <2>2, <2>3 DEF wvars
<1>5. CASE SkipWrite
  <2>1. WTypeOK'
    BY <1>5, CallTypes DEF SkipWrite
  <2>2. cur' \in Writes \cup {NoWrite}
    BY <1>5 DEF SkipWrite
  <2>3. QED
    BY <1>5, <2>1, <2>2 DEF SkipWrite, roundVars, wvars, Executing
<1>6. CASE CallWrite
  <2>1. cur \in Writes /\ pc \in {"test", "exec"}
    BY <1>6 DEF CallWrite, Executing
  <2>2. WTypeOK'
    BY <1>6, <2>1, CallTypes DEF CallWrite
  <2>3. QED
    BY <1>6, <2>1, <2>2 DEF CallWrite, loadVars, roundVars
<1>7. CASE InWrite
  <2>1. WTypeOK'
    BY <1>7, CallTypes DEF InWrite
  <2>2. wpc # "idle"
    BY <1>7 DEF InWrite, WriteStep, Condition, Open, ItemError, ItemSkipped, ItemWritten,
                ItemsDone, AtItem
  <2>3. QED
    BY <1>7, <2>1, <2>2 DEF InWrite, loadVars, roundVars
<1>8. CASE WriteBack
  <2>1. WTypeOK'
    BY <1>8, CallTypes DEF WriteBack
  <2>2. cur \in Writes /\ pc \in {"test", "exec"} /\ wpc' = "idle"
    BY <1>8 DEF WriteBack, WriteReturned, Goto
  <2>3. cur' \in Writes \cup {NoWrite} /\ ran' \in [Writes -> Nat]
    BY <1>8, <2>2 DEF WriteBack
  <2>4. QED
    BY <1>8, <2>1, <2>2, <2>3 DEF WriteBack
<1>9. CASE UNCHANGED svars
  BY <1>9, CallTypes DEF svars, loadVars, roundVars, wvars
<1>10. QED
  BY <1>1, <1>2, <1>3, <1>4, <1>5, <1>6, <1>7, <1>8, <1>9 DEF SNext, Run, Exited

(* The variables of main, of the lists and of the call keep their types,   *)
(* and a list is never followed from a definition that does not exist.     *)
THEOREM ScheduledWritesTyped == SSpec => []STypeOK
<1>1. SInit => TypeInv
  BY TypeInit
<1>2. TypeInv /\ [SNext]_svars => TypeInv'
  BY TypeStep
<1>3. TypeInv => STypeOK
  BY DEF TypeInv
<1>4. QED
  BY <1>1, <1>2, <1>3, PTL DEF SSpec

-----------------------------------------------------------------------------
(* A call of execMeterWrite.                                               *)
LEMMA CallInit == SInit => CallInv
BY DEF SInit, WInit, CallInv

LEMMA CallStep ==
  ASSUME TypeInv, CallInv, [SNext]_svars
  PROVE  CallInv'
<1> USE DEF CallInv, Items
<1>0. WTypeOK /\ Len(attempts) \in Nat /\ Len(Items) \in Nat /\ w \in Nat
  BY DefTypes DEF TypeInv, STypeOK, WTypeOK
<1>1. CASE UNCHANGED wvars
  BY <1>1 DEF wvars, IsTCP
<1>2. CASE Tick
  <2>1. wpc = "idle" /\ wpc' = "idle"
    BY <1>2 DEF Tick, TypeInv
  <2>2. QED
    BY <1>2, <2>1 DEF Tick
<1>3. ASSUME NEW x \in Writes, NEW t \in BOOLEAN, Call(x, t)
      PROVE  CallInv'
  BY <1>3 DEF Call
<1>4. CASE Condition
  <2>1. Len(attempts) = 0
    BY <1>0, <1>4 DEF Condition
  <2>2. QED
    BY <1>4, <2>1 DEF Condition, Goto
<1>5. CASE Open
  <2>1. Len(attempts) = 0
    BY <1>0, <1>5 DEF Open
  <2>2. QED
    BY <1>5, <2>1 DEF Open, IsTCP
<1>6. CASE ItemError
  BY <1>0, <1>6 DEF ItemError, Goto, AtItem
<1>7. CASE ItemSkipped
  BY <1>0, <1>7 DEF ItemSkipped, AtItem, Advance, IsTCP
<1>8. ASSUME NEW ok \in BOOLEAN, ItemWritten(ok)
      PROVE  CallInv'
  <2> DEFINE e == [item |-> w, ok |-> ok]
  <2>1. /\ wpc = "items" /\ w \in 1 .. Len(Items) /\ UNCHANGED <<mw, test>>
        /\ attempts' = Append(attempts, e) /\ e.item = w
    <3>1. e.item = w
      OBVIOUS
    <3>2. /\ wpc = "items" /\ w <= Len(Items) /\ UNCHANGED <<mw, test>>
          /\ attempts' = Append(attempts, e)
      BY <1>8 DEF ItemWritten, AtItem
    <3>3. w \in 1 .. Len(Items) + 1
      BY DEF TypeInv, STypeOK, WTypeOK
    <3>4. QED
      BY <1>0, <3>1, <3>2, <3>3
  <2>2. /\ Len(attempts') = Len(attempts) + 1 /\ attempts'[Len(attempts')] = e
        /\ \A a \in 1 .. Len(attempts) : attempts'[a] = attempts[a]
    <3>1. attempts \in Seq([item : Nat, ok : BOOLEAN]) /\ e \in [item : Nat, ok : BOOLEAN]
      BY <1>0 DEF TypeInv, STypeOK, WTypeOK
    <3>2. QED
      BY <2>1, <3>1
  <2> HIDE DEF e
  <2>3. \/ wpc' = "returned" /\ w' = w
        \/ wpc' = "items" /\ w' = w + 1 /\ ~Items[w].return /\ connected' = connected
    BY <1>8, <2>1 DEF ItemWritten, CloseAndReturn, Advance
  <2>4. \A a \in 1 .. Len(attempts) : attempts[a].item \in 1 .. w - 1
                                     /\ ~Items[attempts[a].item].return
    BY <1>0, <2>1
  <2>5. \A a \in 1 .. Len(attempts') :
          /\ attempts'[a].item \in 1 .. Len(Items) /\ attempts'[a].item <= w
          /\ a < Len(attempts') => attempts'[a].item < w /\ ~Items[attempts'[a].item].return
          /\ a = Len(attempts') => attempts'[a].item = w
    <3> TAKE a \in 1 .. Len(attempts')
    <3>1. CASE a = Len(attempts')
      BY <1>0, <2>1, <2>2, <3>1
    <3>2. CASE a \in 1 .. Len(attempts)
      BY <1>0, <2>1, <2>2, <2>4, <3>2
    <3>3. QED
      BY <1>0, <2>2, <3>1, <3>2
  <2>6. \A a, b \in 1 .. Len(attempts') : a < b => attempts'[a].item < attempts'[b].item
    <3> SUFFICES ASSUME NEW a \in 1 .. Len(attempts'), NEW b \in 1 .. Len(attempts'), a < b
                 PROVE  attempts'[a].item < attempts'[b].item
      OBVIOUS
    <3>1. a \in 1 .. Len(attempts) /\ attempts'[a] = attempts[a]
      BY <1>0, <2>2
    <3>2. CASE b = Len(attempts')
      <4>1. attempts'[b].item = w /\ attempts[a].item \in 1 .. w - 1
        BY <2>1, <2>2, <2>4, <3>1, <3>2
      <4>2. QED
        BY <1>0, <3>1, <4>1
    <3>3. CASE b \in 1 .. Len(attempts)
      BY <1>0, <2>2, <3>1, <3>3
    <3>4. QED
      BY <1>0, <2>2, <3>2, <3>3
  <2>7. Items' = Items
    BY <2>1
  <2>8. \A a \in 1 .. Len(attempts') :
          /\ attempts'[a].item < w' \/ wpc' \in {"returned", "idle"}
          /\ Items[attempts'[a].item].return
               => a = Len(attempts') /\ wpc' \in {"returned", "idle"}
    <3> TAKE a \in 1 .. Len(attempts')
    <3>1. attempts'[a].item \in 1 .. Len(Items) /\ attempts'[a].item <= w
      BY <2>5
    <3>2. CASE a = Len(attempts')
      BY <1>0, <2>3, <2>5, <3>1, <3>2
    <3>3. CASE a < Len(attempts')
      BY <1>0, <2>3, <2>5, <3>1, <3>3
    <3>4. QED
      BY <1>0, <2>2, <3>2, <3>3
  <2>9. \A a \in 1 .. Len(attempts') :
          attempts'[a].item \in 1 .. Len(Items) /\ attempts'[a].item <= w'
    BY <1>0, <2>3, <2>5
  <2>10. wpc' = "items" /\ ~test' /\ IsTCP' => Def[mw'].host \in connected'
    BY <2>1, <2>3 DEF IsTCP
  <2>11. wpc' \notin {"condition", "open"}
    BY <2>3
  <2>12. QED
    BY <2>6, <2>7, <2>8, <2>9, <2>10, <2>11
<1>9. CASE ItemsDone
  BY <1>0, <1>9 DEF ItemsDone, CloseAndReturn
<1>10. CASE WriteReturned
  BY <1>0, <1>10 DEF WriteReturned, Goto
<1>11. CASE Load
  BY <1>1, <1>11 DEF Load, WalkOn, LinkAtEnd, BeginWrite, ScheduleLine, EndWrite,
                     EndOfFile, DefaultAdd, DefaultNext, DefaultDone
<1>12. CASE Run
  <2>1. ASSUME CallWrite
        PROVE  CallInv'
    <3>1. cur \in Writes /\ (pc = "test") \in BOOLEAN /\ Call(cur, pc = "test")
      BY <2>1 DEF CallWrite, Executing, TypeInv, STypeOK
    <3>2. QED
      BY <1>3, <3>1
  <2>2. CASE InWrite
    BY <1>4, <1>5, <1>6, <1>7, <1>8, <1>9, <2>2 DEF InWrite, WriteStep
  <2>3. CASE NextList \/ SkipWrite
    BY <1>1, <2>3 DEF NextList, SkipWrite
  <2>4. CASE WriteBack
    BY <1>10, <2>4 DEF WriteBack
  <2>5. QED
    BY <1>12, <2>1, <2>2, <2>3, <2>4 DEF Run
<1>13. CASE Round
  BY <1>1, <1>13 DEF Round
<1>14. CASE UNCHANGED svars
  BY <1>1, <1>14 DEF svars
<1>15. QED
  BY <1>2, <1>11, <1>12, <1>13, <1>14 DEF SNext, Exited

(* The first item of a definition that says "return" and is written is the *)
(* last one, whether the device took it or not.                            *)
THEOREM ReturnEndsTheCall == SSpec => []NothingAfterReturn
<1>1. SInit => TypeInv /\ CallInv
  BY TypeInit, CallInit
<1>2. TypeInv /\ CallInv /\ [SNext]_svars => (TypeInv /\ CallInv)'
  BY TypeStep, CallStep
<1>3. TypeInv /\ CallInv => NothingAfterReturn
  <2> SUFFICES ASSUME TypeInv, CallInv, NEW a \in 1 .. Len(attempts)
               PROVE  /\ attempts[a].item \in 1 .. Len(Items)
                      /\ a < Len(attempts) =>
                           /\ attempts[a].item < attempts[a + 1].item
                           /\ ~Items[attempts[a].item].return
    BY DEF NothingAfterReturn
  <2>1. Len(attempts) \in Nat
    BY DEF TypeInv, STypeOK, WTypeOK
  <2>2. QED
    BY <2>1 DEF CallInv
<1>4. QED
  BY <1>1, <1>2, <1>3, PTL DEF SSpec

(* No request of a write goes over a closed link, none in the test.        *)
THEOREM WritesNeedALink == SSpec => OnlyOverOpenLink
<1>1. SInit => TypeInv /\ CallInv
  BY TypeInit, CallInit
<1>2. TypeInv /\ CallInv /\ [SNext]_svars => (TypeInv /\ CallInv)'
  BY TypeStep, CallStep
<1>3. TypeInv /\ CallInv /\ [SNext]_svars =>
        [attempts' # attempts /\ attempts' # <<>> =>
           ~test /\ (IsTCP => Def[mw].host \in connected)]_wvars
  <2> SUFFICES ASSUME TypeInv, CallInv, [SNext]_svars, attempts' # attempts, attempts' # <<>>
               PROVE  ~test /\ (IsTCP => Def[mw].host \in connected)
    OBVIOUS
  <2>1. PICK ok \in BOOLEAN : ItemWritten(ok)
    BY DEF SNext, Load, WalkOn, LinkAtEnd, BeginWrite, ScheduleLine, EndWrite, EndOfFile,
           DefaultAdd, DefaultNext, DefaultDone, Tick, Round, Run, NextList, SkipWrite,
           CallWrite, InWrite, WriteBack, WriteReturned, Exited, WriteStep, Condition, Open,
           ItemError, ItemSkipped, ItemsDone, Call, Goto, svars, wvars
  <2>2. QED
    BY <2>1 DEF ItemWritten, AtItem, CallInv
<1>4. QED
  BY <1>1, <1>2, <1>3, PTL DEF SSpec, OnlyOverOpenLink

-----------------------------------------------------------------------------
(* The lists.                                                              *)
LEMMA FileTypes ==
  ASSUME TypeInv
  PROVE  /\ parsed \in Seq(Writes) /\ Len(parsed) \in Nat
         /\ \A k \in 1 .. Len(parsed) : parsed[k] \in Writes
         /\ NoWrite \notin Writes
         /\ Default \notin Named /\ Global \notin Scheds /\ Named \subseteq Scheds
         /\ Default \in Scheds /\ Default # Global
         /\ next \in [Writes -> Writes \cup {NoWrite}]
         /\ heads \in [Lists -> Writes \cup {NoWrite}]
         /\ memberOf \in [Writes -> SUBSET Scheds]
         /\ hasSchedule \in [Writes -> 0 .. MaxLines] /\ MaxLines \in Nat
         /\ list \in Lists /\ Lists = Named \cup {Default, Global}
BY SchedAssumption DEF TypeInv, STypeOK, Scheds, Lists

LEMMA ListInit == SInit => ListInv
<1> SUFFICES ASSUME SInit
             PROVE  ListInv
  OBVIOUS
<1>1. parsed = <<>> /\ Len(parsed) = 0
  BY DEF SInit
<1>2. \A x \in Writes : memberOf[x] = {} /\ hasSchedule[x] = 0 /\ next[x] = NoWrite
  BY DEF SInit
<1>3. \A l \in Lists : heads[l] = NoWrite
  BY DEF SInit
<1>4. \A x \in Writes : IsFiniteSet(memberOf[x] \ {Default})
                       /\ Cardinality(memberOf[x] \ {Default}) = 0 /\ IsFiniteSet(memberOf[x])
  BY <1>2, FS_EmptySet
<1>5. FileInv
  BY <1>1, <1>2, <1>3, <1>4 DEF FileInv, SInit, InSection, InFile, Lists
<1>6. OnePerSchedule
  BY <1>2, <1>4 DEF OnePerSchedule
<1>7. GoodInv
  BY <1>1, <1>2 DEF GoodInv, SInit, LinkedTo
<1>8. QED
  BY <1>5, <1>6, <1>7 DEF ListInv

(* A schedule of a definition is new to it or counted again.               *)
LEMMA Membership ==
  ASSUME TypeInv, FileInv, NEW s \in Scheds, cur \in Writes,
         memberOf' = [memberOf EXCEPT ![cur] = @ \cup {s}],
         IF s = Default THEN hasSchedule' = hasSchedule
                        ELSE hasSchedule' = [hasSchedule EXCEPT ![cur] = @ + 1]
  PROVE  /\ OnePerSchedule' => OnePerSchedule
         /\ OnePerSchedule /\ (\A x \in Writes : s \notin memberOf[x]) => OnePerSchedule'
         /\ OnePerSchedule' => \A x \in Writes : s \in memberOf[x] => x = cur /\ s = Default
         /\ \A x \in Writes : /\ IsFiniteSet(memberOf'[x])
                              /\ hasSchedule'[x] >= Cardinality(memberOf'[x] \ {Default})
<1> DEFINE m(x) == memberOf[x] \ {Default}
           n(x) == memberOf'[x] \ {Default}
<1>0. /\ memberOf \in [Writes -> SUBSET Scheds]
      /\ \A x \in Writes : hasSchedule[x] \in Nat
  BY FileTypes
<1>1. \A x \in Writes : IsFiniteSet(memberOf[x]) /\ IsFiniteSet(m(x)) /\ Cardinality(m(x)) \in Nat
                       /\ hasSchedule[x] >= Cardinality(m(x))
  <2> TAKE x \in Writes
  <2>1. IsFiniteSet(memberOf[x]) /\ hasSchedule[x] >= Cardinality(memberOf[x] \ {Default})
    BY DEF FileInv
  <2>2. IsFiniteSet(m(x)) /\ Cardinality(m(x)) \in Nat
    BY <2>1, FS_RemoveElement, FS_CardinalityType
  <2>3. QED
    BY <2>1, <2>2
<1>2. \A x \in Writes : x # cur => memberOf'[x] = memberOf[x] /\ hasSchedule'[x] = hasSchedule[x]
                                  /\ n(x) = m(x)
  <2> TAKE x \in Writes
  <2>1. x # cur => memberOf'[x] = memberOf[x]
    BY <1>0
  <2>2. x # cur => hasSchedule'[x] = hasSchedule[x]
    BY FileTypes
  <2>3. QED
    BY <2>1, <2>2
<1>3. memberOf'[cur] = memberOf[cur] \cup {s} /\ IsFiniteSet(memberOf'[cur])
  BY <1>0, <1>1, FS_AddElement
<1>4. \/ s = Default /\ n(cur) = m(cur) /\ hasSchedule'[cur] = hasSchedule[cur]
      \/ s # Default /\ s \in memberOf[cur] /\ n(cur) = m(cur) /\ hasSchedule'[cur] = hasSchedule[cur] + 1
      \/ s # Default /\ s \notin memberOf[cur] /\ hasSchedule'[cur] = hasSchedule[cur] + 1
         /\ Cardinality(n(cur)) = Cardinality(m(cur)) + 1
  <2>1. CASE s = Default
    BY <1>0, <1>3, <2>1
  <2>2. CASE s # Default
    <3>1. hasSchedule'[cur] = hasSchedule[cur] + 1
      BY <1>0, <2>2, FileTypes
    <3>2. n(cur) = m(cur) \cup {s}
      BY <1>3, <2>2
    <3>3. CASE s \in memberOf[cur]
      BY <2>2, <3>1, <3>2, <3>3
    <3>4. CASE s \notin memberOf[cur]
      <4>1. Cardinality(m(cur) \cup {s}) = Cardinality(m(cur)) + 1
        BY <1>1, <3>4, FS_AddElement
      <4>2. QED
        BY <2>2, <3>1, <3>2, <3>4, <4>1
    <3>5. QED
      BY <3>3, <3>4
  <2>3. QED
    BY <2>1, <2>2
<1>5. \A x \in Writes : IsFiniteSet(memberOf'[x]) /\ hasSchedule'[x] >= Cardinality(n(x))
  <2> TAKE x \in Writes
  <2>1. CASE x = cur
    BY <1>0, <1>1, <1>3, <1>4, <2>1
  <2>2. CASE x # cur
    BY <1>1, <1>2, <2>2
  <2>3. QED
    BY <2>1, <2>2
<1>6. ASSUME OnePerSchedule'
      PROVE  OnePerSchedule
  <2>1. \A x \in Writes : hasSchedule[x] = Cardinality(m(x))
    <3> TAKE x \in Writes
    <3>1. hasSchedule'[x] = Cardinality(n(x))
      BY <1>6 DEF OnePerSchedule
    <3> HIDE DEF m, n
    <3>2. CASE x = cur
      BY <1>0, <1>1, <1>4, <3>1, <3>2
    <3>3. CASE x # cur
      BY <1>2, <3>1, <3>3
    <3>4. QED
      BY <3>2, <3>3
  <2>2. \A x, y \in Writes : x # y => memberOf[x] \cap memberOf[y] = {}
    BY <1>2, <1>3, <1>6 DEF OnePerSchedule
  <2>3. QED
    BY <2>1, <2>2 DEF OnePerSchedule
<1>7. ASSUME OnePerSchedule, \A x \in Writes : s \notin memberOf[x]
      PROVE  OnePerSchedule'
  <2>1. \A x \in Writes : hasSchedule'[x] = Cardinality(n(x))
    <3> TAKE x \in Writes
    <3>1. hasSchedule[x] = Cardinality(m(x))
      BY <1>7 DEF OnePerSchedule
    <3>2. QED
      BY <1>0, <1>1, <1>2, <1>4, <1>7, <3>1
  <2>2. \A x, y \in Writes : x # y => memberOf'[x] \cap memberOf'[y] = {}
    BY <1>2, <1>3, <1>7 DEF OnePerSchedule
  <2>3. QED
    BY <2>1, <2>2 DEF OnePerSchedule
<1>8. ASSUME OnePerSchedule', NEW x \in Writes, s \in memberOf[x]
      PROVE  x = cur /\ s = Default
  <2>1. x = cur
    BY <1>2, <1>3, <1>8 DEF OnePerSchedule
  <2>2. hasSchedule'[cur] = Cardinality(n(cur)) /\ hasSchedule[cur] >= Cardinality(m(cur))
    BY <1>1, <1>8 DEF OnePerSchedule
  <2>3. QED
    BY <1>0, <1>1, <1>4, <1>8, <2>1, <2>2
<1>9. QED
  BY <1>5, <1>6, <1>7, <1>8

LEMMA SameMembers ==
  ASSUME UNCHANGED <<memberOf, hasSchedule>>
  PROVE  OnePerSchedule' <=> OnePerSchedule
BY DEF OnePerSchedule

LEMMA ListWalkOn ==
  ASSUME TypeInv, ListInv, WalkOn
  PROVE  ListInv'
<1>1. /\ pc = "append" /\ next[tail] # NoWrite /\ tail' = next[tail]
      /\ UNCHANGED <<pc, cur, list, next, heads, hasSchedule, parsed, memberOf>>
      /\ tail \in Writes /\ cur \in Writes
  BY DEF WalkOn, TypeInv
<1>F. /\ Len(parsed) \in Nat /\ NoWrite \notin Writes
      /\ \A k \in 1 .. Len(parsed) : parsed[k] \in Writes
  BY FileTypes
<1>2. FileInv'
  BY <1>1, FileTypes DEF ListInv, FileInv, InSection, InFile, Parsed
<1>3. OnePerSchedule' <=> OnePerSchedule
  BY <1>1, SameMembers
<1>4. ASSUME OnePerSchedule
      PROVE  GoodInv'
  <2>1. GoodInv
    BY <1>4 DEF ListInv
  <2>2. PICK k \in 1 .. Len(parsed) - 1 : tail = parsed[k]
    BY <1>1, <2>1 DEF GoodInv
  <2>3. LinkedTo(Len(parsed) - 1) /\ list = Global
    BY <1>1, <2>1 DEF GoodInv
  <2>4. k < Len(parsed) - 1 /\ tail' = parsed[k + 1]
    BY <1>1, <1>F, <2>2, <2>3 DEF LinkedTo
  <2>5. LinkedTo(Len(parsed) - 1)'
    BY <1>1, <2>3 DEF LinkedTo, Parsed
  <2>6. \E j \in 1 .. Len(parsed) - 1 : tail' = parsed[j]
    BY <1>F, <2>4
  <2>7. QED
    BY <1>1, <2>3, <2>5, <2>6 DEF GoodInv
<1>5. ASSUME ~OnePerSchedule
      PROVE  BadInv'
  <2>1. BadInv
    BY <1>5 DEF ListInv
  <2>2. CASE list \in Named
    <3>1. pc' = "append" /\ list' \in Named /\ list # Global /\ list # Default
      BY <1>1, <2>2, FileTypes
    <3>2. CASE Endless(heads[Global])
      BY <1>1, <3>1, <3>2, FileTypes DEF BadInv, Loading, Endless, Closed
    <3>3. CASE Linked(Len(parsed)) /\ (tail = cur \/ \E k \in 1 .. Len(parsed) : tail = parsed[k])
      <4>1. tail' = cur \/ \E k \in 1 .. Len(parsed) : tail' = parsed[k]
        <5>1. CASE tail = cur
          BY <1>1, <3>3, <5>1 DEF Linked
        <5>2. ASSUME NEW k \in 1 .. Len(parsed), tail = parsed[k]
              PROVE  tail' = cur \/ \E j \in 1 .. Len(parsed) : tail' = parsed[j]
          <6>1. CASE k = Len(parsed)
            BY <1>1, <1>F, <3>3, <5>2, <6>1 DEF Linked
          <6>2. CASE k < Len(parsed)
            BY <1>1, <1>F, <3>3, <5>2, <6>2 DEF Linked
          <6>3. QED
            BY <1>F, <6>1, <6>2
        <5>3. QED
          BY <3>3, <5>1, <5>2
      <4>2. Linked(Len(parsed))'
        BY <1>1, <3>3 DEF Linked
      <4>3. QED
        BY <1>1, <3>1, <4>1, <4>2 DEF BadInv, Loading
    <3>4. QED
      BY <1>1, <2>1, <2>2, <3>2, <3>3 DEF BadInv, InSection
  <2>3. CASE list = Global
    <3>1. CASE Endless(tail)
      BY <1>1, <2>1, <2>3, <3>1, FileTypes DEF BadInv, Loading, InSection, Endless, Closed
    <3>2. CASE /\ Linked(Len(parsed) - 1)
               /\ next[cur] = cur \/ next[parsed[Len(parsed) - 1]] = cur
               /\ \E k \in 1 .. Len(parsed) : tail = parsed[k]
      <4>1. Len(parsed) > 1 /\ cur = parsed[Len(parsed)]
        BY <1>1, <2>3 DEF ListInv, FileInv
      <4>2. \E k \in 1 .. Len(parsed) : tail' = parsed[k]
        <5> PICK k \in 1 .. Len(parsed) : tail = parsed[k]
          BY <3>2
        <5>1. CASE k = Len(parsed)
          BY <1>1, <1>F, <3>2, <4>1, <5>1 DEF Linked
        <5>2. CASE k = Len(parsed) - 1
          BY <1>1, <1>F, <3>2, <4>1, <5>2 DEF Linked
        <5>3. CASE k < Len(parsed) - 1
          <6>1. next[parsed[k]] = parsed[k + 1] /\ k + 1 \in 1 .. Len(parsed)
            <7>1. k \in 1 .. (Len(parsed) - 1) - 1 /\ k + 1 \in 1 .. Len(parsed)
              BY <1>F, <4>1, <5>3
            <7>2. QED
              BY <3>2, <7>1 DEF Linked
          <6>2. QED
            BY <1>1, <6>1
        <5>4. QED
          BY <1>F, <5>1, <5>2, <5>3
      <4>3. QED
        BY <1>1, <2>1, <2>3, <3>2, <4>2, FileTypes DEF BadInv, Loading, InSection, Linked
    <3>3. QED
      BY <1>1, <2>1, <2>3, <3>1, <3>2 DEF BadInv
  <2>4. CASE list = Default
    <3>1. pc' = "append" /\ list' = Default /\ list # Global /\ list \notin Named
      BY <1>1, <2>4, FileTypes
    <3>2. CASE Endless(cur)
      BY <1>1, <3>1, <3>2, FileTypes DEF BadInv, Loading, InSection, Endless, Closed
    <3>3. CASE /\ LinkedTo(Len(parsed))
               /\ \E k \in 1 .. Len(parsed) : tail = parsed[k]
               /\ \E k \in 1 .. Len(parsed) : cur = parsed[k]
      <4>1. PICK k \in 1 .. Len(parsed) : tail = parsed[k]
        BY <3>3
      <4>2. k < Len(parsed) /\ tail' = parsed[k + 1]
        BY <1>1, <1>F, <3>3, <4>1 DEF LinkedTo
      <4>3. \E j \in 1 .. Len(parsed) : tail' = parsed[j]
        BY <1>F, <4>2
      <4>4. LinkedTo(Len(parsed))'
        BY <1>1, <3>3 DEF LinkedTo, Parsed
      <4>5. QED
        BY <1>1, <3>1, <3>3, <4>3, <4>4, FileTypes DEF BadInv, Loading, InSection
    <3>4. QED
      BY <1>1, <2>1, <2>4, <3>2, <3>3 DEF BadInv
  <2>5. QED
    BY <2>2, <2>3, <2>4, FileTypes
<1>6. QED
  BY <1>2, <1>3, <1>4, <1>5 DEF ListInv

(* What is closed stays closed when the end of another list is linked.     *)
LEMMA StaysEndless ==
  ASSUME TypeInv, NEW x \in Writes \cup {NoWrite}, Endless(x), tail \in Writes, next[tail] = NoWrite,
         next' = [next EXCEPT ![tail] = cur]
  PROVE  /\ x # tail
         /\ \E S \in SUBSET Writes : x \in S /\ \A z \in S : next'[z] \in S
<1>1. PICK S \in SUBSET Writes : x \in S /\ Closed(S)
  BY DEF Endless
<1>2. tail \notin S
  BY <1>1, FileTypes DEF Closed
<1>3. \A z \in S : next'[z] \in S
  BY <1>1, <1>2, FileTypes DEF Closed
<1>4. QED
  BY <1>1, <1>2, <1>3

LEMMA ListLinkAtEnd ==
  ASSUME TypeInv, ListInv, LinkAtEnd
  PROVE  ListInv'
<1>1. /\ pc = "append" /\ next[tail] = NoWrite /\ next' = [next EXCEPT ![tail] = cur]
      /\ pc' = After(list)
      /\ UNCHANGED <<cur, tail, list, heads, hasSchedule, parsed, memberOf>>
      /\ tail \in Writes /\ cur \in Writes
  BY DEF LinkAtEnd, TypeInv
<1> DEFINE N == Len(parsed)
<1>F. /\ N \in Nat /\ NoWrite \notin Writes
      /\ \A k \in 1 .. N : parsed[k] \in Writes
      /\ \A k, j \in 1 .. N : parsed[k] = parsed[j] => k = j
  BY FileTypes DEF ListInv, FileInv
<1>2. /\ next'[tail] = cur
      /\ \A x \in Writes : x # tail => next'[x] = next[x]
  BY <1>1, FileTypes
<1>3. \/ list = Global /\ pc' = "sections"
      \/ list = Default /\ pc' = "defaultNext"
      \/ list \in Named /\ pc' = "write"
  BY <1>1, FileTypes DEF After
<1>4. FileInv'
  <2>1. \A x \in Writes : next'[x] # NoWrite => Parsed(next'[x]) \/ (list \in Named /\ next'[x] = cur)
    BY <1>1, <1>2, <1>3, FileTypes DEF ListInv, FileInv, InSection, InFile, Parsed
  <2>2. QED
    <3>1. FileInv /\ Default \notin Named /\ Default # Global /\ Global \notin Named
      BY FileTypes DEF ListInv
    <3>2. CASE list \in Named
      BY <1>1, <1>3, <2>1, <3>1, <3>2 DEF FileInv, InSection, InFile, Parsed
    <3>3. CASE list = Global
      BY <1>1, <1>3, <2>1, <3>1, <3>3 DEF FileInv, InSection, InFile, Parsed
    <3>4. CASE list = Default
      BY <1>1, <1>3, <2>1, <3>1, <3>4 DEF FileInv, InSection, InFile, Parsed
    <3>5. QED
      BY <1>3, <3>2, <3>3, <3>4
<1>5. OnePerSchedule' <=> OnePerSchedule
  BY <1>1, SameMembers
<1>6. ASSUME OnePerSchedule
      PROVE  GoodInv'
  <2>1. list = Global /\ pc' = "sections" /\ N > 1 /\ cur = parsed[N]
    BY <1>1, <1>3, <1>6, FileTypes DEF ListInv, GoodInv, FileInv
  <2>2. LinkedTo(N - 1) /\ \E k \in 1 .. N - 1 : tail = parsed[k]
    BY <1>1, <1>6 DEF ListInv, GoodInv
  <2>3. tail = parsed[N - 1]
    BY <1>1, <1>F, <2>1, <2>2 DEF LinkedTo
  <2>4. LinkedTo(N)'
    <3>1. ASSUME NEW k \in 1 .. N
          PROVE  IF k < N THEN next'[parsed[k]] = parsed[k + 1] ELSE next'[parsed[k]] = NoWrite
      <4>1. CASE k = N
        BY <1>2, <1>F, <2>1, <2>2, <2>3, <4>1 DEF LinkedTo
      <4>2. CASE k = N - 1
        BY <1>2, <1>F, <2>1, <2>3, <4>2
      <4>3. CASE k < N - 1
        BY <1>2, <1>F, <2>1, <2>2, <2>3, <4>3 DEF LinkedTo
      <4>4. QED
        BY <1>F, <4>1, <4>2, <4>3
    <3>2. ASSUME NEW x \in Writes, ~Parsed(x)
          PROVE  next'[x] = NoWrite
      <4>1. x # tail
        BY <1>F, <2>1, <2>3, <3>2 DEF Parsed
      <4>2. QED
        BY <1>2, <2>2, <3>2, <4>1 DEF LinkedTo
    <3>3. QED
      BY <1>1, <3>1, <3>2 DEF LinkedTo, Parsed
  <2>5. QED
    BY <1>1, <2>1, <2>4 DEF GoodInv
<1>7. ASSUME ~OnePerSchedule
      PROVE  BadInv'
  <2>1. BadInv
    BY <1>7 DEF ListInv
  <2>2. ASSUME NEW x \in Writes \cup {NoWrite}, Endless(x)
        PROVE  x # tail /\ \E S \in SUBSET Writes : x \in S /\ \A z \in S : next'[z] \in S
    BY <1>1, <2>2, StaysEndless
  <2>3. heads[Global] \in Writes \cup {NoWrite} /\ heads'[Global] = heads[Global]
    BY <1>1, FileTypes
  <2>4. CASE list \in Named
    <3>1. CASE Endless(heads[Global])
      BY <1>1, <1>3, <2>2, <2>3, <2>4, <3>1, FileTypes DEF BadInv, Loading, InSection, Endless, Closed
    <3>2. CASE Linked(N) /\ (tail = cur \/ \E k \in 1 .. N : tail = parsed[k])
      <4>1. tail = cur \/ (N > 0 /\ tail = parsed[N])
        <5>1. ASSUME NEW k \in 1 .. N, tail = parsed[k]
              PROVE  k = N
          <6>1. CASE k < N
            <7>1. next[parsed[k]] = parsed[k + 1] /\ parsed[k + 1] \in Writes
              BY <1>F, <3>2, <6>1 DEF Linked
            <7>2. QED
              BY <1>1, <1>F, <5>1, <7>1
          <6>2. QED
            BY <1>F, <6>1
        <5>2. QED
          BY <1>F, <3>2, <5>1
      <4>2. ~Parsed(cur)
        BY <1>1, <2>4 DEF ListInv, FileInv, InSection
      <4>3. Linked(N)'
        BY <1>1, <1>2, <3>2, <4>1, <4>2, FileTypes DEF Linked, Parsed, ListInv, FileInv
      <4>4. next'[cur] = cur \/ (N > 0 /\ next'[parsed[N]] = cur)
        BY <1>2, <4>1
      <4>5. QED
        BY <1>1, <1>3, <2>4, <4>3, <4>4, FileTypes DEF BadInv, Loading, InSection
    <3>3. QED
      BY <1>1, <2>1, <2>4, <3>1, <3>2 DEF BadInv, InSection
  <2>5. CASE list = Global
    <3>1. N > 1 /\ cur = parsed[N] /\ heads[Global] = parsed[1]
      BY <1>1, <2>5 DEF ListInv, FileInv
    <3>2. ~Endless(tail)
      BY <1>1, <2>2
    <3>3. /\ Linked(N - 1)
          /\ next[cur] = cur \/ next[parsed[N - 1]] = cur
          /\ \E k \in 1 .. N : tail = parsed[k]
      BY <1>1, <2>1, <2>5, <3>2 DEF BadInv
    <3>0. \A k \in 1 .. N - 2 : next[parsed[k]] = parsed[k + 1] /\ tail # parsed[k]
      <4> TAKE k \in 1 .. N - 2
      <4>1. k \in 1 .. (N - 1) - 1 /\ k + 1 \in 1 .. N
        BY <1>F
      <4>2. next[parsed[k]] = parsed[k + 1] /\ parsed[k + 1] \in Writes
        BY <1>F, <3>3, <4>1 DEF Linked
      <4>3. QED
        BY <1>1, <1>F, <4>2
    <3>4. next'[parsed[N - 1]] = cur /\ next'[cur] = cur
      <4>1. N - 1 \in 1 .. N /\ parsed[N - 1] # cur /\ parsed[N - 1] \in Writes
        BY <1>F, <3>1
      <4>2. next[parsed[N - 1]] \in {NoWrite, cur} /\ next[cur] \in {NoWrite, cur}
        BY <1>F, <3>1, <3>3 DEF Linked
      <4>3. tail = parsed[N - 1] \/ tail = cur
        BY <1>F, <3>0, <3>1, <3>3
      <4>4. CASE tail = parsed[N - 1]
        BY <1>1, <1>2, <1>F, <3>3, <4>1, <4>4
      <4>5. CASE tail = cur
        BY <1>1, <1>2, <1>F, <3>3, <4>1, <4>5
      <4>6. QED
        BY <4>3, <4>4, <4>5
    <3>5. \A k \in 1 .. N - 2 : next'[parsed[k]] = parsed[k + 1]
      BY <1>2, <1>F, <3>0
    <3> DEFINE S == {parsed[k] : k \in 1 .. N}
    <3>6. \A k \in 1 .. N : next'[parsed[k]] \in S
      <4> TAKE k \in 1 .. N
      <4>1. CASE k >= N - 1
        <5>1. next'[parsed[k]] = parsed[N]
          BY <1>F, <3>1, <3>4, <4>1
        <5>2. QED
          BY <1>F, <5>1
      <4>2. CASE k \in 1 .. N - 2
        <5>1. k + 1 \in 1 .. N
          BY <1>F, <4>2
        <5>2. QED
          BY <3>5, <4>2, <5>1
      <4>3. QED
        BY <1>F, <4>1, <4>2
    <3>7. S \in SUBSET Writes /\ heads'[Global] \in S /\ \A z \in S : next'[z] \in S
      <4>1. 1 \in 1 .. N
        BY <1>F, <3>1
      <4>2. QED
        BY <1>F, <2>3, <3>1, <3>6, <4>1
    <3> HIDE DEF S
    <3>8. Endless(heads[Global])'
      BY <3>7 DEF Endless, Closed
    <3>9. QED
      BY <1>3, <2>5, <3>8, FileTypes DEF BadInv, Loading, InSection
  <2>6. CASE list = Default
    <3>1. CASE Endless(cur)
      BY <1>1, <1>3, <2>2, <2>6, <3>1, FileTypes DEF BadInv, Loading, InSection, Endless, Closed
    <3>2. CASE /\ LinkedTo(N)
               /\ \E k \in 1 .. N : tail = parsed[k]
               /\ \E k \in 1 .. N : cur = parsed[k]
      <4>0. \A k \in 1 .. N - 1 : next[parsed[k]] = parsed[k + 1] /\ tail # parsed[k]
        <5> TAKE k \in 1 .. N - 1
        <5>1. next[parsed[k]] = parsed[k + 1] /\ parsed[k + 1] \in Writes
          BY <1>F, <3>2 DEF LinkedTo
        <5>2. QED
          BY <1>1, <1>F, <5>1
      <4>1. N > 0 /\ tail = parsed[N]
        BY <1>F, <3>2, <4>0
      <4>2. \A k \in 1 .. N - 1 : next'[parsed[k]] = parsed[k + 1]
        BY <1>2, <1>F, <4>0
      <4> DEFINE S == {parsed[k] : k \in 1 .. N}
      <4>3. \A k \in 1 .. N : next'[parsed[k]] \in S
        <5> TAKE k \in 1 .. N
        <5>1. CASE k = N
          BY <1>2, <3>2, <4>1, <5>1
        <5>2. CASE k \in 1 .. N - 1
          <6>1. k + 1 \in 1 .. N
            BY <1>F, <5>2
          <6>2. QED
            BY <4>2, <5>2, <6>1
        <5>3. QED
          BY <1>F, <5>1, <5>2
      <4>4. S \in SUBSET Writes /\ cur \in S /\ \A z \in S : next'[z] \in S
        BY <1>F, <3>2, <4>3
      <4> HIDE DEF S
      <4>5. Endless(cur)'
        BY <1>1, <4>4 DEF Endless, Closed
      <4>6. QED
        BY <1>3, <2>6, <4>5, FileTypes DEF BadInv, Loading, InSection
    <3>3. QED
      BY <1>1, <2>1, <2>6, <3>1, <3>2 DEF BadInv
  <2>7. QED
    BY <1>3, <2>4, <2>5, <2>6
<1>8. QED
  BY <1>4, <1>5, <1>6, <1>7 DEF ListInv

LEMMA ListBeginWrite ==
  ASSUME TypeInv, ListInv, NEW x \in Writes, BeginWrite(x)
  PROVE  ListInv'
<1>1. /\ pc = "sections" /\ pc' = "write" /\ ~Parsed(x) /\ cur' = x
      /\ UNCHANGED <<tail, list, next, heads, hasSchedule, parsed, memberOf>>
  BY DEF BeginWrite
<1>2. FileInv'
  BY <1>1 DEF ListInv, FileInv, InSection, InFile, Parsed
<1>3. OnePerSchedule' <=> OnePerSchedule
  BY <1>1, SameMembers
<1>4. OnePerSchedule => GoodInv'
  BY <1>1 DEF ListInv, GoodInv, LinkedTo, Parsed
<1>5. ~OnePerSchedule => BadInv'
  BY <1>1 DEF ListInv, BadInv, Loading, InSection, Endless, Closed
<1>6. QED
  BY <1>2, <1>3, <1>4, <1>5 DEF ListInv

LEMMA ListEndOfFile ==
  ASSUME TypeInv, ListInv, EndOfFile
  PROVE  ListInv'
<1>1. /\ pc = "sections" /\ pc' = "default" /\ cur' = heads[Global]
      /\ UNCHANGED <<tail, list, next, heads, hasSchedule, parsed, memberOf>>
  BY DEF EndOfFile
<1>2. heads[Global] = NoWrite \/ (1 \in 1 .. Len(parsed) /\ heads[Global] = parsed[1])
  BY FileTypes DEF ListInv, FileInv
<1>3. FileInv'
  BY <1>1, <1>2 DEF ListInv, FileInv, InSection, InFile, Parsed
<1>4. OnePerSchedule' <=> OnePerSchedule
  BY <1>1, SameMembers
<1>5. OnePerSchedule => GoodInv'
  BY <1>1, <1>2 DEF ListInv, GoodInv, LinkedTo, Parsed, FileInv, InFile
<1>6. ~OnePerSchedule => BadInv'
  BY <1>1 DEF ListInv, BadInv, Loading, InSection, Endless, Closed
<1>7. QED
  BY <1>3, <1>4, <1>5, <1>6 DEF ListInv

LEMMA ListDefaultNext ==
  ASSUME TypeInv, ListInv, DefaultNext
  PROVE  ListInv'
<1>1. /\ pc \in {"default", "defaultNext"} /\ pc' = "default" /\ cur' = next[cur]
      /\ cur \in Writes
      /\ pc = "default" => hasSchedule[cur] > 0
      /\ UNCHANGED <<tail, list, next, heads, hasSchedule, parsed, memberOf>>
  BY DEF DefaultNext, TypeInv, STypeOK
<1>F. /\ Len(parsed) \in Nat /\ NoWrite \notin Writes
      /\ \A k \in 1 .. Len(parsed) : parsed[k] \in Writes
      /\ cur # NoWrite
  BY <1>1, FileTypes
<1>2. FileInv'
  BY <1>1, <1>F DEF ListInv, FileInv, InSection, InFile, Parsed
<1>3. OnePerSchedule' <=> OnePerSchedule
  BY <1>1, SameMembers
<1>4. ASSUME OnePerSchedule
      PROVE  GoodInv'
  <2>1. GoodInv
    BY <1>4 DEF ListInv
  <2>2. PICK p \in 1 .. Len(parsed) :
          /\ cur = parsed[p]
          /\ \A x \in Writes : Default \in memberOf[x] => \E j \in 1 .. p : parsed[j] = x
    BY <1>1, <1>F, <2>1 DEF GoodInv
  <2>3. LinkedTo(Len(parsed))
    BY <1>1, <2>1 DEF GoodInv
  <2>4. LinkedTo(Len(parsed))'
    BY <1>1, <2>3 DEF LinkedTo, Parsed
  <2>5. CASE p = Len(parsed)
    <3>1. cur' = NoWrite
      BY <1>1, <1>F, <2>2, <2>3, <2>5 DEF LinkedTo
    <3>2. QED
      BY <1>1, <2>4, <3>1 DEF GoodInv
  <2>6. CASE p < Len(parsed)
    <3>1. cur' = parsed[p + 1] /\ p + 1 \in 1 .. Len(parsed)
      BY <1>1, <1>F, <2>2, <2>3, <2>6 DEF LinkedTo
    <3>2. \A x \in Writes : Default \in memberOf[x] =>
            \E j \in 1 .. p + 1 : parsed[j] = x /\ j < p + 1
      BY <2>2
    <3>3. QED
      BY <1>1, <2>4, <3>1, <3>2 DEF GoodInv
  <2>7. QED
    BY <1>F, <2>5, <2>6
<1>5. ASSUME ~OnePerSchedule
      PROVE  BadInv'
  BY <1>1, <1>5 DEF ListInv, BadInv, Loading, InSection, Endless, Closed
<1>6. QED
  BY <1>2, <1>3, <1>4, <1>5 DEF ListInv

LEMMA ListDefaultDone ==
  ASSUME TypeInv, ListInv, DefaultDone
  PROVE  ListInv'
<1>1. /\ pc = "default" /\ cur = NoWrite /\ pc' = "test"
      /\ UNCHANGED <<tail, list, next, heads, hasSchedule, parsed, memberOf>>
  BY DEF DefaultDone
<1>2. FileInv'
  BY <1>1 DEF ListInv, FileInv, InSection, InFile, Parsed
<1>3. OnePerSchedule' <=> OnePerSchedule
  BY <1>1, SameMembers
<1>4. OnePerSchedule
  BY <1>1, FileTypes DEF ListInv, BadInv, Endless
<1>5. GoodInv'
  BY <1>1, <1>4 DEF ListInv, GoodInv, LinkedTo, Parsed
<1>6. QED
  BY <1>2, <1>3, <1>4, <1>5 DEF ListInv

(* The rounds and the execution leave the lists alone.                     *)
LEMMA ListKept ==
  ASSUME TypeInv, ListInv,
         \/ UNCHANGED <<pc, cur, tail, list, next, heads, hasSchedule, parsed, memberOf>>
         \/ /\ pc \in {"test", "idle", "exec"} /\ pc' \in {"test", "idle", "exec"}
            /\ UNCHANGED <<tail, list, next, heads, hasSchedule, parsed, memberOf>>
  PROVE  ListInv'
<1>1. UNCHANGED <<tail, list, next, heads, hasSchedule, parsed, memberOf>>
  OBVIOUS
<1>2. OnePerSchedule' <=> OnePerSchedule
  BY <1>1, SameMembers
<1>3. CASE UNCHANGED <<pc, cur>>
  <2>1. FileInv'
    BY <1>1, <1>3 DEF ListInv, FileInv, InSection, InFile, Parsed
  <2>2. OnePerSchedule => GoodInv'
    BY <1>1, <1>3 DEF ListInv, GoodInv, LinkedTo, Parsed
  <2>3. ~OnePerSchedule => BadInv'
    BY <1>1, <1>3 DEF ListInv, BadInv, Loading, InSection, Endless, Closed, Linked, LinkedTo, Parsed
  <2>4. QED
    BY <1>2, <2>1, <2>2, <2>3 DEF ListInv
<1>4. CASE pc \in {"test", "idle", "exec"} /\ pc' \in {"test", "idle", "exec"}
  <2>1. OnePerSchedule
    BY <1>4 DEF ListInv, BadInv, Loading
  <2>2. FileInv'
    BY <1>1, <1>4 DEF ListInv, FileInv, InSection, InFile, Parsed
  <2>3. GoodInv'
    BY <1>1, <1>4, <2>1 DEF ListInv, GoodInv, LinkedTo, Parsed
  <2>4. QED
    BY <1>2, <2>1, <2>2, <2>3 DEF ListInv
<1>5. QED
  BY <1>3, <1>4

LEMMA ListScheduleLine ==
  ASSUME TypeInv, ListInv, NEW s \in Named, ScheduleLine(s)
  PROVE  ListInv'
<1>F. /\ Len(parsed) \in Nat /\ NoWrite \notin Writes
      /\ \A k \in 1 .. Len(parsed) : parsed[k] \in Writes
      /\ s # Default /\ s # Global /\ s \in Scheds /\ s \in Lists
      /\ memberOf \in [Writes -> SUBSET Scheds]
      /\ heads \in [Lists -> Writes \cup {NoWrite}] /\ Global \in Lists /\ Scheds \subseteq Lists
      /\ Global \notin Scheds
  BY FileTypes DEF Lists
<1>1. /\ pc = "write" /\ cur \in Writes /\ ~Parsed(cur)
      /\ memberOf' = [memberOf EXCEPT ![cur] = @ \cup {s}]
      /\ hasSchedule' = [hasSchedule EXCEPT ![cur] = @ + 1]
      /\ list' = s
      /\ UNCHANGED <<cur, next, parsed>>
  BY DEF ScheduleLine, Append1, TypeInv, ListInv, FileInv, InSection
<1>2. \/ heads[s] = NoWrite /\ heads' = [heads EXCEPT ![s] = cur] /\ pc' = "write"
      \/ heads[s] # NoWrite /\ heads' = heads /\ pc' = "append" /\ tail' = heads[s] /\ tail' \in Writes
  BY <1>F DEF ScheduleLine, Append1, After
<1>3. /\ OnePerSchedule' => OnePerSchedule
      /\ OnePerSchedule /\ (\A x \in Writes : s \notin memberOf[x]) => OnePerSchedule'
      /\ OnePerSchedule' => \A x \in Writes : s \notin memberOf[x]
      /\ \A x \in Writes : /\ IsFiniteSet(memberOf'[x])
                           /\ hasSchedule'[x] >= Cardinality(memberOf'[x] \ {Default})
  BY <1>F, <1>1, Membership DEF ListInv
<1>4. \A x \in Writes : memberOf'[x] = IF x = cur THEN memberOf[x] \cup {s} ELSE memberOf[x]
  BY <1>F, <1>1
<1>5. IF heads[s] = NoWrite THEN \A x \in Writes : s \notin memberOf[x]
                            ELSE s \in memberOf[heads[s]] /\ heads[s] \in Writes
  BY <1>F DEF ListInv, FileInv
<1>6. heads[s] # NoWrite => heads[s] = cur \/ \E k \in 1 .. Len(parsed) : heads[s] = parsed[k]
  BY <1>1, <1>5 DEF ListInv, FileInv, InSection, Parsed
<1>7. \A t \in Scheds : IF heads'[t] = NoWrite THEN \A x \in Writes : t \notin memberOf'[x]
                        ELSE t \in memberOf'[heads'[t]]
  <2> TAKE t \in Scheds
  <2>1. IF heads[t] = NoWrite THEN \A x \in Writes : t \notin memberOf[x]
                              ELSE t \in memberOf[heads[t]]
    BY DEF ListInv, FileInv
  <2>2. CASE t = s
    BY <1>F, <1>1, <1>2, <1>4, <1>5, <2>2
  <2>3. CASE t # s
    BY <1>F, <1>1, <1>2, <1>4, <2>1, <2>3
  <2>4. QED
    BY <2>2, <2>3
<1>8. heads'[Global] = heads[Global]
  BY <1>F, <1>2
<1>9. FileInv'
  <2>1. FileInv
    BY DEF ListInv
  <2>2. \A x \in Writes : Default \notin memberOf'[x]
    BY <1>F, <1>1, <1>4, <2>1 DEF FileInv, InFile
  <2>4. \A x \in Writes : memberOf'[x] # {} => Parsed(x)' \/ x = cur'
    BY <1>1, <1>4, <2>1 DEF FileInv, InSection, Parsed
  <2>5. InSection'
    BY <1>1, <1>2 DEF InSection
  <2>6. \A x \in Writes : next'[x] # NoWrite => Parsed(next[x])' \/ next'[x] = cur'
    BY <1>1, <2>1 DEF FileInv, InSection, Parsed
  <2>7. /\ \A j, k \in 1 .. Len(parsed') : parsed'[j] = parsed'[k] => j = k
        /\ cur' \in Writes /\ ~Parsed(cur)'
        /\ IF Len(parsed') > 0 THEN heads'[Global] = parsed'[1] ELSE heads'[Global] = NoWrite
    BY <1>1, <1>8, <2>1 DEF FileInv, Parsed
  <2>8. ~(pc' \in {"default", "defaultNext"} \/ (pc' = "append" /\ list' \in {Default, Global}))
    BY <1>1, <1>2, <1>F
  <2>9. pc' = "append" => tail' \in Writes
    BY <1>2
  <2>10. QED
    BY <1>3, <1>7, <2>2, <2>4, <2>5, <2>6, <2>7, <2>8, <2>9 DEF FileInv
<1>10. ASSUME OnePerSchedule'
       PROVE  GoodInv'
  <2>1. GoodInv /\ heads[s] = NoWrite
    BY <1>3, <1>5, <1>10 DEF ListInv
  <2>2. pc' = "write"
    BY <1>2, <2>1
  <2>3. LinkedTo(Len(parsed))'
    BY <1>1, <2>1 DEF GoodInv, LinkedTo, Parsed
  <2>4. QED
    BY <2>2, <2>3 DEF GoodInv
<1>11. ASSUME ~OnePerSchedule'
       PROVE  BadInv'
  <2>1. pc' = "append" => tail' = cur \/ \E k \in 1 .. Len(parsed) : tail' = parsed[k]
    BY <1>2, <1>6
  <2>2. CASE OnePerSchedule
    <3>1. heads[s] # NoWrite
      BY <1>3, <1>5, <1>11, <2>2
    <3>2. pc' = "append"
      BY <1>2, <3>1
    <3>3. LinkedTo(Len(parsed))
      BY <1>1, <2>2 DEF ListInv, GoodInv
    <3>4. /\ \A k \in 1 .. Len(parsed) - 1 : next[parsed[k]] = parsed[k + 1]
          /\ Len(parsed) > 0 => next[parsed[Len(parsed)]] = NoWrite
          /\ next[cur] = NoWrite
      <4>1. \A k \in 1 .. Len(parsed) - 1 : k \in 1 .. Len(parsed) /\ k < Len(parsed)
        BY <1>F
      <4>2. Len(parsed) > 0 => Len(parsed) \in 1 .. Len(parsed) /\ ~(Len(parsed) < Len(parsed))
        BY <1>F
      <4>3. \A k \in 1 .. Len(parsed) - 1 : next[parsed[k]] = parsed[k + 1]
        BY <3>3, <4>1 DEF LinkedTo
      <4>4. Len(parsed) > 0 => next[parsed[Len(parsed)]] = NoWrite
        BY <3>3, <4>2 DEF LinkedTo
      <4>5. QED
        BY <1>1, <3>3, <4>3, <4>4 DEF LinkedTo
    <3>5. Linked(Len(parsed))'
      BY <1>1, <3>4 DEF Linked
    <3>6. QED
      BY <1>1, <1>F, <2>1, <3>2, <3>5 DEF BadInv, Loading, InSection
  <2>3. CASE ~OnePerSchedule
    <3>1. \/ Endless(heads[Global])
          \/ /\ Linked(Len(parsed))
             /\ next[cur] = cur \/ (Len(parsed) > 0 /\ next[parsed[Len(parsed)]] = cur)
      BY <1>1, <2>3 DEF ListInv, BadInv, InSection
    <3>2. \/ Endless(heads[Global])'
          \/ /\ Linked(Len(parsed))'
             /\ next[cur] = cur \/ (Len(parsed) > 0 /\ next[parsed[Len(parsed)]] = cur)
      BY <1>1, <1>8, <3>1 DEF Endless, Closed, Linked
    <3>3. QED
      BY <1>F, <1>1, <1>2, <2>1, <3>2 DEF BadInv, Loading, InSection
  <2>4. QED
    BY <2>2, <2>3
<1>12. QED
  BY <1>9, <1>10, <1>11 DEF ListInv

LEMMA ListEndWrite ==
  ASSUME TypeInv, ListInv, EndWrite
  PROVE  ListInv'
<1> DEFINE N == Len(parsed)
<1>F. /\ N \in Nat /\ NoWrite \notin Writes /\ parsed \in Seq(Writes)
      /\ \A k \in 1 .. N : parsed[k] \in Writes
      /\ heads \in [Lists -> Writes \cup {NoWrite}] /\ Global \in Lists
      /\ Global \notin Named /\ Global # Default /\ Global \notin Scheds
  BY FileTypes DEF Lists
<1>1. /\ pc = "write" /\ cur \in Writes /\ ~Parsed(cur)
      /\ parsed' = Append(parsed, cur) /\ list' = Global
      /\ UNCHANGED <<cur, next, hasSchedule, memberOf>>
  BY DEF EndWrite, Append1, TypeInv, ListInv, FileInv, InSection
<1>2. /\ Len(parsed') = N + 1 /\ parsed'[N + 1] = cur
      /\ \A k \in 1 .. N : parsed'[k] = parsed[k]
  BY <1>F, <1>1
<1>3. /\ \A k \in 1 .. N : parsed[k] # cur
      /\ \A x \in Writes : Parsed(x)' <=> Parsed(x) \/ x = cur
  BY <1>F, <1>1, <1>2 DEF Parsed
<1>4. IF N > 0 THEN heads[Global] = parsed[1] ELSE heads[Global] = NoWrite
  BY DEF ListInv, FileInv
<1>5. IF N = 0
      THEN heads' = [heads EXCEPT ![Global] = cur] /\ pc' = "sections"
      ELSE heads' = heads /\ pc' = "append" /\ tail' = parsed[1] /\ heads[Global] = parsed[1]
  BY <1>F, <1>4 DEF EndWrite, Append1, After
<1>6. \A t \in Scheds : heads'[t] = heads[t]
  BY <1>F, <1>5 DEF Lists
<1>7. FileInv'
  <2>1. FileInv
    BY DEF ListInv
  <2>2. \A j, k \in 1 .. Len(parsed') : parsed'[j] = parsed'[k] => j = k
    BY <1>F, <1>2, <1>3, <2>1 DEF FileInv
  <2>3. ~InSection' /\ ~(pc' \in {"default", "defaultNext"} \/ (pc' = "append" /\ list' = Default))
    BY <1>1, <1>5, <1>F DEF InSection
  <2>4. /\ pc' = "append" => cur' \in Writes /\ tail' \in Writes
        /\ pc' = "append" => Len(parsed') > 1 /\ cur' = parsed'[Len(parsed')]
    BY <1>F, <1>1, <1>2, <1>5
  <2>5. /\ \A x \in Writes : memberOf'[x] # {} => Parsed(x)'
        /\ \A x \in Writes : next'[x] # NoWrite => Parsed(next[x])'
    <3>1. \A x \in Writes : next[x] # NoWrite => next[x] \in Writes
      BY FileTypes
    <3>2. QED
      BY <1>1, <1>3, <2>1, <3>1 DEF FileInv, InSection
  <2>6. heads'[Global] = parsed'[1] /\ Len(parsed') > 0
    <3>1. CASE N = 0
      BY <1>F, <1>2, <1>5, <3>1
    <3>2. CASE N > 0
      BY <1>F, <1>2, <1>5, <3>2
    <3>3. QED
      BY <1>F, <3>1, <3>2
  <2>7. \A s \in Scheds : IF heads'[s] = NoWrite THEN \A x \in Writes : s \notin memberOf'[x]
                          ELSE s \in memberOf'[heads'[s]]
    BY <1>1, <1>6, <2>1 DEF FileInv
  <2>8. \A x \in Writes : /\ Default \notin memberOf'[x] /\ IsFiniteSet(memberOf'[x])
                         /\ hasSchedule'[x] >= Cardinality(memberOf'[x] \ {Default})
    BY <1>1, <2>1 DEF FileInv, InFile
  <2>9. QED
    BY <2>2, <2>3, <2>4, <2>5, <2>6, <2>7, <2>8 DEF FileInv
<1>8. OnePerSchedule' <=> OnePerSchedule
  BY <1>1, SameMembers
<1>9. ASSUME OnePerSchedule
      PROVE  GoodInv'
  <2>1. LinkedTo(N)
    BY <1>1, <1>9 DEF ListInv, GoodInv
  <2>2. \A k \in 1 .. N : IF k < N THEN next'[parsed'[k]] = parsed'[k + 1]
                                    ELSE next'[parsed'[k]] = NoWrite
    BY <1>F, <1>1, <1>2, <2>1 DEF LinkedTo
  <2>3. next'[parsed'[N + 1]] = NoWrite
    BY <1>1, <1>2, <2>1 DEF LinkedTo
  <2>4. \A x \in Writes : ~Parsed(x)' => next'[x] = NoWrite
    BY <1>1, <1>3, <2>1 DEF LinkedTo
  <2>5. CASE N = 0
    <3>1. pc' = "sections" /\ Len(parsed') = 1 /\ parsed'[1] = cur /\ next'[cur] = NoWrite
      BY <1>1, <1>2, <1>5, <2>3, <2>5
    <3>2. LinkedTo(Len(parsed))'
      BY <1>1, <2>4, <3>1 DEF LinkedTo
    <3>3. QED
      BY <3>1, <3>2 DEF GoodInv
  <2>6. CASE N > 0
    <3>1. pc' = "append" /\ tail' = parsed'[1] /\ Len(parsed') - 1 = N /\ Len(parsed') = N + 1
      BY <1>F, <1>2, <1>5, <2>6
    <3>2. \A k \in 1 .. N + 1 : IF k < N THEN next'[parsed'[k]] = parsed'[k + 1]
                                         ELSE next'[parsed'[k]] = NoWrite
      BY <1>F, <2>2, <2>3
    <3> HIDE DEF N
    <3>3. LinkedTo(Len(parsed) - 1)'
      BY <2>4, <3>1, <3>2 DEF LinkedTo
    <3>4. 1 \in 1 .. N
      BY <1>F, <2>6
    <3>5. QED
      BY <1>1, <3>1, <3>3, <3>4 DEF GoodInv
  <2>7. QED
    BY <1>F, <2>5, <2>6
<1>10. ASSUME ~OnePerSchedule
       PROVE  BadInv'
  <2>1. \/ Endless(heads[Global])
        \/ /\ Linked(N)
           /\ next[cur] = cur \/ (N > 0 /\ next[parsed[N]] = cur)
    BY <1>1, <1>10 DEF ListInv, BadInv, InSection
  <2>2. CASE N = 0
    <3>1. next[cur] = cur /\ heads'[Global] = cur /\ pc' = "sections"
      <4>1. ~Endless(heads[Global])
        BY <1>F, <1>4, <2>2 DEF Endless
      <4>2. QED
        BY <1>F, <1>5, <2>1, <2>2, <4>1
    <3>2. Endless(heads[Global])'
      <4>1. {cur} \in SUBSET Writes /\ cur \in {cur} /\ \A z \in {cur} : next'[z] \in {cur}
        BY <1>1, <3>1
      <4>2. QED
        BY <3>1, <4>1 DEF Endless, Closed
    <3>3. QED
      BY <3>1, <3>2 DEF BadInv, Loading, InSection
  <2>3. CASE N > 0
    <3>1. /\ pc' = "append" /\ tail' = parsed[1] /\ heads[Global] = parsed[1] /\ tail' = parsed'[1]
          /\ Len(parsed') = N + 1 /\ Len(parsed') - 1 = N
      BY <1>F, <1>2, <1>5, <2>3
    <3>2. CASE Endless(heads[Global])
      <4>1. Endless(tail)'
        BY <1>1, <3>1, <3>2 DEF Endless, Closed
      <4>2. QED
        BY <1>1, <1>F, <3>1, <4>1 DEF BadInv, Loading, InSection
    <3>3. CASE /\ Linked(N)
               /\ next[cur] = cur \/ next[parsed[N]] = cur
      <4>1. /\ \A k \in 1 .. N - 1 : next'[parsed'[k]] = parsed'[k + 1]
            /\ next'[parsed'[N]] = next[parsed[N]]
            /\ next[parsed[N]] \in {NoWrite, cur}
            /\ next[cur] \in {NoWrite, cur}
        BY <1>F, <1>1, <1>2, <2>3, <3>3 DEF Linked
      <4>2. /\ next'[cur'] = cur' \/ next'[parsed'[N]] = cur'
            /\ \E k \in 1 .. N + 1 : tail' = parsed'[k]
        <5>1. next'[cur'] = cur' \/ next'[parsed'[N]] = cur'
          BY <1>1, <3>3, <4>1
        <5>2. 1 \in 1 .. N + 1 /\ tail' = parsed'[1]
          BY <1>F, <3>1
        <5>3. QED
          BY <5>1, <5>2
      <4> HIDE DEF N
      <4>3. Linked(Len(parsed) - 1)'
        BY <1>1, <3>1, <4>1 DEF Linked
      <4>4. QED
        BY <1>1, <1>F, <3>1, <4>2, <4>3 DEF BadInv, Loading, InSection
    <3>4. QED
      BY <2>1, <2>3, <3>2, <3>3
  <2>4. QED
    BY <1>F, <2>2, <2>3
<1>11. QED
  BY <1>7, <1>8, <1>9, <1>10 DEF ListInv

LEMMA ListDefaultAdd ==
  ASSUME TypeInv, ListInv, DefaultAdd
  PROVE  ListInv'
<1>F. /\ Len(parsed) \in Nat /\ NoWrite \notin Writes
      /\ \A k \in 1 .. Len(parsed) : parsed[k] \in Writes
      /\ Default \in Scheds /\ Default \in Lists /\ Default # Global /\ Default \notin Named
      /\ memberOf \in [Writes -> SUBSET Scheds]
      /\ heads \in [Lists -> Writes \cup {NoWrite}] /\ Global \in Lists /\ Scheds \subseteq Lists
      /\ Global \notin Scheds
  BY FileTypes DEF Lists
<1>1. /\ pc = "default" /\ cur \in Writes /\ cur # NoWrite
      /\ memberOf' = [memberOf EXCEPT ![cur] = @ \cup {Default}]
      /\ hasSchedule' = hasSchedule
      /\ list' = Default
      /\ UNCHANGED <<cur, next, parsed>>
  BY DEF DefaultAdd, Append1, TypeInv, STypeOK
<1>2. \/ /\ heads[Default] = NoWrite /\ heads' = [heads EXCEPT ![Default] = cur]
         /\ pc' = "defaultNext"
      \/ /\ heads[Default] # NoWrite /\ heads' = heads /\ pc' = "append"
         /\ tail' = heads[Default] /\ tail' \in Writes
  BY <1>F DEF DefaultAdd, Append1, After
<1>3. /\ OnePerSchedule' => OnePerSchedule
      /\ OnePerSchedule /\ (\A x \in Writes : Default \notin memberOf[x]) => OnePerSchedule'
      /\ OnePerSchedule' => \A x \in Writes : Default \in memberOf[x] => x = cur
      /\ \A x \in Writes : /\ IsFiniteSet(memberOf'[x])
                           /\ hasSchedule'[x] >= Cardinality(memberOf'[x] \ {Default})
  BY <1>F, <1>1, Membership DEF ListInv
<1>4. \A x \in Writes : memberOf'[x] = IF x = cur THEN memberOf[x] \cup {Default} ELSE memberOf[x]
  BY <1>F, <1>1
<1>5. Parsed(cur)
  BY <1>1 DEF ListInv, FileInv
<1>6. IF heads[Default] = NoWrite THEN \A x \in Writes : Default \notin memberOf[x]
      ELSE Default \in memberOf[heads[Default]] /\ heads[Default] \in Writes
  BY <1>F DEF ListInv, FileInv
<1>7. heads[Default] # NoWrite => Parsed(heads[Default])
  BY <1>1, <1>6 DEF ListInv, FileInv, InSection
<1>8. \A t \in Scheds : IF heads'[t] = NoWrite THEN \A x \in Writes : t \notin memberOf'[x]
                        ELSE t \in memberOf'[heads'[t]]
  <2> TAKE t \in Scheds
  <2>1. IF heads[t] = NoWrite THEN \A x \in Writes : t \notin memberOf[x]
                              ELSE t \in memberOf[heads[t]]
    BY DEF ListInv, FileInv
  <2>2. CASE t = Default
    BY <1>F, <1>1, <1>2, <1>4, <1>6, <2>2
  <2>3. CASE t # Default
    BY <1>F, <1>1, <1>2, <1>4, <2>1, <2>3
  <2>4. QED
    BY <2>2, <2>3
<1>9. heads'[Global] = heads[Global]
  BY <1>F, <1>2
<1>10. FileInv'
  <2>1. FileInv
    BY DEF ListInv
  <2>2. ~InSection' /\ ~InFile' /\ ~(pc' = "append" /\ list' = Global)
    BY <1>1, <1>2, <1>F DEF InSection, InFile
  <2>3. /\ \A x \in Writes : memberOf'[x] # {} => Parsed(x)'
        /\ \A x \in Writes : next'[x] # NoWrite => Parsed(next[x])'
        /\ Parsed(cur)'
    BY <1>1, <1>4, <1>5, <2>1 DEF FileInv, InSection, Parsed
  <2>4. /\ \A j, k \in 1 .. Len(parsed') : parsed'[j] = parsed'[k] => j = k
        /\ cur' \in Writes
        /\ IF Len(parsed') > 0 THEN heads'[Global] = parsed'[1] ELSE heads'[Global] = NoWrite
    BY <1>1, <1>9, <2>1 DEF FileInv
  <2>5. pc' = "append" => tail' \in Writes
    BY <1>2
  <2>6. QED
    BY <1>3, <1>8, <2>2, <2>3, <2>4, <2>5 DEF FileInv
<1>11. ASSUME OnePerSchedule
       PROVE  /\ LinkedTo(Len(parsed))
              /\ \E p \in 1 .. Len(parsed) :
                   /\ cur = parsed[p]
                   /\ \A x \in Writes : Default \in memberOf[x] =>
                        \E j \in 1 .. p : parsed[j] = x /\ j < p
              /\ Default \notin memberOf[cur]
  <2>1. GoodInv
    BY <1>11 DEF ListInv
  <2>2. PICK p \in 1 .. Len(parsed) :
          /\ cur = parsed[p]
          /\ \A x \in Writes : Default \in memberOf[x] => \E j \in 1 .. p : parsed[j] = x /\ j < p
    BY <1>1, <2>1 DEF GoodInv
  <2>3. Default \notin memberOf[cur]
    <3>1. \A j \in 1 .. p : j < p => parsed[j] # parsed[p]
      BY <1>F DEF ListInv, FileInv
    <3>2. QED
      BY <1>1, <2>2, <3>1
  <2>4. QED
    BY <1>1, <2>1, <2>2, <2>3 DEF GoodInv
<1>12. ASSUME OnePerSchedule'
       PROVE  GoodInv'
  <2>1. OnePerSchedule /\ heads[Default] = NoWrite
    BY <1>3, <1>6, <1>11, <1>12
  <2>2. pc' = "defaultNext"
    BY <1>2, <2>1
  <2>3. LinkedTo(Len(parsed))'
    BY <1>1, <1>11, <2>1 DEF LinkedTo, Parsed
  <2>4. PICK p \in 1 .. Len(parsed) :
          /\ cur = parsed[p]
          /\ \A x \in Writes : Default \in memberOf[x] => \E j \in 1 .. p : parsed[j] = x /\ j < p
    BY <1>11, <2>1
  <2>5. \A x \in Writes : Default \in memberOf'[x] => \E j \in 1 .. p : parsed[j] = x
    <3>1. p \in 1 .. p
      BY <1>F
    <3>2. QED
      BY <1>4, <2>4, <3>1
  <2>6. QED
    BY <1>1, <2>2, <2>3, <2>4, <2>5 DEF GoodInv
<1>13. ASSUME ~OnePerSchedule'
       PROVE  BadInv'
  <2>1. CASE OnePerSchedule
    <3>1. heads[Default] # NoWrite
      BY <1>3, <1>6, <1>13, <2>1
    <3>2. pc' = "append" /\ tail' = heads[Default]
      BY <1>2, <3>1
    <3>3. LinkedTo(Len(parsed))'
      BY <1>1, <1>11, <2>1 DEF LinkedTo, Parsed
    <3>4. /\ \E k \in 1 .. Len(parsed) : tail' = parsed[k]
          /\ \E k \in 1 .. Len(parsed) : cur = parsed[k]
      BY <1>5, <1>7, <3>1, <3>2 DEF Parsed
    <3>5. QED
      BY <1>1, <1>F, <3>2, <3>3, <3>4 DEF BadInv, Loading, InSection
  <2>2. CASE ~OnePerSchedule
    <3>1. Endless(cur)
      BY <1>1, <2>2 DEF ListInv, BadInv
    <3>2. Endless(cur)'
      BY <1>1, <3>1 DEF Endless, Closed
    <3>3. QED
      BY <1>1, <1>2, <1>F, <3>2 DEF BadInv, Loading, InSection
  <2>3. QED
    BY <2>1, <2>2
<1>14. QED
  BY <1>10, <1>12, <1>13 DEF ListInv

LEMMA ListStep ==
  ASSUME TypeInv, ListInv, [SNext]_svars
  PROVE  ListInv'
<1>1. CASE Load
  BY <1>1, ListWalkOn, ListLinkAtEnd, ListBeginWrite, ListScheduleLine, ListEndWrite,
     ListEndOfFile, ListDefaultAdd, ListDefaultNext, ListDefaultDone DEF Load
<1>2. CASE Tick \/ Round
  <2>1. /\ pc \in {"test", "idle", "exec"} /\ pc' \in {"test", "idle", "exec"}
        /\ UNCHANGED <<tail, list, next, heads, hasSchedule, parsed, memberOf>>
    BY <1>2 DEF Tick, Round, loadVars
  <2>2. QED
    BY <2>1, ListKept
<1>3. CASE Run
  <2>1. pc \in {"test", "exec"}
    BY <1>3 DEF Run, NextList, SkipWrite, CallWrite, InWrite, WriteBack, Executing, TypeInv,
                WriteStep, WriteReturned, Condition, Open, ItemError, ItemSkipped, ItemWritten,
                ItemsDone, AtItem
  <2>2. /\ pc' \in {"test", "idle", "exec"}
        /\ UNCHANGED <<tail, list, next, heads, hasSchedule, parsed, memberOf>>
    BY <1>3, <2>1 DEF Run, NextList, SkipWrite, CallWrite, InWrite, WriteBack, loadVars
  <2>3. QED
    BY <2>1, <2>2, ListKept
<1>4. CASE Exited \/ UNCHANGED svars
  BY <1>4, ListKept DEF Exited, svars, loadVars
<1>5. QED
  BY <1>1, <1>2, <1>3, <1>4 DEF SNext

(* A definition is followed by the next one of the file as long as no      *)
(* schedule has two definitions.                                           *)
THEOREM LinksAreTheFile == SSpec => []ListsFollowFile
<1>1. SInit => TypeInv /\ ListInv
  BY TypeInit, ListInit
<1>2. TypeInv /\ ListInv /\ [SNext]_svars => (TypeInv /\ ListInv)'
  BY TypeStep, ListStep
<1>3. TypeInv /\ ListInv => ListsFollowFile
  <2> SUFFICES ASSUME TypeInv, ListInv, OnePerSchedule, NEW x \in Writes, next[x] # NoWrite
               PROVE  \E k \in 1 .. Len(parsed) - 1 : parsed[k] = x /\ parsed[k + 1] = next[x]
    BY DEF ListsFollowFile
  <2>1. \E n \in Nat : n <= Len(parsed) /\ LinkedTo(n)
    <3>1. GoodInv /\ Len(parsed) \in Nat
      BY FileTypes DEF ListInv
    <3>2. CASE pc = "append"
      <4>1. Len(parsed) - 1 \in Nat /\ Len(parsed) - 1 <= Len(parsed) /\ LinkedTo(Len(parsed) - 1)
        BY <3>1, <3>2 DEF GoodInv
      <4>2. QED
        BY <4>1
    <3>3. CASE pc # "append"
      BY <3>1, <3>3 DEF GoodInv
    <3>4. QED
      BY <3>2, <3>3
  <2>2. PICK n \in Nat : n <= Len(parsed) /\ LinkedTo(n)
    BY <2>1
  <2>3. PICK k \in 1 .. Len(parsed) : parsed[k] = x
    BY <2>2 DEF LinkedTo, Parsed
  <2>4. k < n /\ next[x] = parsed[k + 1]
    BY <2>2, <2>3 DEF LinkedTo
  <2>5. k \in 1 .. Len(parsed) - 1
    BY <2>2, <2>3, <2>4, FileTypes
  <2>6. QED
    BY <2>3, <2>4, <2>5
<1>4. QED
  BY <1>1, <1>2, <1>3, PTL DEF SSpec

(* The program never starts with two writes in one schedule.               *)
THEOREM TwoWritesNeverStart == SSpec => []StartedMeansOnePerSchedule
<1>1. SInit => TypeInv /\ ListInv
  BY TypeInit, ListInit
<1>2. TypeInv /\ ListInv /\ [SNext]_svars => (TypeInv /\ ListInv)'
  BY TypeStep, ListStep
<1>3. ListInv => StartedMeansOnePerSchedule
  BY DEF ListInv, BadInv, Loading, StartedMeansOnePerSchedule
<1>4. QED
  BY <1>1, <1>2, <1>3, PTL DEF SSpec

-----------------------------------------------------------------------------
(* The rounds.                                                             *)

(* The lists once the program has started.                                 *)
LEMMA Started ==
  ASSUME TypeInv, ListInv, pc \in {"default", "test", "idle", "exec"}
  PROVE  /\ \A s \in Scheds : heads[s] # NoWrite =>
              heads[s] \in Writes /\ s \in memberOf[heads[s]] /\ Parsed(heads[s])
         /\ pc # "default" =>
              /\ \A k \in 1 .. Len(parsed) : IF k < Len(parsed) THEN next[parsed[k]] = parsed[k + 1]
                                             ELSE next[parsed[k]] = NoWrite
              /\ \A s \in Scheds : \A x \in Writes : s \in memberOf[x] => x = heads[s]
<1>1. \A s \in Scheds : heads[s] # NoWrite =>
        heads[s] \in Writes /\ s \in memberOf[heads[s]] /\ Parsed(heads[s])
  BY FileTypes DEF ListInv, FileInv, InSection, Lists, Scheds
<1>2. ASSUME pc # "default"
      PROVE  OnePerSchedule /\ LinkedTo(Len(parsed))
  BY <1>2 DEF ListInv, BadInv, GoodInv, Loading
<1>3. ASSUME pc # "default", NEW s \in Scheds, NEW x \in Writes, s \in memberOf[x]
      PROVE  x = heads[s]
  <2>1. heads[s] # NoWrite
    BY <1>3 DEF ListInv, FileInv
  <2>2. QED
    BY <1>1, <1>2, <1>3, <2>1 DEF OnePerSchedule
<1>4. QED
  BY <1>1, <1>2, <1>3 DEF LinkedTo

LEMMA MarkedFollow ==
  ASSUME TypeInv, ListInv, pc = "idle", NEW x \in Writes, Marked(x)
  PROVE  \E y \in Writes : memberOf[y] \cap Due # {} /\ Before(y, x)
<1>1. PICK s \in Due : heads[s] # NoWrite /\ x \in ListFrom(heads[s])
  BY DEF Marked
<1> DEFINE y == heads[s]
           S == {z \in Writes : Before(y, z)}
<1>2. s \in Scheds /\ y \in Writes /\ s \in memberOf[y] /\ Parsed(y)
  BY <1>1, Started DEF Due
<1>3. /\ \A k \in 1 .. Len(parsed) : /\ parsed[k] \in Writes
                                     /\ IF k < Len(parsed) THEN next[parsed[k]] = parsed[k + 1]
                                        ELSE next[parsed[k]] = NoWrite
      /\ Len(parsed) \in Nat
  BY Started, FileTypes
<1>4. y \in S
  BY <1>2, <1>3 DEF Parsed, Before
<1>5. ASSUME NEW z \in S
      PROVE  next[z] \in S \cup {NoWrite}
  <2>1. PICK j \in 1 .. Len(parsed), k \in 1 .. Len(parsed) : j <= k /\ parsed[j] = y /\ parsed[k] = z
    BY <1>5 DEF Before
  <2>2. CASE k < Len(parsed)
    <3>1. k + 1 \in 1 .. Len(parsed) /\ j <= k + 1 /\ next[z] = parsed[k + 1]
      BY <1>3, <2>1, <2>2
    <3>2. parsed[k + 1] \in Writes /\ Before(y, parsed[k + 1])
      BY <1>3, <2>1, <3>1 DEF Before
    <3>3. QED
      BY <3>1, <3>2
  <2>3. CASE k = Len(parsed)
    BY <1>3, <2>1, <2>3
  <2>4. QED
    BY <1>3, <2>2, <2>3
<1>6. x \in S
  <2>1. S \in SUBSET Writes
    OBVIOUS
  <2> HIDE DEF S
  <2>2. QED
    BY <1>1, <1>4, <1>5, <2>1 DEF ListFrom
<1>7. QED
  BY <1>1, <1>2, <1>6

LEMMA RoundInit == SInit => RoundInv
BY TabTypes DEF SInit, RoundInv, Loading

LEMMA RoundStep ==
  ASSUME TypeInv, ListInv, RoundInv, [SNext]_svars
  PROVE  RoundInv'
<1>F. /\ Len(parsed) \in Nat /\ NoWrite \notin Writes
      /\ \A k \in 1 .. Len(parsed) : parsed[k] \in Writes
      /\ \A j, k \in 1 .. Len(parsed) : parsed[j] = parsed[k] => j = k
      /\ ran \in [Writes -> Nat] /\ isDue \in [Writes -> BOOLEAN]
      /\ i \in 1 .. Len(CronTab) /\ Len(CronTab) \in Nat
      /\ \A j \in 1 .. Len(CronTab) : CronTab[j] \in Scheds
  BY FileTypes, TabTypes DEF TypeInv, STypeOK, ListInv, FileInv
<1>1. CASE UNCHANGED <<wpc, pc, loadVars, i, isDue, dueNow, ran>>
  BY <1>1 DEF RoundInv, Loading, Before, Parsed, loadVars
<1>2. CASE Load
  <2>1. Loading /\ UNCHANGED <<isDue, ran, wvars>>
    BY <1>2 DEF Load, WalkOn, LinkAtEnd, BeginWrite, ScheduleLine, EndWrite, EndOfFile,
                DefaultAdd, DefaultNext, DefaultDone, Loading, roundVars
  <2>2. \A x \in Writes : ran'[x] = 0 /\ ~isDue'[x]
    BY <2>1 DEF RoundInv
  <2>3. pc' # "exec" /\ (pc' = "test" => DefaultDone)
    <3>1. After(list) \in {"sections", "write", "defaultNext"}
          /\ \A l \in Lists : After(l) \in {"sections", "write", "defaultNext"}
      BY DEF After
    <3>2. \A l \in Lists : Append1(l) => pc' \in {"sections", "write", "defaultNext", "append"}
      BY <3>1 DEF Append1
    <3>3. Global \in Lists /\ Default \in Lists /\ \A s \in Named : s \in Lists
      BY DEF Lists, Scheds
    <3>4. ~DefaultDone => pc' \in {"sections", "write", "append", "default", "defaultNext"}
      BY <1>2, <3>1, <3>2, <3>3 DEF Load, WalkOn, LinkAtEnd, BeginWrite, ScheduleLine,
         EndWrite, EndOfFile, DefaultAdd, DefaultNext
    <3>5. DefaultDone => pc' = "test"
      BY DEF DefaultDone
    <3>6. QED
      BY <3>4, <3>5
  <2>4. pc' = "test" => cur' = NoWrite \/ Parsed(cur)'
    <3> SUFFICES ASSUME DefaultDone
                 PROVE  cur' = NoWrite \/ Parsed(cur)'
      BY <2>3
    <3>1. pc = "default" /\ cur' = heads[CronTab[1]] /\ parsed' = parsed
      BY DEF DefaultDone
    <3>2. CronTab[1] \in Scheds
      BY TabTypes
    <3>3. QED
      BY <3>1, <3>2, Started DEF Parsed
  <2>5. QED
    BY <1>F, <2>2, <2>3, <2>4 DEF RoundInv
<1>3. CASE Tick
  BY <1>1, <1>3 DEF Tick
<1>4. CASE Round
  <2>1. /\ pc = "idle" /\ dueNow' = Due /\ \A x \in Writes : ran'[x] = 0 /\ (isDue'[x] <=> Marked(x))
        /\ UNCHANGED <<wpc, next, heads, parsed, memberOf>>
        /\ \/ pc' = "idle"
           \/ pc' = "exec" /\ i' = 1 /\ cur' = heads[CronTab[1]]
    BY <1>4 DEF Round, wvars
  <2>2. \A x \in Writes : isDue'[x] \/ ran'[x] > 0 =>
          \E y \in Writes : memberOf'[y] \cap dueNow' # {} /\ Before(y, x)'
    <3> SUFFICES ASSUME NEW x \in Writes, Marked(x)
                 PROVE  \E y \in Writes : memberOf[y] \cap Due # {} /\ Before(y, x)'
      BY <2>1
    <3>1. PICK y \in Writes : memberOf[y] \cap Due # {} /\ Before(y, x)
      BY <2>1, MarkedFollow
    <3>2. QED
      BY <2>1, <3>1 DEF Before
  <2>3. ASSUME pc' = "exec"
        PROVE  /\ wpc' = "idle"
               /\ cur' = NoWrite \/ Parsed(cur)'
               /\ \A s \in dueNow' : heads'[s] # NoWrite => isDue'[heads'[s]]
               /\ \A j \in 1 .. i' : LET h == heads'[CronTab[j]]
                    IN h # NoWrite /\ isDue'[h] => ran'[h] > 0 \/ (j = i' /\ cur' = h)
               /\ \A k \in 1 .. Len(parsed') : ran'[parsed'[k]] <= i' - 1
    <3>1. i' = 1 /\ cur' = heads[CronTab[1]] /\ wpc = "idle"
      BY <2>1, <2>3 DEF TypeInv
    <3>2. cur' = NoWrite \/ Parsed(cur)'
      BY <2>1, <3>1, TabTypes, Started DEF Parsed
    <3>3. \A s \in Due : heads[s] # NoWrite => heads[s] \in Writes /\ Marked(heads[s])
      <4> SUFFICES ASSUME NEW s \in Due, heads[s] # NoWrite
                   PROVE  heads[s] \in Writes /\ Marked(heads[s])
        OBVIOUS
      <4>1. heads[s] \in Writes
        BY <2>1, Started DEF Due
      <4>2. heads[s] \in ListFrom(heads[s])
        BY <4>1 DEF ListFrom
      <4>3. QED
        BY <4>1, <4>2 DEF Marked
    <3>4. \A j \in 1 .. i' : j = 1
      BY <3>1
    <3>5. \A k \in 1 .. Len(parsed') : ran'[parsed'[k]] = 0
      BY <1>F, <2>1
    <3>6. QED
      BY <2>1, <3>1, <3>2, <3>3, <3>4, <3>5
  <2>4. \A k \in 1 .. Len(parsed') : ran'[parsed'[k]] = 0 /\ (pc' = "exec" => i' = 1)
    BY <1>F, <2>1
  <2>5. QED
    BY <1>F, <2>1, <2>2, <2>3, <2>4 DEF RoundInv, Loading
<1>5. CASE NextList
  <2>1. /\ pc \in {"test", "exec"} /\ wpc = "idle" /\ cur = NoWrite
        /\ UNCHANGED <<wpc, next, heads, parsed, memberOf, isDue, dueNow, ran>>
        /\ \/ i < Len(CronTab) /\ i' = i + 1 /\ cur' = heads[CronTab[i + 1]] /\ pc' = pc
           \/ pc' = "idle"
    BY <1>5 DEF NextList, Executing, wvars
  <2>2. /\ \A x \in Writes : isDue'[x] \/ ran'[x] > 0 =>
             \E y \in Writes : memberOf'[y] \cap dueNow' # {} /\ Before(y, x)'
        /\ pc' = "test" => \A x \in Writes : ran'[x] = 0 /\ ~isDue'[x]
        /\ \A x \in Writes : ran'[x] <= Len(CronTab)
    BY <2>1 DEF RoundInv, Before
  <2>3. pc' \in {"test", "exec"} => cur' = NoWrite \/ Parsed(cur)'
    <3> SUFFICES ASSUME i < Len(CronTab), cur' = heads[CronTab[i + 1]]
                 PROVE  cur' = NoWrite \/ Parsed(cur)'
      BY <2>1
    <3>1. CronTab[i + 1] \in Scheds
      BY <1>F
    <3>2. QED
      BY <2>1, <3>1, Started DEF Parsed
  <2>4. ASSUME pc' = "exec"
        PROVE  /\ \A s \in dueNow' : heads'[s] # NoWrite => isDue'[heads'[s]]
               /\ \A j \in 1 .. i' : LET h == heads'[CronTab[j]]
                    IN h # NoWrite /\ isDue'[h] => ran'[h] > 0 \/ (j = i' /\ cur' = h)
               /\ \A k \in 1 .. Len(parsed') : ran'[parsed'[k]] <= i' - 1
    <3>1. pc = "exec" /\ i' = i + 1 /\ cur' = heads[CronTab[i + 1]]
      BY <2>1, <2>4
    <3>2. \A j \in 1 .. i : heads[CronTab[j]] # NoWrite /\ isDue[heads[CronTab[j]]] => ran[heads[CronTab[j]]] > 0
      BY <2>1, <3>1 DEF RoundInv
    <3>3. \A j \in 1 .. i' : j \in 1 .. i \/ j = i + 1
      BY <1>F, <3>1
    <3>4. \A k \in 1 .. Len(parsed) : ran[parsed[k]] <= i
      BY <3>1 DEF RoundInv
    <3>5. \A k \in 1 .. Len(parsed') : ran'[parsed'[k]] <= i' - 1
      BY <1>F, <2>1, <3>1, <3>4
    <3>6. \A s \in dueNow : heads[s] # NoWrite => isDue[heads[s]]
      BY <3>1 DEF RoundInv
    <3>7. QED
      BY <2>1, <3>1, <3>2, <3>3, <3>5, <3>6
  <2>5. ASSUME pc' = "exec", NEW k \in 1 .. Len(parsed')
        PROVE  ran'[parsed'[k]] <= i'
    <3>1. ran'[parsed'[k]] \in Nat /\ i' = i + 1 /\ i \in Nat
      BY <1>F, <2>1, <2>5
    <3>2. QED
      BY <2>4, <2>5, <3>1
  <2>6. wpc' = "idle" /\ ~Loading' /\ pc' \in {"test", "exec", "idle"}
    BY <2>1 DEF Loading
  <2>7. QED
    BY <2>2, <2>3, <2>4, <2>5, <2>6 DEF RoundInv
<1>6. CASE CallWrite \/ InWrite
  <2>1. /\ pc \in {"test", "exec"} /\ cur \in Writes
        /\ UNCHANGED <<pc, loadVars, i, isDue, dueNow, ran>>
    <3>1. CASE CallWrite
      BY <3>1 DEF CallWrite, Executing, roundVars, TypeInv, STypeOK
    <3>2. CASE InWrite
      <4>1. wpc # "idle"
        BY <3>2 DEF InWrite, WriteStep, Condition, Open, ItemError, ItemSkipped, ItemWritten,
                    ItemsDone, AtItem
      <4>2. QED
        BY <3>2, <4>1 DEF InWrite, roundVars, TypeInv
    <3>3. QED
      BY <1>6, <3>1, <3>2
  <2>2. pc = "exec" => isDue[cur]
    <3>1. CASE CallWrite
      BY <3>1 DEF CallWrite
    <3>2. CASE InWrite
      BY <3>2 DEF InWrite, WriteStep, Condition, Open, ItemError, ItemSkipped, ItemWritten,
                  ItemsDone, AtItem, RoundInv
    <3>3. QED
      BY <1>6, <3>1, <3>2
  <2>3. cur # NoWrite
    BY <1>F, <2>1
  <2>4. QED
    BY <2>1, <2>2, <2>3 DEF RoundInv, Loading, Before, Parsed, loadVars
<1>7. CASE SkipWrite \/ WriteBack
  <2>1. /\ pc \in {"test", "exec"} /\ cur \in Writes /\ cur' = next[cur] /\ wpc' = "idle"
        /\ UNCHANGED <<pc, next, heads, parsed, memberOf, i, isDue, dueNow>>
        /\ \/ ran' = ran /\ (pc = "exec" => ~isDue[cur])
           \/ pc = "exec" /\ isDue[cur] /\ ran' = [ran EXCEPT ![cur] = @ + 1]
    <3>1. CASE SkipWrite
      BY <3>1 DEF SkipWrite, Executing, roundVars, wvars, TypeInv, STypeOK
    <3>2. CASE WriteBack
      <4>1. wpc = "returned" /\ wpc' = "idle" /\ cur \in Writes /\ pc \in {"test", "exec"}
        BY <3>2 DEF WriteBack, WriteReturned, Goto, TypeInv
      <4>2. pc = "exec" => isDue[cur]
        BY <4>1 DEF RoundInv
      <4>3. QED
        BY <3>2, <4>1, <4>2 DEF WriteBack
    <3>3. QED
      BY <1>7, <3>1, <3>2
  <2>2. PICK c \in 1 .. Len(parsed) : parsed[c] = cur
    BY <1>F, <2>1 DEF RoundInv, Parsed
  <2>3. IF c < Len(parsed) THEN cur' = parsed[c + 1] ELSE cur' = NoWrite
    BY <2>1, <2>2, Started
  <2>4. cur' = NoWrite \/ Parsed(cur)'
    BY <1>F, <2>1, <2>3 DEF Parsed
  <2>5. \A x \in Writes : /\ x # cur => ran'[x] = ran[x]
                         /\ ran'[x] \in Nat /\ ran'[x] >= ran[x]
                         /\ ran'[x] <= ran[x] + 1
                         /\ ran[x] \in Nat
    BY <1>F, <2>1
  <2>6. pc = "exec" /\ isDue[cur] => ran'[cur] > 0
    BY <1>F, <2>1
  <2>7. \A x \in Writes : isDue'[x] \/ ran'[x] > 0 =>
          \E y \in Writes : memberOf'[y] \cap dueNow' # {} /\ Before(y, x)'
    <3> SUFFICES ASSUME NEW x \in Writes, isDue[x] \/ ran'[x] > 0
                 PROVE  \E y \in Writes : memberOf[y] \cap dueNow # {} /\ Before(y, x)'
      BY <2>1
    <3>1. isDue[x] \/ ran[x] > 0
      <4>1. CASE ran' = ran
        BY <4>1
      <4>2. CASE isDue[cur]
        <5>1. CASE x = cur
          BY <4>2, <5>1
        <5>2. CASE x # cur
          BY <2>5, <5>2
        <5>3. QED
          BY <5>1, <5>2
      <4>3. QED
        BY <2>1, <4>1, <4>2
    <3>2. PICK y \in Writes : memberOf[y] \cap dueNow # {} /\ Before(y, x)
      BY <3>1 DEF RoundInv
    <3>3. QED
      BY <2>1, <3>2 DEF Before
  <2>8. ASSUME pc = "test"
        PROVE  \A x \in Writes : ran'[x] = 0 /\ ~isDue'[x]
    BY <2>1, <2>8 DEF RoundInv
  <2>9. ASSUME pc = "exec"
        PROVE  /\ \A s \in dueNow' : heads'[s] # NoWrite => isDue'[heads'[s]]
               /\ \A j \in 1 .. i' : LET h == heads'[CronTab[j]]
                    IN h # NoWrite /\ isDue'[h] => ran'[h] > 0 \/ (j = i' /\ cur' = h)
               /\ \A k \in 1 .. Len(parsed') :
                    /\ ran'[parsed'[k]] <= i'
                    /\ (\E d \in 1 .. k : cur' = parsed'[d]) => ran'[parsed'[k]] <= i' - 1
    <3>1. \A s \in dueNow : heads[s] # NoWrite => isDue[heads[s]]
      BY <2>9 DEF RoundInv
    <3>2. ASSUME NEW j \in 1 .. i, heads[CronTab[j]] # NoWrite, isDue[heads[CronTab[j]]]
          PROVE  ran'[heads[CronTab[j]]] > 0
      <4>1. ran[heads[CronTab[j]]] > 0 \/ cur = heads[CronTab[j]]
        BY <2>9, <3>2 DEF RoundInv
      <4>2. CronTab[j] \in Scheds /\ heads[CronTab[j]] \in Writes
        <5>1. j \in 1 .. Len(CronTab)
          BY <1>F
        <5>2. CronTab[j] \in Scheds
          BY <1>F, <5>1
        <5>3. QED
          BY <2>1, <3>2, <5>2, Started
      <4>3. CASE cur = heads[CronTab[j]]
        BY <2>6, <2>9, <3>2, <4>3
      <4>4. CASE ran[heads[CronTab[j]]] > 0
        <5>1. /\ ran'[heads[CronTab[j]]] >= ran[heads[CronTab[j]]]
              /\ ran'[heads[CronTab[j]]] \in Nat /\ ran[heads[CronTab[j]]] \in Nat
          BY <2>5, <4>2
        <5>2. QED
          BY <4>4, <5>1
      <4>5. QED
        BY <4>1, <4>3, <4>4
    <3>3. \A k \in 1 .. Len(parsed) :
            /\ ran[parsed[k]] <= i
            /\ k >= c => ran[parsed[k]] <= i - 1
      BY <2>2, <2>9 DEF RoundInv
    <3>4. ASSUME NEW k \in 1 .. Len(parsed)
          PROVE  /\ ran'[parsed[k]] <= i
                 /\ (\E d \in 1 .. k : cur' = parsed[d]) => ran'[parsed[k]] <= i - 1
      <4>1. CASE k = c
        <5>1. ran'[parsed[k]] <= i
          <6>1. ran[cur] <= i - 1 /\ i \in Nat
            BY <1>F, <2>2, <3>3
          <6>2. ran'[cur] <= ran[cur] + 1 /\ ran'[cur] \in Nat /\ ran[cur] \in Nat
            BY <2>1, <2>5
          <6>3. QED
            BY <2>2, <4>1, <6>1, <6>2
        <5>2. ~ \E d \in 1 .. k : cur' = parsed[d]
          <6> SUFFICES ASSUME NEW d \in 1 .. k, cur' = parsed[d]
                       PROVE  FALSE
            OBVIOUS
          <6>1. d \in 1 .. Len(parsed) /\ d < c + 1 /\ parsed[d] \in Writes
            BY <1>F, <4>1
          <6>2. c < Len(parsed) /\ c + 1 \in 1 .. Len(parsed) /\ parsed[d] = parsed[c + 1]
            BY <1>F, <2>3, <6>1
          <6>3. d = c + 1
            BY <1>F, <6>1, <6>2
          <6>4. QED
            BY <1>F, <6>1, <6>3
        <5>3. QED
          BY <5>1, <5>2
      <4>2. CASE k # c
        <5>1. ran'[parsed[k]] = ran[parsed[k]]
          <6>1. parsed[k] \in Writes /\ parsed[k] # cur
            BY <1>F, <2>2, <4>2
          <6>2. QED
            BY <2>5, <6>1
        <5>2. (\E d \in 1 .. k : cur' = parsed[d]) => k >= c
          <6> SUFFICES ASSUME NEW d \in 1 .. k, cur' = parsed[d]
                       PROVE  k >= c
            OBVIOUS
          <6>1. d \in 1 .. Len(parsed) /\ parsed[d] \in Writes
            BY <1>F
          <6>2. c + 1 \in 1 .. Len(parsed) /\ parsed[d] = parsed[c + 1]
            BY <1>F, <2>3, <6>1
          <6>3. d = c + 1
            BY <1>F, <6>1, <6>2
          <6>4. QED
            BY <1>F, <6>3
        <5>3. QED
          BY <3>3, <5>1, <5>2
      <4>3. QED
        BY <4>1, <4>2
    <3>5. QED
      BY <2>1, <3>1, <3>2, <3>4
  <2>10. \A x \in Writes : ran'[x] <= Len(CronTab)
    <3> TAKE x \in Writes
    <3>1. CASE x = cur /\ pc = "exec"
      <4>1. ran[x] <= i - 1
        BY <1>F, <2>2, <3>1 DEF RoundInv
      <4>2. ran'[x] <= ran[x] + 1 /\ ran'[x] \in Nat /\ ran[x] \in Nat
        BY <2>5
      <4>3. i \in Nat /\ i <= Len(CronTab) /\ Len(CronTab) \in Nat
        BY <1>F
      <4>4. QED
        BY <4>1, <4>2, <4>3
    <3>2. CASE ran'[x] = ran[x]
      BY <3>2 DEF RoundInv
    <3>3. CASE x # cur
      BY <2>5, <3>2, <3>3
    <3>4. CASE pc # "exec"
      BY <2>1, <3>2, <3>4
    <3>5. QED
      BY <3>1, <3>3, <3>4
  <2>11. ~Loading' /\ pc' \in {"test", "exec"} /\ pc' = pc
    BY <2>1 DEF Loading
  <2>12. QED
    BY <2>1, <2>4, <2>7, <2>8, <2>9, <2>10, <2>11 DEF RoundInv
<1>8. CASE Exited \/ UNCHANGED svars
  BY <1>1, <1>8 DEF Exited, svars, wvars, roundVars
<1>9. QED
  BY <1>2, <1>3, <1>4, <1>5, <1>6, <1>7, <1>8 DEF SNext, Run

(* A write is executed in rounds of its own schedules or of those of a     *)
(* definition before it, never more often than there are schedules.        *)
THEOREM WritesRunWhenDue == SSpec => []RunsOnlyWhenDue
<1>1. SInit => TypeInv /\ ListInv /\ RoundInv
  BY TypeInit, ListInit, RoundInit
<1>2. TypeInv /\ ListInv /\ RoundInv /\ [SNext]_svars => (TypeInv /\ ListInv /\ RoundInv)'
  BY TypeStep, ListStep, RoundStep
<1>3. RoundInv => RunsOnlyWhenDue
  BY DEF RoundInv, RunsOnlyWhenDue, Before
<1>4. QED
  BY <1>1, <1>2, <1>3, PTL DEF SSpec

(* No write that is due is left out of a round that polls meters.          *)
THEOREM NoDueWriteIsMissed == SSpec => DueWritesRun
<1>1. SInit => TypeInv /\ ListInv /\ RoundInv
  BY TypeInit, ListInit, RoundInit
<1>2. TypeInv /\ ListInv /\ RoundInv /\ [SNext]_svars => (TypeInv /\ ListInv /\ RoundInv)'
  BY TypeStep, ListStep, RoundStep
<1>3. TypeInv /\ ListInv /\ RoundInv /\ [SNext]_svars =>
        [pc = "exec" /\ pc' = "idle" =>
           \A x \in Writes : memberOf[x] \cap dueNow # {} => ran[x] > 0]_svars
  <2> SUFFICES ASSUME TypeInv, ListInv, RoundInv, [SNext]_svars, pc = "exec", pc' = "idle",
                      NEW x \in Writes, NEW s \in memberOf[x], s \in dueNow
               PROVE  ran[x] > 0
    OBVIOUS
  <2>1. cur = NoWrite /\ i \in 1 .. Len(CronTab) /\ ~(i < Len(CronTab)) /\ Len(CronTab) \in Nat
    <3>1. NextList
      BY DEF SNext, Load, WalkOn, LinkAtEnd, BeginWrite, ScheduleLine, EndWrite, EndOfFile,
             DefaultAdd, DefaultNext, DefaultDone, Tick, Round, Run, SkipWrite, CallWrite,
             InWrite, WriteBack, Exited, svars
    <3>2. QED
      BY <3>1, TabTypes DEF NextList, TypeInv, STypeOK
  <2>2. s \in Scheds /\ x = heads[s] /\ heads[s] # NoWrite
    BY Started, FileTypes
  <2>3. PICK j \in 1 .. Len(CronTab) : CronTab[j] = s
    BY <2>2, SchedAssumption
  <2>4. isDue[x] /\ j \in 1 .. i
    BY <2>1, <2>2 DEF RoundInv
  <2>5. QED
    BY <2>1, <2>2, <2>3, <2>4 DEF RoundInv
<1>4. QED
  BY <1>1, <1>2, <1>3, PTL DEF SSpec, DueWritesRun
=============================================================================
