-------------------------- MODULE ScheduledWrites --------------------------
(***************************************************************************)
(* The write definitions of the configuration and their schedules: how     *)
(* parseWrites, cron_write_add and cron_setDefault link the definitions    *)
(* into lists, how cron_queryMeters marks the ones that are due and        *)
(* executes them.  A definition is linked through its one field "next",    *)
(* which belongs to the list of all definitions and to the list of every   *)
(* schedule it is in.  The walks along the lists are steps of their own.   *)
(* Meters are reduced to the question whether a schedule polls any.        *)
(***************************************************************************)
EXTENDS MeterWrite, FiniteSets

CONSTANTS
  Default,     (* the schedule without a name, the first in cronTab        *)
  Named,       (* the schedules of the section [schedule]                  *)
  CronTab,     (* all of them in order                                     *)
  Global,      (* stands for the list of all definitions, meterWrites      *)
  NoWrite,     (* NULL                                                     *)
  Polled,      (* schedules with an enabled meter                          *)
  MaxPeriod,   (* bound: ticks between two queries of a schedule           *)
  MaxLines     (* bound: lines "schedule=" in a definition                 *)

Scheds == {Default} \cup Named
Lists == Scheds \cup {Global}

ASSUME SchedAssumption ==
  /\ Default \notin Named /\ Global \notin Scheds
  /\ NoWrite \notin Writes
  /\ CronTab \in Seq(Scheds) /\ Len(CronTab) > 0
  /\ \A s \in Scheds : \E i \in 1 .. Len(CronTab) : CronTab[i] = s
  /\ Polled \subseteq Scheds
  /\ MaxPeriod \in Nat \ {0} /\ MaxLines \in Nat

VARIABLES
  pc,          (* where main is                                            *)
  cur,         (* the definition parsed, defaulted or executed now         *)
  tail,        (* the cursor of the walk to the end of a list              *)
  list,        (* the list being appended to                               *)
  i,           (* the schedule whose list is executed, an index of CronTab *)
  next,        (* the links of the definitions                             *)
  heads,       (* memberWrites of every schedule, and meterWrites          *)
  hasSchedule, (* counter of every definition                              *)
  wait,        (* nextQueryTime - now, 0 when it has been reached          *)
  isDue,       (* flag of every definition                                 *)
  parsed,      (* history: the definitions in the order of the file        *)
  memberOf,    (* history: the schedules each definition was added to      *)
  dueNow,      (* history: the schedules due in this round                 *)
  ran          (* history: executions of each definition in this round     *)

loadVars == <<cur, tail, list, next, heads, hasSchedule, parsed, memberOf>>
roundVars == <<i, wait, isDue, dueNow, ran>>
svars == <<wvars, pc, loadVars, roundVars>>

Parsed(x) == \E k \in 1 .. Len(parsed) : parsed[k] = x

(* The definitions reached from x by following "next".                     *)
ListFrom(x) ==
  {y \in Writes : \A S \in SUBSET Writes :
     (x \in S /\ \A z \in S : next[z] \in S \cup {NoWrite}) => y \in S}

SInit ==
  /\ WInit
  /\ pc = "sections"
  /\ cur = NoWrite /\ tail = NoWrite /\ list = Global
  /\ i = 1
  /\ next = [x \in Writes |-> NoWrite]
  /\ heads = [l \in Lists |-> NoWrite]
  /\ hasSchedule = [x \in Writes |-> 0]
  /\ wait = [s \in Scheds |-> 0]
  /\ isDue = [x \in Writes |-> FALSE]
  /\ parsed = <<>>
  /\ memberOf = [x \in Writes |-> {}]
  /\ dueNow = {}
  /\ ran = [x \in Writes |-> 0]

-----------------------------------------------------------------------------
(* Where the program goes on when cur has been appended to list l.         *)
After(l) ==
  CASE l = Global  -> "sections"
    [] l = Default -> "defaultNext"
    [] OTHER       -> "write"

(* The beginning of an append: an empty list gets cur as its head, else    *)
(* the walk to the end of the list starts at its head.                     *)
Append1(l) ==
  /\ list' = l
  /\ IF heads[l] = NoWrite
     THEN /\ heads' = [heads EXCEPT ![l] = cur]
          /\ pc' = After(l)
          /\ UNCHANGED tail
     ELSE /\ tail' = heads[l]
          /\ pc' = "append"
          /\ UNCHANGED heads

WalkOn ==
  /\ pc = "append" /\ next[tail] # NoWrite
  /\ tail' = next[tail]
  /\ UNCHANGED <<wvars, pc, cur, list, next, heads, hasSchedule, parsed, memberOf, roundVars>>

(* Mutant: the definition is linked behind the head of the list.           *)
LinkBehindHead ==
  /\ pc = "append" /\ next[tail] = NoWrite
  /\ next' = [next EXCEPT ![heads[list]] = cur]
  /\ pc' = After(list)
  /\ UNCHANGED <<wvars, cur, tail, list, heads, hasSchedule, parsed, memberOf, roundVars>>

(* Mutant: a definition that is the end of the list is not linked again.   *)
LinkUnlessLast ==
  /\ pc = "append" /\ next[tail] = NoWrite
  /\ next' = IF tail = cur THEN next ELSE [next EXCEPT ![tail] = cur]
  /\ pc' = After(list)
  /\ UNCHANGED <<wvars, cur, tail, list, heads, hasSchedule, parsed, memberOf, roundVars>>

(* At the end of the list: the definition is linked behind the last one.   *)
LinkAtEnd ==
  /\ pc = "append" /\ next[tail] = NoWrite
  /\ next' = [next EXCEPT ![tail] = cur]
  /\ pc' = After(list)
  /\ UNCHANGED <<wvars, cur, tail, list, heads, hasSchedule, parsed, memberOf, roundVars>>

(* parseWrites: a section [Write] begins.                                  *)
BeginWrite(x) ==
  /\ pc = "sections" /\ ~Parsed(x)
  /\ cur' = x
  /\ pc' = "write"
  /\ UNCHANGED <<wvars, tail, list, next, heads, hasSchedule, parsed, memberOf, roundVars>>

(* schedule=: cron_write_add with the name of a schedule.                  *)
ScheduleLine(s) ==
  /\ pc = "write" /\ hasSchedule[cur] < MaxLines
  /\ hasSchedule' = [hasSchedule EXCEPT ![cur] = @ + 1]
  /\ memberOf' = [memberOf EXCEPT ![cur] = @ \cup {s}]
  /\ Append1(s)
  /\ UNCHANGED <<wvars, cur, next, parsed, roundVars>>

(* The section ends: the definition is appended to the list of all.        *)
EndWrite ==
  /\ pc = "write"
  /\ parsed' = Append(parsed, cur)
  /\ Append1(Global)
  /\ UNCHANGED <<wvars, cur, next, hasSchedule, memberOf, roundVars>>

(* The file has been read: cron_setDefault.                                *)
EndOfFile ==
  /\ pc = "sections"
  /\ cur' = heads[Global]
  /\ pc' = "default"
  /\ UNCHANGED <<wvars, tail, list, next, heads, hasSchedule, parsed, memberOf, roundVars>>

(* Mutant: definitions without a schedule stay without one.                *)
DefaultAddSkipped ==
  /\ pc = "default" /\ cur # NoWrite /\ hasSchedule[cur] = 0
  /\ memberOf' = [memberOf EXCEPT ![cur] = @ \cup {Default}]
  /\ pc' = "defaultNext"
  /\ UNCHANGED <<wvars, cur, tail, list, next, heads, hasSchedule, parsed, roundVars>>

DefaultAdd ==
  /\ pc = "default" /\ cur # NoWrite /\ hasSchedule[cur] = 0
  /\ memberOf' = [memberOf EXCEPT ![cur] = @ \cup {Default}]
  /\ Append1(Default)
  /\ UNCHANGED <<wvars, cur, next, hasSchedule, parsed, roundVars>>

DefaultNext ==
  /\ \/ pc = "default" /\ cur # NoWrite /\ hasSchedule[cur] > 0
     \/ pc = "defaultNext"
  /\ cur' = next[cur]
  /\ pc' = "default"
  /\ UNCHANGED <<wvars, tail, list, next, heads, hasSchedule, parsed, memberOf, roundVars>>

(* Every schedule gets its first query time, at least a tick ahead; then   *)
(* testFormulas walks the lists of all schedules.                          *)
DefaultDone ==
  /\ pc = "default" /\ cur = NoWrite
  /\ wait' \in [Scheds -> 1 .. MaxPeriod]
  /\ pc' = "test"
  /\ i' = 1
  /\ cur' = heads[CronTab[1]]
  /\ UNCHANGED <<wvars, tail, list, next, heads, hasSchedule, parsed, memberOf,
                 isDue, dueNow, ran>>

Load ==
  \/ WalkOn \/ LinkAtEnd
  \/ \E x \in Writes : BeginWrite(x)
  \/ \E s \in Named : ScheduleLine(s)
  \/ EndWrite \/ EndOfFile
  \/ DefaultAdd \/ DefaultNext \/ DefaultDone

-----------------------------------------------------------------------------
(* Time passes while the main loop sleeps; the queries use the TCP pool.   *)
Tick ==
  /\ pc = "idle" /\ \E s \in Scheds : wait[s] > 0
  /\ wait' = [s \in Scheds |-> IF wait[s] > 0 THEN wait[s] - 1 ELSE 0]
  /\ connected' \in SUBSET Hosts
  /\ UNCHANGED <<wpc, mw, w, test, attempts, pc, loadVars, i, isDue, dueNow, ran>>

Due == {s \in Scheds : wait[s] = 0}

(* Everything that can be reached from the head of a due schedule.         *)
Marked(x) == \E s \in Due : heads[s] # NoWrite /\ x \in ListFrom(heads[s])

(* cron_queryMeters up to the queries: due schedules move on, definitions  *)
(* are marked; with no meter due the function returns, otherwise meters    *)
(* are polled and the definitions executed.                                *)
Round ==
  /\ pc = "idle"
  /\ dueNow' = Due
  /\ wait' \in [Scheds -> 0 .. MaxPeriod]
  /\ \A s \in Scheds : IF s \in Due THEN wait'[s] > 0 ELSE wait'[s] = wait[s]
  /\ isDue' = [x \in Writes |-> Marked(x)]
  /\ ran' = [x \in Writes |-> 0]
  /\ IF Due \cap Polled = {}
     THEN UNCHANGED <<pc, i, cur>>
     ELSE pc' = "exec" /\ i' = 1 /\ cur' = heads[CronTab[1]]
  /\ UNCHANGED <<wvars, tail, list, next, heads, hasSchedule, parsed, memberOf>>

(* The lists of all schedules are walked, also of those not due.           *)
Executing == pc \in {"test", "exec"} /\ wpc = "idle"

(* Mutant: the same list is walked again and again.                        *)
NextListSame ==
  /\ Executing /\ cur = NoWrite
  /\ IF i < Len(CronTab)
     THEN cur' = heads[CronTab[i + 1]] /\ UNCHANGED <<pc, i>>
     ELSE pc' = "idle" /\ UNCHANGED <<i, cur>>
  /\ UNCHANGED <<wvars, tail, list, next, heads, hasSchedule, parsed, memberOf,
                 wait, isDue, dueNow, ran>>

NextList ==
  /\ Executing /\ cur = NoWrite
  /\ IF i < Len(CronTab)
     THEN i' = i + 1 /\ cur' = heads[CronTab[i + 1]] /\ UNCHANGED pc
     ELSE pc' = "idle" /\ UNCHANGED <<i, cur>>
  /\ UNCHANGED <<wvars, tail, list, next, heads, hasSchedule, parsed, memberOf,
                 wait, isDue, dueNow, ran>>

SkipWrite ==
  /\ Executing /\ cur # NoWrite /\ pc = "exec" /\ ~isDue[cur]
  /\ cur' = next[cur]
  /\ UNCHANGED <<wvars, pc, tail, list, next, heads, hasSchedule, parsed, memberOf,
                 roundVars>>

(* Mutant: the writes of schedules that are not due are executed, too.     *)
CallWriteAny ==
  /\ Executing /\ cur # NoWrite
  /\ Call(cur, pc = "test")
  /\ UNCHANGED <<pc, loadVars, roundVars>>

CallWrite ==
  /\ Executing /\ cur # NoWrite /\ (pc = "test" \/ isDue[cur])
  /\ Call(cur, pc = "test")
  /\ UNCHANGED <<pc, loadVars, roundVars>>

InWrite ==
  /\ WriteStep
  /\ UNCHANGED <<pc, loadVars, roundVars>>

WriteBack ==
  /\ WriteReturned
  /\ cur' = next[cur]
  /\ ran' = IF pc = "exec" THEN [ran EXCEPT ![cur] = @ + 1] ELSE ran
  /\ UNCHANGED <<pc, tail, list, next, heads, hasSchedule, parsed, memberOf,
                 i, wait, isDue, dueNow>>

(* An expression that cannot be evaluated has ended the program.           *)
Exited == wpc = "exit" /\ UNCHANGED svars

Run == NextList \/ SkipWrite \/ CallWrite \/ InWrite \/ WriteBack

SNext == Load \/ Tick \/ Round \/ Run \/ Exited

SSpec == SInit /\ [][SNext]_svars

(* Loading and executing go on by themselves, and so does the main loop.   *)
SFairSpec ==
  /\ SSpec
  /\ WF_svars(Load) /\ WF_svars(Run) /\ WF_svars(Tick) /\ WF_svars(Round)

-----------------------------------------------------------------------------
(* Properties.                                                             *)

(* No schedule has been given two writes, nor one write twice.             *)
OnePerSchedule ==
  /\ \A x, y \in Writes : x # y => memberOf[x] \cap memberOf[y] = {}
  /\ \A x \in Writes : hasSchedule[x] = Cardinality(memberOf[x] \ {Default})

STypeOK ==
  /\ WTypeOK
  /\ pc \in {"sections", "write", "append", "default", "defaultNext", "test",
             "idle", "exec"}
  /\ cur \in Writes \cup {NoWrite} /\ tail \in Writes \cup {NoWrite}
  /\ list \in Lists
  /\ i \in 1 .. Len(CronTab)
  /\ next \in [Writes -> Writes \cup {NoWrite}]
  /\ heads \in [Lists -> Writes \cup {NoWrite}]
  /\ hasSchedule \in [Writes -> 0 .. MaxLines]
  /\ wait \in [Scheds -> 0 .. MaxPeriod]
  /\ isDue \in [Writes -> BOOLEAN]
  /\ parsed \in Seq(Writes)
  /\ memberOf \in [Writes -> SUBSET Scheds]
  /\ dueNow \subseteq Scheds
  /\ ran \in [Writes -> Nat]

(* As long as no schedule has two writes the lists end: a definition is    *)
(* followed by the one that follows it in the file.                        *)
ListsFollowFile ==
  OnePerSchedule =>
    \A x \in Writes : next[x] # NoWrite =>
      \E k \in 1 .. Len(parsed) - 1 : parsed[k] = x /\ parsed[k + 1] = next[x]

(* A definition that is executed belongs to a schedule that is due or      *)
(* follows, in the file, a definition that does; and although the lists    *)
(* share their ends, it is executed at most once for every schedule.       *)
RunsOnlyWhenDue ==
  \A x \in Writes : ran[x] > 0 =>
    /\ ran[x] <= Len(CronTab)
    /\ \E y \in Writes :
         /\ memberOf[y] \cap dueNow # {}
         /\ \E j, k \in 1 .. Len(parsed) : j <= k /\ parsed[j] = y /\ parsed[k] = x

(* When a round that polled meters is over, every definition with a due    *)
(* schedule has been executed.                                             *)
DueWritesRun ==
  [][pc = "exec" /\ pc' = "idle" =>
       \A x \in Writes : memberOf[x] \cap dueNow # {} => ran[x] > 0]_svars

(* With at most one write in a schedule the configuration is loaded, and   *)
(* every round ends.                                                       *)
AlwaysReturns ==
  <>[]OnePerSchedule => []<>(pc = "idle" \/ wpc = "exit")

(* The other way round, two writes in one schedule, also in the default    *)
(* one, keep the program from ever starting: the lists become circular.    *)
StartedMeansOnePerSchedule ==
  pc \in {"test", "idle", "exec"} => OnePerSchedule

(* readme.md: "A meter or a write can be part of one or more schedules":   *)
(* a write is executed in rounds in which one of its schedules is due.     *)
WritesOnSchedule ==
  [][pc = "exec" /\ pc' = "idle" =>
       \A x \in Writes : ran[x] > 0 => memberOf[x] \cap dueNow # {}]_svars
=============================================================================
