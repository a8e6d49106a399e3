-------------------------- MODULE MeterDefinitions ---------------------------
(***************************************************************************)
(* What readMeterDefinitions of meterDef.cpp makes of a configuration      *)
(* file: the sections for meter types, schedules, meters and writes, read  *)
(* line by line in the order of the file; then the serial handles and the  *)
(* default schedule.  A line is one option; its text, the parameters of    *)
(* registers (RegisterCodec) and the duplicates of register names are left *)
(* out.  Of the flags influx=, mqtt= and grafana=, which are treated       *)
(* alike, one is modelled.                                                 *)
(***************************************************************************)
EXTENDS Naturals, Sequences, FiniteSets

CONSTANTS
  Names,         (* of meters                                              *)
  Schedules,     (* named ones                                             *)
  MaxTypes, MaxMeters, MaxLines   (* bounds of the file                    *)

Default == "default"

ASSUME DefinitionsAssumption ==
  /\ MaxTypes \in Nat /\ MaxMeters \in Nat /\ MaxLines \in Nat
  /\ "none" \notin Names /\ Default \notin Schedules

(* mqttqos, mqttretain and mqttdelayms are handled like influxwritemult.   *)
Options == {"influxwritemult", "measurement", "mqttprefix", "mqttformat"}

(* Where the value of an option comes from.                                *)
Origins == {"none", "global", "type", "meter"}

VARIABLES
  section,       (* what is read: "top", "type", "meter", "writes"; at the *)
                 (* end "done", or "rejected" when the program has exited  *)
  lines,         (* the lines that are left                                *)
  hasSerial,     (* serial ports are defined                               *)
  defined,       (* the schedules defined so far                           *)
  meterTypes,
  meters,
  members,       (* the members of each schedule, as indices of meters     *)
  writes,        (* the meters written to                                  *)
  cur            (* the section that is read                               *)

dvars == <<section, lines, hasSerial, defined, meterTypes, meters, members, writes, cur>>

NoSection == "none"

NewType ==
  [given |-> {},
   opt |-> [o \in Options |-> IF o = "measurement" THEN "none" ELSE "global"],
   flags |-> <<>>, isFormulaOnly |-> TRUE]

NewMeter ==
  [name |-> "none", typ |-> 0, given |-> {},
   opt |-> [o \in Options |->
              IF o \in {"measurement", "mqttprefix"} THEN "none" ELSE "global"],
   typeConflict |-> FALSE, flags |-> <<>>, numEnabled |-> 0,
   disableSpecified |-> FALSE, disabled |-> FALSE, writeDisabled |-> FALSE,
   hasAddress |-> FALSE, isTCP |-> FALSE, isSerial |-> FALSE,
   isFormulaOnly |-> FALSE, hasSchedule |-> 0, mb |-> FALSE]

DInit ==
  /\ section = "top" /\ lines = MaxLines
  /\ hasSerial \in BOOLEAN
  /\ defined = {} /\ meterTypes = <<>> /\ meters = <<>>
  /\ members = [s \in Schedules \cup {Default} |-> {}]
  /\ writes = {} /\ cur = NoSection

-----------------------------------------------------------------------------
(* The registers of a type, or formula fields of a meter, that are sent.   *)
Enabled(flags) == Cardinality({i \in DOMAIN flags : flags[i] = 1})

(* parserError, or another exit.                                           *)
Reject ==
  /\ section' = "rejected"
  /\ UNCHANGED <<lines, hasSerial, defined, meterTypes, meters, members, writes, cur>>

Begin(kind, new) ==
  /\ section = "top"
  /\ section' = kind /\ cur' = new
  /\ UNCHANGED <<lines, hasSerial, defined, meterTypes, meters, members, writes>>

(* A line in a section of the given kinds.                                 *)
InSection(kinds) == section \in kinds /\ lines > 0

Becomes(new) ==
  /\ cur' = new /\ lines' = lines - 1
  /\ UNCHANGED <<section, hasSerial, defined, meterTypes, meters, members, writes>>

BeginType == Len(meterTypes) < MaxTypes /\ Begin("type", NewType)
BeginMeter == Len(meters) < MaxMeters /\ Begin("meter", NewMeter)

(* influxwritemult=, measurement= (once in a type), mqttprefix= ...        *)
TypeOption(o) ==
  /\ InSection({"type"})
  /\ IF o = "measurement" /\ o \in cur.given THEN Reject
     ELSE Becomes([cur EXCEPT !.opt[o] = "type", !.given = @ \cup {o}])

MeterOption(o) ==
  /\ InSection({"meter"})
  /\ Becomes([cur EXCEPT !.opt[o] = "meter", !.given = @ \cup {o},
                         !.typeConflict = TRUE])

(* A register, or a formula field of a type.  Whether it is sent is said   *)
(* by its own influx= or the last line influx= of the section: any value.  *)
TypeField(value, formula) ==
  /\ InSection({"type"})
  /\ Becomes([cur EXCEPT !.flags = Append(@, value),
                         !.isFormulaOnly = @ /\ formula])

(* A formula field of a meter is counted at once.                          *)
MeterField(value) ==
  /\ InSection({"meter"})
  /\ Becomes([cur EXCEPT !.flags = Append(@, value),
                         !.numEnabled = @ + value])

(* The end of a section for a type: a name (it is the index here) is       *)
(* mandatory, and registers are.                                           *)
EndType ==
  /\ section = "type"
  /\ IF cur.flags = <<>> THEN Reject
     ELSE /\ meterTypes' = Append(meterTypes, cur)
          /\ section' = "top" /\ cur' = NoSection
          /\ UNCHANGED <<lines, hasSerial, defined, meters, members, writes>>

-----------------------------------------------------------------------------
(* findMeter passes over disabled meters.                                  *)
FindMeter(n) == {i \in DOMAIN meters : meters[i].name = n /\ ~meters[i].disabled}

(* Mutant: the name is not looked up.                                      *)
NameLineUnchecked(n) ==
  /\ InSection({"meter"})
  /\ IF cur.name # "none" THEN Reject ELSE Becomes([cur EXCEPT !.name = n])

NameLine(n) ==
  /\ InSection({"meter"})
  /\ IF cur.name # "none" \/ FindMeter(n) # {} THEN Reject
     ELSE Becomes([cur EXCEPT !.name = n])

(* What type= gives the meter for an option.                               *)
FromType(t, o) ==
  IF o = "mqttformat" \/ meterTypes[t].opt[o] = "none" THEN cur.opt[o]
  ELSE meterTypes[t].opt[o]

(* Mutant: type= is taken behind the options it overwrites.                *)
TypeLineAnywhere(t) ==
  /\ InSection({"meter"})
  /\ IF cur.typ # 0 \/ t > Len(meterTypes) THEN Reject
     ELSE Becomes([cur EXCEPT !.typ = t,
                     !.numEnabled = @ + Enabled(meterTypes[t].flags),
                     !.opt = [o \in Options |-> FromType(t, o)]])

(* Mutant: the counters of the type replace those of the meter.            *)
TypeLineSetsCount(t) ==
  /\ InSection({"meter"})
  /\ IF cur.typeConflict \/ cur.typ # 0 \/ t > Len(meterTypes) THEN Reject
     ELSE Becomes([cur EXCEPT !.typ = t,
                     !.numEnabled = Enabled(meterTypes[t].flags),
                     !.opt = [o \in Options |-> FromType(t, o)]])

(* type= copies the options of the type, so it must come before the lines  *)
(* that override them.                                                     *)
TypeLine(t) ==
  /\ InSection({"meter"})
  /\ IF cur.typeConflict \/ cur.typ # 0 \/ t > Len(meterTypes) THEN Reject
     ELSE Becomes([cur EXCEPT !.typ = t,
                     !.numEnabled = @ + Enabled(meterTypes[t].flags),
                     !.opt = [o \in Options |-> FromType(t, o)]])

(* disabled=0, 1, read, write or readwrite, once.                          *)
DisabledLine(reads, written) ==
  /\ InSection({"meter"})
  /\ IF cur.disableSpecified THEN Reject
     ELSE Becomes([cur EXCEPT !.disableSpecified = TRUE, !.disabled = reads,
                              !.writeDisabled = written])

HostLine ==
  /\ InSection({"meter"})
  /\ IF cur.isTCP THEN Reject ELSE Becomes([cur EXCEPT !.isTCP = TRUE])

AddressLine ==
  /\ InSection({"meter"})
  /\ Becomes([cur EXCEPT !.hasAddress = TRUE])

(* schedule=: the meter becomes a member at once; an unknown schedule is   *)
(* ignored in a meter that has been disabled before.                       *)
ScheduleLine(s) ==
  /\ InSection({"meter"})
  /\ \/ /\ s \in defined
        /\ members' = [members EXCEPT ![s] = @ \cup {Len(meters) + 1}]
        /\ cur' = [cur EXCEPT !.hasSchedule = @ + 1]
        /\ lines' = lines - 1
        /\ UNCHANGED <<section, hasSerial, defined, meterTypes, meters, writes>>
     \/ s \notin defined /\ cur.disabled /\ Becomes(cur)
     \/ s \notin defined /\ ~cur.disabled /\ Reject

TypeIsFormulaOnly == cur.typ = 0 \/ meterTypes[cur.typ].isFormulaOnly

Incomplete ==
  \/ cur.name = "none"
  \/ cur.typ = 0 /\ cur.flags = <<>>
  \/ ~TypeIsFormulaOnly /\ ~cur.hasAddress

(* Mutant: a meter of formulas only counts as serial.                      *)
FinishedSerial ==
  [cur EXCEPT !.isFormulaOnly = TypeIsFormulaOnly,
     !.isTCP = @ /\ ~(cur.typ # 0 /\ cur.disabled),
     !.isSerial = cur.typ # 0 /\ ~cur.disabled /\ ~TypeIsFormulaOnly,
     !.opt["mqttprefix"] = IF @ = "none" THEN "global" ELSE @]

(* How the meter is reached, and the prefix of a meter without a type.     *)
Finished ==
  [cur EXCEPT !.isFormulaOnly = TypeIsFormulaOnly,
     !.isTCP = @ /\ ~(cur.typ # 0 /\ cur.disabled),
     !.isSerial = cur.typ # 0 /\ ~cur.disabled /\ ~cur.isTCP /\ ~TypeIsFormulaOnly,
     !.opt["mqttprefix"] = IF @ = "none" THEN "global" ELSE @]

EndMeter ==
  /\ section = "meter"
  /\ IF Incomplete THEN Reject
     ELSE /\ meters' = Append(meters, Finished)
          /\ section' = "top" /\ cur' = NoSection
          /\ UNCHANGED <<lines, hasSerial, defined, meterTypes, members, writes>>

-----------------------------------------------------------------------------
ScheduleSection(s) ==
  /\ section = "top" /\ lines > 0
  /\ IF s \in defined THEN Reject
     ELSE /\ defined' = defined \cup {s} /\ lines' = lines - 1
          /\ UNCHANGED <<section, hasSerial, meterTypes, meters, members, writes, cur>>

(* A section for writes to the meter found by its name, which must have    *)
(* the register.                                                           *)
WritesSection(n) ==
  /\ section = "top" /\ lines > 0
  /\ LET found == FindMeter(n)
     IN IF found = {} \/ \E i \in found : meters[i].typ = 0 THEN Reject
        ELSE /\ writes' = writes \cup found /\ lines' = lines - 1
             /\ UNCHANGED <<section, hasSerial, defined, meterTypes, meters, members, cur>>

(* Meters that get the handle of their serial port.                        *)
NeedsPort(m) == ~m.disabled /\ ~m.writeDisabled /\ ~m.isTCP /\ m.isSerial

(* cron_setDefault.                                                        *)
WithoutSchedule == {i \in DOMAIN meters : meters[i].hasSchedule = 0}

EndOfFile ==
  /\ section = "top"
  /\ IF meters = <<>> \/ (~hasSerial /\ \E i \in DOMAIN meters : NeedsPort(meters[i]))
     THEN Reject
     ELSE /\ section' = "done"
          /\ meters' = [i \in DOMAIN meters |->
                          [meters[i] EXCEPT !.mb = NeedsPort(meters[i])]]
          /\ members' = [members EXCEPT ![Default] = @ \cup WithoutSchedule]
          /\ UNCHANGED <<lines, hasSerial, defined, meterTypes, writes, cur>>

TypeLines ==
  \/ \E o \in Options : TypeOption(o)
  \/ \E value \in {0, 1}, formula \in BOOLEAN : TypeField(value, formula)

MeterLines ==
  \/ \E o \in Options : MeterOption(o)
  \/ \E value \in {0, 1} : MeterField(value)
  \/ \E n \in Names : NameLine(n)
  \/ \E t \in 1 .. MaxTypes : TypeLine(t)
  \/ \E reads, written \in BOOLEAN : DisabledLine(reads, written)
  \/ HostLine
  \/ AddressLine
  \/ \E s \in Schedules : ScheduleLine(s)

Sections ==
  \/ BeginType
  \/ BeginMeter
  \/ \E n \in Names : WritesSection(n)
  \/ \E s \in Schedules : ScheduleSection(s)

DNext == Sections \/ TypeLines \/ EndType \/ MeterLines \/ EndMeter \/ EndOfFile

DSpec == DInit /\ [][DNext]_dvars

-----------------------------------------------------------------------------
Loaded == section = "done"

DTypeOK ==
  /\ section \in {"top", "type", "meter", "done", "rejected"}
  /\ lines \in 0 .. MaxLines
  /\ defined \subseteq Schedules
  /\ \A s \in DOMAIN members : members[s] \subseteq 1 .. Len(meters) + 1
  /\ writes \subseteq DOMAIN meters
  /\ \A i \in DOMAIN meters :
       /\ meters[i].name \in Names /\ meters[i].typ \in 0 .. Len(meterTypes)
       /\ \A o \in Options \ {"measurement"} : meters[i].opt[o] \in Origins \ {"none"}

(* Whatever the order of the lines in the file, an option of a meter has   *)
(* the value of the meter's own line, else that of its type, else the      *)
(* global one.  Of mqttformat= that is said for the first and the last of  *)
(* the three only: what the manual says of the second does not hold (see   *)
(* MqttformatInherited).                                                   *)
OptionsInherited ==
  \A i \in DOMAIN meters : \A o \in Options :
    LET m == meters[i]
        ofType == m.typ # 0 /\ o \in meterTypes[m.typ].given
    IN IF o \in m.given THEN m.opt[o] = "meter"
       ELSE IF ~ofType THEN m.opt[o] \in {"global", "none"}
       ELSE o # "mqttformat" => m.opt[o] = "type"

(* What the manual says of mqttformat= (readme.md:463-466 and 668-669: it  *)
(* "can be set by MeterType as well", and a meter has the value of its     *)
(* type unless it overrides it).                                           *)
MqttformatInherited ==
  \A i \in DOMAIN meters :
    LET m == meters[i]
    IN m.typ # 0 /\ "mqttformat" \in meterTypes[m.typ].given \ m.given
         => m.opt["mqttformat"] = "type"

(* The counters by which the senders decide whether a meter has anything   *)
(* to send agree with its fields, those of its type and its own, in        *)
(* whatever order they and type= are written.                              *)
CountsExact ==
  \A i \in DOMAIN meters :
    meters[i].numEnabled =
      Enabled(meters[i].flags)
        + IF meters[i].typ = 0 THEN 0 ELSE Enabled(meterTypes[meters[i].typ].flags)

(* A loaded program never uses a serial handle it has not got, neither for *)
(* a query nor for a write: except for a meter whose writes alone are      *)
(* disabled, and a write to a meter of formulas only.                      *)
HandlesKnown ==
  Loaded => \A i \in DOMAIN meters :
    LET m == meters[i]
    IN /\ m.typ # 0 /\ ~m.disabled => m.isTCP \/ m.isSerial \/ m.isFormulaOnly
       /\ ~(m.isTCP /\ m.isSerial)
       /\ m.isSerial /\ ~m.writeDisabled => m.mb
       /\ i \in writes /\ ~m.writeDisabled /\ ~m.isTCP /\ ~m.isFormulaOnly => m.mb

(* Formulas and writes find a meter by its name: no two meters that are    *)
(* not disabled have the same one, and a write never refers to another     *)
(* meter than the one it was read for.                                     *)
NamesFindOne ==
  /\ \A n \in Names : Cardinality(FindMeter(n)) <= 1
  /\ \A i \in writes : FindMeter(meters[i].name) = {i}

(* Every meter is polled by the schedules it names, or else by the default *)
(* one.                                                                    *)
EveryMeterScheduled ==
  Loaded => \A i \in DOMAIN meters :
    i \in members[Default] <=> \A s \in Schedules : i \notin members[s]

-----------------------------------------------------------------------------
(* Inductive invariants: what the properties above rest on.                *)

MeterType ==
  [given : SUBSET Options, opt : [Options -> Origins],
   flags : Seq({0, 1}), isFormulaOnly : BOOLEAN]

Meter ==
  [name : Names \cup {"none"}, typ : Nat, given : SUBSET Options,
   opt : [Options -> Origins], typeConflict : BOOLEAN,
   flags : Seq({0, 1}), numEnabled : Nat, disableSpecified : BOOLEAN,
   disabled : BOOLEAN, writeDisabled : BOOLEAN, hasAddress : BOOLEAN,
   isTCP : BOOLEAN, isSerial : BOOLEAN, isFormulaOnly : BOOLEAN,
   hasSchedule : Nat, mb : BOOLEAN]

FileInv ==
  /\ section \in {"top", "type", "meter", "done", "rejected"}
  /\ lines \in 0 .. MaxLines
  /\ defined \subseteq Schedules
  /\ meterTypes \in Seq(MeterType) /\ meters \in Seq(Meter)
  /\ section = "type" => cur \in MeterType
  /\ section = "meter" => cur \in Meter /\ cur.typ <= Len(meterTypes)
  /\ \A i \in DOMAIN meters :
       /\ meters[i].name # "none"
       /\ meters[i].typ <= Len(meterTypes)
       /\ \A o \in Options \ {"measurement"} : meters[i].opt[o] # "none"
  /\ \A t \in DOMAIN meterTypes :
       \A o \in Options \ {"measurement"} : meterTypes[t].opt[o] # "none"
  /\ section = "type" => \A o \in Options \ {"measurement"} : cur.opt[o] # "none"
  /\ section = "meter" =>
       \A o \in Options \ {"measurement", "mqttprefix"} : cur.opt[o] # "none"

(* The sections the parts below are about: the meters of the file and the  *)
(* one that is read.                                                       *)
Exact(m) ==
  m.numEnabled = Enabled(m.flags)
                   + IF m.typ = 0 THEN 0 ELSE Enabled(meterTypes[m.typ].flags)

CountsInv ==
  /\ \A i \in DOMAIN meters : Exact(meters[i])
  /\ section = "meter" => Exact(cur)

NamesInv ==
  /\ \A i, j \in DOMAIN meters :
       /\ meters[i].name = meters[j].name
       /\ ~meters[i].disabled /\ ~meters[j].disabled
       => i = j
  /\ \A i \in writes :
       i \in DOMAIN meters /\ ~meters[i].disabled /\ meters[i].typ # 0
  /\ section = "meter" =>
       \A i \in DOMAIN meters : meters[i].name = cur.name => meters[i].disabled

Reached(m) ==
  /\ m.typ # 0 /\ ~m.disabled => m.isTCP \/ m.isSerial \/ m.isFormulaOnly
  /\ m.isSerial => ~m.isTCP /\ ~m.disabled

HandlesInv ==
  \A i \in DOMAIN meters :
    Reached(meters[i]) /\ (Loaded => meters[i].mb = NeedsPort(meters[i]))

TypeInherited(t, o) ==
  /\ o \in t.given => t.opt[o] = "type"
  /\ o \notin t.given => t.opt[o] \in {"global", "none"}

OfType(m, o) ==
  m.typ # 0 /\ o # "mqttformat" /\ o \in meterTypes[m.typ].given

Inherited(m, o) ==
  /\ o \in m.given => m.opt[o] = "meter"
  /\ o \notin m.given /\ OfType(m, o) => m.opt[o] = "type"
  /\ o \notin m.given /\ ~OfType(m, o) => m.opt[o] \in {"global", "none"}

OptionsInv ==
  /\ \A t \in DOMAIN meterTypes : \A o \in Options : TypeInherited(meterTypes[t], o)
  /\ section = "type" => \A o \in Options : TypeInherited(cur, o)
  /\ \A i \in DOMAIN meters : \A o \in Options : Inherited(meters[i], o)
  /\ section = "meter" =>
       (\A o \in Options : Inherited(cur, o)) /\ (cur.typeConflict \/ cur.given = {})

(* A meter that names no schedule is a member of none.                     *)
ScheduledInv ==
  /\ DOMAIN members = Schedules \cup {Default}
  /\ \A s \in DOMAIN members : \A i \in members[s] :
       i \in DOMAIN meters \/ (i = Len(meters) + 1 /\ section \in {"meter", "rejected"})
  /\ \A i \in DOMAIN meters :
       meters[i].hasSchedule = 0 <=> \A s \in Schedules : i \notin members[s]
  /\ section = "meter" =>
       (cur.hasSchedule = 0 <=> \A s \in Schedules : Len(meters) + 1 \notin members[s])
  /\ ~Loaded => members[Default] = {}
  /\ Loaded => members[Default] = WithoutSchedule
=============================================================================
