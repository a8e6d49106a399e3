----------------------- MODULE MeterDefinitionsProofs -----------------------
(***************************************************************************)
(* Proofs about MeterDefinitions for files of any length, with any number  *)
(* of types, meters, names and schedules.                                  *)
(***************************************************************************)
EXTENDS MeterDefinitions, FiniteSetTheorems, TLAPS

-----------------------------------------------------------------------------
(* Types.                                                                  *)
LEMMA FileInit == DInit => FileInv
  BY DefinitionsAssumption DEF DInit, FileInv

LEMMA NewRecords ==
  /\ NewType \in MeterType
  /\ NewMeter \in Meter /\ NewMeter.typ = 0
  /\ \A o \in Options \ {"measurement"} : NewType.opt[o] # "none"
  /\ \A o \in Options \ {"measurement", "mqttprefix"} : NewMeter.opt[o] # "none"
BY DEF NewType, NewMeter, MeterType, Meter, Options, Origins

(* A line of a section changes the section read, and nothing before it.    *)
LEMMA FileBecomes ==
  ASSUME FileInv, NEW new, Becomes(new), lines > 0,
         section = "type" => /\ new \in MeterType
                             /\ \A o \in Options \ {"measurement"} : new.opt[o] # "none",
         section = "meter" => /\ new \in Meter /\ new.typ <= Len(meterTypes)
                              /\ \A o \in Options \ {"measurement", "mqttprefix"} :
                                   new.opt[o] # "none"
  PROVE  FileInv'
BY DefinitionsAssumption DEF FileInv, Becomes

LEMMA FileReject == FileInv /\ Reject => FileInv'
  BY DEF FileInv, Reject

LEMMA FileTypeLines ==
  ASSUME FileInv, TypeLines
  PROVE  FileInv'
<1> USE DEF InSection
<1>1. lines > 0 /\ section = "type" /\ cur \in MeterType
  BY DEF TypeLines, TypeOption, TypeField, Reject, FileInv
<1>2. ASSUME NEW o \in Options, TypeOption(o), ~Reject
      PROVE  FileInv'
  <2> DEFINE new == [cur EXCEPT !.opt[o] = "type", !.given = @ \cup {o}]
  <2>1. new \in MeterType
    BY <1>1 DEF MeterType, Origins
  <2>2. \A p \in Options \ {"measurement"} : new.opt[p] # "none"
    BY <1>1 DEF MeterType, FileInv
  <2>3. Becomes(new)
    BY <1>2 DEF TypeOption
  <2>4. QED
    BY <1>1, <2>1, <2>2, <2>3, FileBecomes
<1>3. ASSUME NEW value \in {0, 1}, NEW formula \in BOOLEAN, TypeField(value, formula)
      PROVE  FileInv'
  <2> DEFINE new == [cur EXCEPT !.flags = Append(@, value),
                                !.isFormulaOnly = @ /\ formula]
  <2>1. new \in MeterType /\ new.opt = cur.opt
    <3>1. Append(cur.flags, value) \in Seq({0, 1})
      BY <1>1 DEF MeterType
    <3>2. (cur.isFormulaOnly /\ formula) \in BOOLEAN
      OBVIOUS
    <3>3. QED
      BY <1>1, <3>1, <3>2 DEF MeterType
  <2>2. Becomes(new)
    BY <1>3 DEF TypeField
  <2>3. QED
    BY <1>1, <2>1, <2>2, FileBecomes DEF FileInv
<1>4. QED
  BY <1>2, <1>3, FileReject DEF TypeLines

LEMMA FileMeterOption ==
  ASSUME FileInv, NEW o \in Options, MeterOption(o)
  PROVE  FileInv'
<1> DEFINE new == [cur EXCEPT !.opt[o] = "meter", !.given = @ \cup {o},
                              !.typeConflict = TRUE]
<1>1. lines > 0 /\ section = "meter" /\ cur \in Meter /\ Becomes(new)
  BY DEF MeterOption, FileInv, InSection
<1>2. new \in Meter /\ new.typ = cur.typ
  BY <1>1 DEF Meter, Origins
<1>3. \A p \in Options \ {"measurement", "mqttprefix"} : new.opt[p] # "none"
  BY <1>1 DEF Meter, FileInv
<1>4. QED
  BY <1>1, <1>2, <1>3, FileBecomes DEF FileInv

(* A line that leaves the options and the type of the meter alone.         *)
LEMMA FileMeterLine ==
  ASSUME FileInv, section = "meter", lines > 0, NEW new, Becomes(new),
         new \in Meter, new.typ = cur.typ, new.opt = cur.opt
  PROVE  FileInv'
BY FileBecomes DEF FileInv

(* Counting what is sent gives a number.                                   *)
LEMMA EnabledType ==
  ASSUME NEW flags \in Seq({0, 1})
  PROVE  /\ IsFiniteSet({i \in DOMAIN flags : flags[i] = 1})
         /\ Enabled(flags) \in Nat
<1>1. IsFiniteSet(1 .. Len(flags))
  BY FS_Interval
<1>2. {i \in DOMAIN flags : flags[i] = 1} \subseteq 1 .. Len(flags)
  OBVIOUS
<1>3. QED
  BY <1>1, <1>2, FS_Subset, FS_CardinalityType DEF Enabled

(* type= takes the options over.                                           *)
LEMMA FileTypeLine ==
  ASSUME FileInv, NEW t \in 1 .. MaxTypes, TypeLine(t)
  PROVE  FileInv'
<1>1. lines > 0 /\ section = "meter" /\ cur \in Meter
  BY DEF TypeLine, FileInv, InSection
<1>2. CASE t > Len(meterTypes) \/ cur.typeConflict \/ cur.typ # 0
  BY <1>2, FileReject DEF TypeLine
<1>3. CASE ~(t > Len(meterTypes) \/ cur.typeConflict \/ cur.typ # 0)
  <2> DEFINE opts == [o \in Options |-> FromType(t, o)]
             new == [cur EXCEPT !.typ = t,
                       !.numEnabled = @ + Enabled(meterTypes[t].flags), !.opt = opts]
  <2>1. t \in DOMAIN meterTypes /\ meterTypes[t] \in MeterType
    BY <1>3, DefinitionsAssumption DEF FileInv
  <2>2. opts \in [Options -> Origins]
    BY <1>1, <2>1 DEF FromType, Meter, MeterType
  <2>3. Enabled(meterTypes[t].flags) \in Nat
    BY <2>1, EnabledType DEF MeterType
  <2>4. new \in Meter /\ new.typ = t /\ new.opt = opts
    <3>1. t \in Nat /\ cur.numEnabled + Enabled(meterTypes[t].flags) \in Nat
      BY <1>1, <2>3, DefinitionsAssumption DEF Meter
    <3> HIDE DEF opts
    <3>2. QED
      BY <1>1, <2>2, <3>1 DEF Meter
  <2>5. \A o \in Options \ {"measurement", "mqttprefix"} : opts[o] # "none"
    BY <1>1, <2>1 DEF FromType, FileInv
  <2>6. Becomes(new)
    BY <1>3 DEF TypeLine
  <2> HIDE DEF opts, new
  <2>7. new.typ <= Len(meterTypes)
    BY <1>3, <2>1, <2>4 DEF FileInv
  <2>8. QED
    BY <1>1, <2>4, <2>5, <2>6, <2>7, FileBecomes
<1>4. QED
  BY <1>2, <1>3

LEMMA FileMeterLines ==
  ASSUME FileInv, MeterLines
  PROVE  FileInv'
<1> USE DEF InSection
<1>1. lines > 0 /\ section = "meter" /\ cur \in Meter
  BY DEF MeterLines, MeterOption, MeterField, NameLine, TypeLine, DisabledLine,
         HostLine, AddressLine, ScheduleLine, FileInv
<1>2. ASSUME NEW value \in {0, 1}, MeterField(value)
      PROVE  FileInv'
  <2>1. Append(cur.flags, value) \in Seq({0, 1}) /\ cur.numEnabled + value \in Nat
    BY <1>1 DEF Meter
  <2>2. [cur EXCEPT !.flags = Append(@, value), !.numEnabled = @ + value] \in Meter
    BY <1>1, <2>1, ZenonT(60) DEF Meter
  <2>3. QED
    BY <1>1, <1>2, <2>2, FileMeterLine DEF MeterField, Meter
<1>3. ASSUME NEW n \in Names, NameLine(n)
      PROVE  FileInv'
  <2>1. [cur EXCEPT !.name = n] \in Meter
    BY <1>1, ZenonT(60) DEF Meter
  <2>2. QED
    BY <1>1, <1>3, <2>1, FileMeterLine, FileReject DEF NameLine, Meter
<1>4. ASSUME NEW reads \in BOOLEAN, NEW written \in BOOLEAN,
             DisabledLine(reads, written)
      PROVE  FileInv'
  <2>1. [cur EXCEPT !.disableSpecified = TRUE, !.disabled = reads,
                    !.writeDisabled = written] \in Meter
    BY <1>1, ZenonT(60) DEF Meter
  <2>2. QED
    BY <1>1, <1>4, <2>1, FileMeterLine, FileReject DEF DisabledLine, Meter
<1>5. CASE HostLine
  <2>1. [cur EXCEPT !.isTCP = TRUE] \in Meter
    BY <1>1, ZenonT(60) DEF Meter
  <2>2. QED
    BY <1>1, <1>5, <2>1, FileMeterLine, FileReject DEF HostLine, Meter
<1>6. CASE AddressLine
  <2>1. [cur EXCEPT !.hasAddress = TRUE] \in Meter
    BY <1>1, ZenonT(60) DEF Meter
  <2>2. QED
    BY <1>1, <1>6, <2>1, FileMeterLine DEF AddressLine, Meter
<1>7. ASSUME NEW s \in Schedules, ScheduleLine(s)
      PROVE  FileInv'
  <2>1. CASE s \in defined
    <3>1. cur.hasSchedule + 1 \in Nat
      BY <1>1 DEF Meter
    <3>2. [cur EXCEPT !.hasSchedule = @ + 1] \in Meter
      BY <1>1, <3>1, ZenonT(60) DEF Meter
    <3>3. /\ cur' = [cur EXCEPT !.hasSchedule = @ + 1] /\ lines' = lines - 1
          /\ UNCHANGED <<section, hasSerial, defined, meterTypes, meters, writes>>
      BY <1>7, <2>1 DEF ScheduleLine
    <3>4. cur'.typ = cur.typ /\ cur'.opt = cur.opt
      BY <1>1, <3>3 DEF Meter
    <3>5. QED
      BY <1>1, <3>2, <3>3, <3>4, DefinitionsAssumption DEF FileInv
  <2>2. CASE s \notin defined
    BY <1>1, <1>7, <2>2, FileMeterLine, FileReject DEF ScheduleLine
  <2>3. QED
    BY <2>1, <2>2
<1>8. QED
  BY <1>2, <1>3, <1>4, <1>5, <1>6, <1>7, FileMeterOption, FileTypeLine DEF MeterLines

(* Between the sections.                                                   *)
LEMMA FileSections ==
  ASSUME FileInv, Sections
  PROVE  FileInv'
<1>1. CASE BeginType
  BY <1>1, NewRecords DEF BeginType, Begin, FileInv
<1>2. CASE BeginMeter
  BY <1>2, NewRecords DEF BeginMeter, Begin, FileInv
<1>3. ASSUME NEW n \in Names, WritesSection(n)
      PROVE  FileInv'
  BY <1>3, FileReject, DefinitionsAssumption DEF WritesSection, FileInv
<1>4. ASSUME NEW s \in Schedules, ScheduleSection(s)
      PROVE  FileInv'
  BY <1>4, FileReject, DefinitionsAssumption DEF ScheduleSection, FileInv
<1>5. QED
  BY <1>1, <1>2, <1>3, <1>4 DEF Sections

LEMMA FileEndType ==
  ASSUME FileInv, EndType
  PROVE  FileInv'
<1>1. CASE cur.flags = <<>>
  BY <1>1, FileReject DEF EndType
<1>2. CASE cur.flags # <<>>
  <2>1. /\ section = "type" /\ meterTypes' = Append(meterTypes, cur)
        /\ section' = "top" /\ UNCHANGED <<lines, defined, meters>>
    BY <1>2 DEF EndType
  <2>2. cur \in MeterType /\ Len(meterTypes) \in Nat
    BY <2>1 DEF FileInv
  <2>3. meterTypes' \in Seq(MeterType) /\ Len(meterTypes') = Len(meterTypes) + 1
    BY <2>1, <2>2 DEF FileInv
  <2>4. \A t \in DOMAIN meterTypes' :
          \A o \in Options \ {"measurement"} : meterTypes'[t].opt[o] # "none"
    BY <2>1, <2>2 DEF FileInv
  <2>5. \A i \in DOMAIN meters : meters[i].typ \in Nat
    <3>1. \A i \in DOMAIN meters : meters[i] \in Meter
      BY DEF FileInv
    <3>2. QED
      BY <3>1 DEF Meter
  <2>6. QED
    BY <2>1, <2>2, <2>3, <2>4, <2>5 DEF FileInv
<1>3. QED
  BY <1>1, <1>2

(* The meter as it is added: only how it is reached and its prefix change. *)
LEMMA FinishedMeter ==
  ASSUME FileInv, section = "meter"
  PROVE  /\ Finished \in Meter
         /\ Finished.name = cur.name /\ Finished.typ = cur.typ
         /\ Finished.given = cur.given /\ Finished.disabled = cur.disabled
         /\ Finished.flags = cur.flags /\ Finished.numEnabled = cur.numEnabled
         /\ Finished.hasSchedule = cur.hasSchedule
         /\ \A o \in Options \ {"mqttprefix"} : Finished.opt[o] = cur.opt[o]
         /\ Finished.opt["mqttprefix"] =
              IF cur.opt["mqttprefix"] = "none" THEN "global" ELSE cur.opt["mqttprefix"]
<1> DEFINE tcp == cur.isTCP /\ ~(cur.typ # 0 /\ cur.disabled)
           serial == cur.typ # 0 /\ ~cur.disabled /\ ~cur.isTCP /\ ~TypeIsFormulaOnly
           prefix == IF cur.opt["mqttprefix"] = "none" THEN "global"
                     ELSE cur.opt["mqttprefix"]
           only == TypeIsFormulaOnly
<1>1. cur \in Meter
  BY DEF FileInv
<1>2. tcp \in BOOLEAN /\ serial \in BOOLEAN /\ prefix \in Origins
  BY <1>1 DEF Meter, Origins, Options
<1>3. only \in BOOLEAN
  <2>1. cur.typ # 0 => meterTypes[cur.typ] \in MeterType
    BY <1>1 DEF FileInv, Meter
  <2>2. QED
    BY <2>1 DEF TypeIsFormulaOnly, MeterType
<1> DEFINE opts == [cur.opt EXCEPT !["mqttprefix"] = prefix]
<1>4. Finished = [cur EXCEPT !.isFormulaOnly = only, !.isTCP = tcp, !.isSerial = serial,
                             !.opt = opts]
  BY <1>1 DEF Finished, Meter
<1>5. /\ opts \in [Options -> Origins]
      /\ \A o \in Options \ {"mqttprefix"} : opts[o] = cur.opt[o]
      /\ opts["mqttprefix"] = prefix
  BY <1>1, <1>2 DEF Meter, Options
<1> HIDE DEF only, tcp, serial, opts
<1>6. Finished.opt = opts
  BY <1>1, <1>4 DEF Meter
<1>7. Finished \in Meter
  BY <1>1, <1>2, <1>3, <1>4, <1>5, ZenonT(120) DEF Meter
<1>8. /\ Finished.name = cur.name /\ Finished.typ = cur.typ
      /\ Finished.given = cur.given /\ Finished.disabled = cur.disabled
      /\ Finished.flags = cur.flags /\ Finished.numEnabled = cur.numEnabled
      /\ Finished.hasSchedule = cur.hasSchedule
  BY <1>1, <1>4, SMTT(60) DEF Meter
<1>9. QED
  BY <1>5, <1>6, <1>7, <1>8 DEF prefix

LEMMA FileEndMeter ==
  ASSUME FileInv, EndMeter
  PROVE  FileInv'
<1>1. CASE Incomplete
  BY <1>1, FileReject DEF EndMeter
<1>2. CASE ~Incomplete
  <2>1. /\ section = "meter" /\ meters' = Append(meters, Finished)
        /\ section' = "top" /\ UNCHANGED <<lines, defined, meterTypes>>
    BY <1>2 DEF EndMeter
  <2>2. Finished \in Meter /\ Finished.name # "none" /\ Finished.typ <= Len(meterTypes)
    BY <1>2, <2>1, FinishedMeter DEF Incomplete, FileInv
  <2>3. \A o \in Options \ {"measurement"} : Finished.opt[o] # "none"
    BY <2>1, FinishedMeter DEF FileInv
  <2>4. meters' \in Seq(Meter)
    BY <2>1, <2>2 DEF FileInv
  <2>5. \A i \in DOMAIN meters' : \/ i \in DOMAIN meters /\ meters'[i] = meters[i]
                                  \/ meters'[i] = Finished
    BY <2>1, <2>2 DEF FileInv
  <2>6. QED
    BY <2>1, <2>2, <2>3, <2>4, <2>5 DEF FileInv
<1>3. QED
  BY <1>1, <1>2

(* At the end of the file the handles are filled in.                       *)
LEMMA LoadedMeters ==
  ASSUME FileInv, EndOfFile, section' # "rejected"
  PROVE  /\ section = "top" /\ section' = "done"
         /\ members' = [members EXCEPT ![Default] = @ \cup WithoutSchedule]
         /\ UNCHANGED <<lines, defined, meterTypes, writes>>
         /\ meters' \in Seq(Meter) /\ DOMAIN meters' = DOMAIN meters
         /\ \A i \in DOMAIN meters :
              meters'[i] = [meters[i] EXCEPT !.mb = NeedsPort(meters[i])]
<1>1. /\ section = "top" /\ section' = "done"
      /\ meters' = [i \in DOMAIN meters |-> [meters[i] EXCEPT !.mb = NeedsPort(meters[i])]]
      /\ members' = [members EXCEPT ![Default] = @ \cup WithoutSchedule]
      /\ UNCHANGED <<lines, defined, meterTypes, writes>>
  BY DEF EndOfFile, Reject
<1>2. ASSUME NEW m \in Meter
      PROVE  [m EXCEPT !.mb = NeedsPort(m)] \in Meter
  <2>1. NeedsPort(m) \in BOOLEAN
    BY DEF NeedsPort
  <2> HIDE DEF NeedsPort
  <2>2. QED
    BY <2>1 DEF Meter
<1>3. \A i \in DOMAIN meters : meters'[i] \in Meter
  BY <1>1, <1>2 DEF FileInv
<1>4. DOMAIN meters = 1 .. Len(meters) /\ Len(meters) \in Nat
  BY DEF FileInv
<1>5. meters' \in Seq(Meter)
  BY <1>1, <1>3, <1>4
<1>6. QED
  BY <1>1, <1>5

LEMMA FileEndOfFile ==
  ASSUME FileInv, EndOfFile
  PROVE  FileInv'
<1>1. CASE section' = "rejected"
  <2>1. UNCHANGED <<lines, defined, meterTypes, meters, writes>>
    BY <1>1 DEF EndOfFile, Reject
  <2>2. QED
    BY <1>1, <2>1 DEF FileInv
<1>2. CASE section' # "rejected"
  <2>1. \A i \in DOMAIN meters' :
          /\ meters'[i].name = meters[i].name /\ meters'[i].typ = meters[i].typ
          /\ meters'[i].opt = meters[i].opt
    <3>1. \A i \in DOMAIN meters : meters[i] \in Meter
      BY DEF FileInv
    <3>2. ASSUME NEW m \in Meter, NEW n, NEW h, n = [m EXCEPT !.mb = h]
          PROVE  n.name = m.name /\ n.typ = m.typ /\ n.opt = m.opt
      BY <3>2 DEF Meter
    <3>3. ASSUME NEW i \in DOMAIN meters'
          PROVE  /\ meters'[i].name = meters[i].name /\ meters'[i].typ = meters[i].typ
                 /\ meters'[i].opt = meters[i].opt
      <4>1. meters[i] \in Meter
        BY <1>2, <3>1, <3>3, LoadedMeters
      <4>2. \E h : meters'[i] = [meters[i] EXCEPT !.mb = h]
        BY <1>2, <3>3, LoadedMeters
      <4>3. QED
        BY <3>2, <4>1, <4>2
    <3>4. QED
      BY <3>3
  <2>2. QED
    BY <1>2, <2>1, LoadedMeters DEF FileInv
<1>3. QED
  BY <1>1, <1>2

LEMMA FileStep == FileInv /\ [DNext]_dvars => FileInv'
<1>1. FileInv /\ UNCHANGED dvars => FileInv'
  BY DEF FileInv, dvars
<1>2. QED
  BY <1>1, FileSections, FileTypeLines, FileEndType, FileMeterLines, FileEndMeter,
     FileEndOfFile DEF DNext

(* The lines that are about neither name, type, options, fields nor        *)
(* schedules of the meter.                                                 *)
LEMMA OtherLines ==
  ASSUME FileInv, MeterLines
  PROVE  \/ Reject
         \/ \E o \in Options : MeterOption(o)
         \/ \E value \in {0, 1} : MeterField(value)
         \/ \E n \in Names : NameLine(n) /\ Becomes([cur EXCEPT !.name = n])
         \/ \E t \in 1 .. MaxTypes : TypeLine(t)
         \/ \E s \in Schedules : ScheduleLine(s) /\ s \in defined
         \/ /\ section = "meter" /\ Becomes(cur')
            /\ \/ \E reads, written \in BOOLEAN :
                    cur' = [cur EXCEPT !.disableSpecified = TRUE, !.disabled = reads,
                                       !.writeDisabled = written]
               \/ cur' = [cur EXCEPT !.isTCP = TRUE]
               \/ cur' = [cur EXCEPT !.hasAddress = TRUE]
               \/ cur' = cur
BY DEF MeterLines, NameLine, DisabledLine, HostLine, AddressLine, ScheduleLine,
       InSection, Becomes

LEMMA SameButReach ==
  ASSUME FileInv, section = "meter",
         \/ \E reads, written \in BOOLEAN :
              cur' = [cur EXCEPT !.disableSpecified = TRUE, !.disabled = reads,
                                 !.writeDisabled = written]
         \/ cur' = [cur EXCEPT !.isTCP = TRUE]
         \/ cur' = [cur EXCEPT !.hasAddress = TRUE]
         \/ cur' = cur
  PROVE  /\ cur'.name = cur.name /\ cur'.typ = cur.typ
         /\ cur'.given = cur.given /\ cur'.opt = cur.opt
         /\ cur'.typeConflict = cur.typeConflict
         /\ cur'.flags = cur.flags /\ cur'.numEnabled = cur.numEnabled
         /\ cur'.hasSchedule = cur.hasSchedule
<1>1. cur \in Meter
  BY DEF FileInv
<1>2. QED
  BY <1>1 DEF Meter

(* The meters of a file that has been read so far stay as they are.        *)
LEMMA MetersKept ==
  ASSUME FileInv, EndMeter, ~Incomplete
  PROVE  /\ DOMAIN meters' = DOMAIN meters \cup {Len(meters) + 1}
         /\ Len(meters) \in Nat /\ Len(meters') = Len(meters) + 1
         /\ Len(meters) + 1 \notin DOMAIN meters
         /\ \A i \in DOMAIN meters : meters'[i] = meters[i]
         /\ meters'[Len(meters) + 1] = Finished
         /\ section = "meter" /\ section' = "top"
         /\ UNCHANGED <<meterTypes, members, writes>>
<1>1. /\ section = "meter" /\ section' = "top" /\ meters' = Append(meters, Finished)
      /\ UNCHANGED <<meterTypes, members, writes>>
  BY DEF EndMeter
<1>2. meters \in Seq(Meter) /\ Finished \in Meter
  BY <1>1, FinishedMeter DEF FileInv
<1>3. QED
  BY <1>1, <1>2

LEMMA TypesKept ==
  ASSUME FileInv, EndType, cur.flags # <<>>
  PROVE  /\ DOMAIN meterTypes' = DOMAIN meterTypes \cup {Len(meterTypes) + 1}
         /\ Len(meterTypes) + 1 \notin DOMAIN meterTypes
         /\ \A t \in DOMAIN meterTypes : meterTypes'[t] = meterTypes[t]
         /\ meterTypes'[Len(meterTypes) + 1] = cur
         /\ section = "type" /\ section' = "top"
         /\ UNCHANGED <<meters, members, writes>>
<1>1. /\ section = "type" /\ section' = "top" /\ meterTypes' = Append(meterTypes, cur)
      /\ UNCHANGED <<meters, members, writes>>
  BY DEF EndType
<1>2. meterTypes \in Seq(MeterType) /\ cur \in MeterType
  BY <1>1 DEF FileInv
<1>3. QED
  BY <1>1, <1>2

(* A meter's type is one of the types read so far.                         *)
LEMMA TypeOfMeter ==
  ASSUME FileInv
  PROVE  /\ \A i \in DOMAIN meters :
              meters[i] \in Meter /\ (meters[i].typ # 0 => meters[i].typ \in DOMAIN meterTypes)
         /\ section = "meter" =>
              cur \in Meter /\ (cur.typ # 0 => cur.typ \in DOMAIN meterTypes)
<1>1. /\ \A i \in DOMAIN meters : meters[i] \in Meter /\ meters[i].typ <= Len(meterTypes)
      /\ section = "meter" => cur \in Meter /\ cur.typ <= Len(meterTypes)
      /\ DOMAIN meterTypes = 1 .. Len(meterTypes) /\ Len(meterTypes) \in Nat
  BY DEF FileInv
<1>2. \A m \in Meter : m.typ \in Nat
  BY DEF Meter
<1>3. QED
  BY <1>1, <1>2

-----------------------------------------------------------------------------
(* The counters.                                                           *)
LEMMA EnabledAppend ==
  ASSUME NEW flags \in Seq({0, 1}), NEW value \in {0, 1}
  PROVE  Enabled(Append(flags, value)) = Enabled(flags) + value
<1> DEFINE S == {i \in DOMAIN flags : flags[i] = 1}
           T == {i \in DOMAIN Append(flags, value) : Append(flags, value)[i] = 1}
<1>1. IsFiniteSet(S) /\ Enabled(flags) = Cardinality(S) /\ Cardinality(S) \in Nat
  BY EnabledType DEF Enabled
<1>2. CASE value = 1
  <2>1. T = S \cup {Len(flags) + 1} /\ Len(flags) + 1 \notin S
    BY <1>2
  <2>2. Cardinality(S \cup {Len(flags) + 1}) = Cardinality(S) + 1
    BY <1>1, <2>1, FS_AddElement
  <2>3. QED
    BY <1>1, <1>2, <2>1, <2>2 DEF Enabled
<1>3. CASE value = 0
  <2>1. T = S
    BY <1>3
  <2>2. Enabled(Append(flags, value)) = Cardinality(T)
    BY DEF Enabled
  <2> HIDE DEF S, T
  <2>3. QED
    BY <1>1, <1>3, <2>1, <2>2
<1>4. QED
  BY <1>2, <1>3

LEMMA CountsMeterLines ==
  ASSUME FileInv, CountsInv, MeterLines
  PROVE  CountsInv'
<1>1. CASE Reject
  BY <1>1 DEF Reject, CountsInv, Exact
<1> SUFFICES ASSUME section = "meter", cur \in Meter, UNCHANGED <<section, meterTypes, meters>>
             PROVE  Exact(cur)'
  <2>1. section = "meter" /\ cur \in Meter
    BY TypeOfMeter DEF MeterLines, MeterOption, MeterField, NameLine, TypeLine,
           DisabledLine, HostLine, AddressLine, ScheduleLine, InSection
  <2>2. Reject \/ UNCHANGED <<section, meterTypes, meters>>
    BY DEF MeterLines, MeterOption, MeterField, NameLine, TypeLine, DisabledLine,
           HostLine, AddressLine, ScheduleLine, Becomes
  <2>3. QED
    BY <1>1, <2>1, <2>2 DEF CountsInv, Exact
<1>2. ASSUME NEW o \in Options, MeterOption(o)
      PROVE  Exact(cur)'
  BY <1>2 DEF MeterOption, Becomes, CountsInv, Exact, Meter
<1>3. ASSUME NEW value \in {0, 1}, MeterField(value)
      PROVE  Exact(cur)'
  <2>1. /\ cur'.flags = Append(cur.flags, value)
        /\ cur'.numEnabled = cur.numEnabled + value /\ cur'.typ = cur.typ
    BY <1>3 DEF MeterField, Becomes, Meter
  <2>2. Enabled(cur'.flags) = Enabled(cur.flags) + value
    BY <2>1, EnabledAppend DEF Meter
  <2>3. /\ Enabled(cur.flags) \in Nat /\ cur.numEnabled \in Nat
        /\ cur.typ # 0 => Enabled(meterTypes[cur.typ].flags) \in Nat
    <3>1. cur.flags \in Seq({0, 1}) /\ cur.numEnabled \in Nat
      BY DEF Meter
    <3>2. cur.typ # 0 => meterTypes[cur.typ] \in MeterType
      BY TypeOfMeter DEF FileInv
    <3>3. cur.typ # 0 => meterTypes[cur.typ].flags \in Seq({0, 1})
      BY <3>2 DEF MeterType
    <3>4. QED
      BY <3>1, <3>3, EnabledType
  <2>4. QED
    BY <2>1, <2>2, <2>3 DEF CountsInv, Exact
<1>4. ASSUME NEW n \in Names, Becomes([cur EXCEPT !.name = n])
      PROVE  Exact(cur)'
  BY <1>4 DEF Becomes, CountsInv, Exact, Meter
<1>5. ASSUME NEW t \in 1 .. MaxTypes, TypeLine(t)
      PROVE  Exact(cur)' \/ Reject
  <2>1. CASE t > Len(meterTypes) \/ cur.typeConflict \/ cur.typ # 0
    BY <1>5, <2>1 DEF TypeLine
  <2>2. CASE ~(t > Len(meterTypes) \/ cur.typeConflict \/ cur.typ # 0)
    <3>1. /\ cur'.flags = cur.flags /\ cur'.typ = t /\ cur.typ = 0
          /\ cur'.numEnabled = cur.numEnabled + Enabled(meterTypes[t].flags)
      BY <1>5, <2>2 DEF TypeLine, Becomes, Meter
    <3>2. t # 0 /\ cur.numEnabled = Enabled(cur.flags)
      <4>1. t \in Nat /\ t # 0
        BY DefinitionsAssumption
      <4>2. cur.flags \in Seq({0, 1})
        BY DEF Meter
      <4>3. Enabled(cur.flags) \in Nat
        BY <4>2, EnabledType
      <4>4. QED
        BY <3>1, <4>1, <4>3 DEF CountsInv, Exact
    <3>3. QED
      BY <3>1, <3>2 DEF Exact
  <2>3. QED
    BY <2>1, <2>2
<1>6. ASSUME NEW s \in Schedules, ScheduleLine(s), s \in defined
      PROVE  Exact(cur)'
  BY <1>6 DEF ScheduleLine, CountsInv, Exact, Meter
<1>7. ASSUME cur'.flags = cur.flags, cur'.numEnabled = cur.numEnabled, cur'.typ = cur.typ
      PROVE  Exact(cur)'
  BY <1>7 DEF CountsInv, Exact
<1>8. QED
  BY <1>2, <1>3, <1>4, <1>5, <1>6, <1>7, OtherLines, SameButReach DEF Reject

LEMMA CountsStep == FileInv /\ CountsInv /\ [DNext]_dvars => CountsInv'
<1> SUFFICES ASSUME FileInv, CountsInv, [DNext]_dvars
             PROVE  CountsInv'
  OBVIOUS
<1>1. CASE Reject \/ UNCHANGED dvars
  BY <1>1 DEF Reject, dvars, CountsInv, Exact
<1>2. CASE Sections
  <2>1. UNCHANGED <<meterTypes, meters>> /\ section = "top" /\ (section' = "meter" => cur' = NewMeter)
    BY <1>2 DEF Sections, BeginType, BeginMeter, Begin, WritesSection, ScheduleSection, Reject
  <2>2. Enabled(<<>>) = 0
    BY FS_EmptySet DEF Enabled
  <2>3. NewMeter.flags = <<>> /\ NewMeter.numEnabled = 0 /\ NewMeter.typ = 0
    BY DEF NewMeter
  <2>4. QED
    BY <2>1, <2>2, <2>3 DEF CountsInv, Exact
<1>3. CASE TypeLines
  BY <1>3 DEF TypeLines, TypeOption, TypeField, InSection, Becomes, Reject, CountsInv, Exact
<1>4. CASE EndType /\ cur.flags # <<>>
  BY <1>4, TypesKept, TypeOfMeter DEF CountsInv, Exact
<1>5. CASE MeterLines
  BY <1>5, CountsMeterLines
<1>6. CASE EndMeter /\ ~Incomplete
  BY <1>6, MetersKept, FinishedMeter DEF CountsInv, Exact
<1>7. CASE EndOfFile
  <2>1. CASE section' = "rejected"
    BY <1>7, <2>1 DEF EndOfFile, Reject, CountsInv, Exact
  <2>2. CASE section' # "rejected"
    <3>1. \A i \in DOMAIN meters :
            /\ meters'[i].numEnabled = meters[i].numEnabled
            /\ meters'[i].flags = meters[i].flags /\ meters'[i].typ = meters[i].typ
      BY <1>7, <2>2, LoadedMeters, TypeOfMeter DEF Meter
    <3>2. QED
      BY <1>7, <2>2, <3>1, LoadedMeters DEF CountsInv, Exact
  <2>3. QED
    BY <2>1, <2>2
<1>8. QED
  BY <1>1, <1>2, <1>3, <1>4, <1>5, <1>6, <1>7 DEF DNext, EndType, EndMeter

(* Whether a meter is sent is decided by counters that agree with its      *)
(* fields, in files of any length and any order of lines.                  *)
THEOREM CountersAgree == DSpec => []CountsExact
<1>1. DInit => FileInv /\ CountsInv
  BY FileInit DEF DInit, CountsInv
<1>2. FileInv /\ CountsInv /\ [DNext]_dvars => FileInv' /\ CountsInv'
  BY FileStep, CountsStep
<1>3. CountsInv => CountsExact
  BY DEF CountsInv, CountsExact, Exact
<1>4. QED
  BY <1>1, <1>2, <1>3, PTL DEF DSpec

-----------------------------------------------------------------------------
(* Names.                                                                  *)
LEMMA NamesMeterLines ==
  ASSUME FileInv, NamesInv, MeterLines
  PROVE  NamesInv'
<1>1. CASE Reject
  BY <1>1 DEF Reject, NamesInv
<1>2. CASE ~Reject
  <2>1. /\ section = "meter" /\ cur \in Meter
        /\ UNCHANGED <<section, meterTypes, meters, writes>>
    BY <1>2, TypeOfMeter DEF MeterLines, MeterOption, MeterField, NameLine, TypeLine,
           DisabledLine, HostLine, AddressLine, ScheduleLine, InSection, Becomes
  <2>2. cur'.name = cur.name
        \/ \A i \in DOMAIN meters : meters[i].name = cur'.name => meters[i].disabled
    <3>1. ASSUME NEW n \in Names, NameLine(n), Becomes([cur EXCEPT !.name = n])
          PROVE  \A i \in DOMAIN meters : meters[i].name = cur'.name => meters[i].disabled
      <4>1. FindMeter(n) = {}
        BY <1>2, <3>1 DEF NameLine
      <4>2. cur'.name = n
        BY <2>1, <3>1 DEF Becomes, Meter
      <4>3. QED
        BY <4>1, <4>2 DEF FindMeter
    <3>2. ASSUME NEW o \in Options, MeterOption(o)
          PROVE  cur'.name = cur.name
      BY <2>1, <3>2 DEF MeterOption, Becomes, Meter
    <3>3. ASSUME NEW value \in {0, 1}, MeterField(value)
          PROVE  cur'.name = cur.name
      BY <2>1, <3>3 DEF MeterField, Becomes, Meter
    <3>4. ASSUME NEW t \in 1 .. MaxTypes, TypeLine(t)
          PROVE  cur'.name = cur.name
      BY <1>2, <2>1, <3>4 DEF TypeLine, Becomes, Meter
    <3>5. ASSUME NEW s \in Schedules, ScheduleLine(s), s \in defined
          PROVE  cur'.name = cur.name
      BY <2>1, <3>5 DEF ScheduleLine, Meter
    <3>6. QED
      BY <1>2, <2>1, <3>1, <3>2, <3>3, <3>4, <3>5, OtherLines, SameButReach
  <2>3. QED
    BY <2>1, <2>2 DEF NamesInv
<1>3. QED
  BY <1>1, <1>2

LEMMA NamesStep == FileInv /\ NamesInv /\ [DNext]_dvars => NamesInv'
<1> SUFFICES ASSUME FileInv, NamesInv, [DNext]_dvars
             PROVE  NamesInv'
  OBVIOUS
<1>1. CASE Reject \/ UNCHANGED dvars
  BY <1>1 DEF Reject, dvars, NamesInv
<1>2. CASE Sections
  <2>1. ASSUME NEW n \in Names, WritesSection(n), ~Reject
        PROVE  NamesInv'
    <3>1. /\ writes' = writes \cup FindMeter(n) /\ section = "top"
          /\ \A i \in FindMeter(n) : meters[i].typ # 0
          /\ UNCHANGED <<section, meters>>
      BY <2>1 DEF WritesSection
    <3>2. QED
      BY <3>1 DEF NamesInv, FindMeter
  <2>2. CASE BeginMeter
    <3>1. NewMeter.name = "none" /\ section' = "meter" /\ cur' = NewMeter
          /\ UNCHANGED <<meters, writes>>
      BY <2>2 DEF BeginMeter, Begin, NewMeter
    <3>2. \A i \in DOMAIN meters : meters[i].name # "none"
      BY DEF FileInv
    <3>3. QED
      BY <3>1, <3>2 DEF NamesInv
  <2>3. CASE BeginType
    BY <2>3 DEF BeginType, Begin, NamesInv
  <2>4. ASSUME NEW s \in Schedules, ScheduleSection(s), ~Reject
        PROVE  NamesInv'
    BY <2>4 DEF ScheduleSection, NamesInv
  <2>5. QED
    BY <1>1, <1>2, <2>1, <2>2, <2>3, <2>4 DEF Sections
<1>3. CASE TypeLines
  BY <1>3 DEF TypeLines, TypeOption, TypeField, InSection, Becomes, Reject, NamesInv
<1>4. CASE EndType /\ cur.flags # <<>>
  BY <1>4, TypesKept DEF NamesInv
<1>5. CASE MeterLines
  BY <1>5, NamesMeterLines
<1>6. CASE EndMeter /\ ~Incomplete
  <2>1. /\ DOMAIN meters' = DOMAIN meters \cup {Len(meters) + 1}
        /\ \A i \in DOMAIN meters : meters'[i] = meters[i]
        /\ meters'[Len(meters) + 1].name = cur.name
        /\ section = "meter" /\ section' = "top" /\ UNCHANGED writes
    BY <1>6, MetersKept, FinishedMeter
  <2>2. \A i \in DOMAIN meters : meters[i].name = cur.name => meters[i].disabled
    BY <2>1 DEF NamesInv
  <2>3. QED
    BY <2>1, <2>2 DEF NamesInv
<1>7. CASE EndOfFile
  <2>1. CASE section' = "rejected"
    BY <1>7, <2>1 DEF EndOfFile, Reject, NamesInv
  <2>2. CASE section' # "rejected"
    <3>1. \A i \in DOMAIN meters :
            /\ meters'[i].name = meters[i].name
            /\ meters'[i].disabled = meters[i].disabled /\ meters'[i].typ = meters[i].typ
      BY <1>7, <2>2, LoadedMeters, TypeOfMeter DEF Meter
    <3>2. QED
      BY <1>7, <2>2, <3>1, LoadedMeters DEF NamesInv
  <2>3. QED
    BY <2>1, <2>2
<1>8. QED
  BY <1>1, <1>2, <1>3, <1>4, <1>5, <1>6, <1>7 DEF DNext, EndType, EndMeter

LEMMA NamesInvariant == DSpec => [](FileInv /\ NamesInv)
<1>1. DInit => FileInv /\ NamesInv
  BY FileInit DEF DInit, NamesInv
<1>2. FileInv /\ NamesInv /\ [DNext]_dvars => FileInv' /\ NamesInv'
  BY FileStep, NamesStep
<1>3. QED
  BY <1>1, <1>2, PTL DEF DSpec

(* However many meters a file has, a name that a formula or a write uses   *)
(* stands for one meter, and a write keeps the meter it was read for.      *)
THEOREM NamesAreUnique == DSpec => []NamesFindOne
<1>1. FileInv /\ NamesInv => NamesFindOne
  <2> SUFFICES ASSUME NamesInv
               PROVE  NamesFindOne
    OBVIOUS
  <2>1. ASSUME NEW n \in Names
        PROVE  Cardinality(FindMeter(n)) <= 1
    <3>1. CASE FindMeter(n) = {}
      BY <3>1, FS_EmptySet
    <3>2. ASSUME NEW i \in FindMeter(n)
          PROVE  Cardinality(FindMeter(n)) <= 1
      <4>1. FindMeter(n) = {i}
        BY <3>2 DEF FindMeter, NamesInv
      <4>2. QED
        BY <4>1, FS_Singleton
    <3>3. QED
      BY <3>1, <3>2
  <2>2. ASSUME NEW i \in writes
        PROVE  FindMeter(meters[i].name) = {i}
    BY <2>2 DEF FindMeter, NamesInv
  <2>3. QED
    BY <2>1, <2>2 DEF NamesFindOne
<1>2. QED
  BY <1>1, NamesInvariant, PTL

-----------------------------------------------------------------------------
(* Handles.                                                                *)
LEMMA FinishedReached ==
  ASSUME FileInv, section = "meter"
  PROVE  Reached(Finished)
<1>1. cur \in Meter
  BY DEF FileInv
<1>2. /\ Finished.isFormulaOnly <=> TypeIsFormulaOnly
      /\ Finished.isTCP <=> cur.isTCP /\ ~(cur.typ # 0 /\ cur.disabled)
      /\ Finished.isSerial
           <=> cur.typ # 0 /\ ~cur.disabled /\ ~cur.isTCP /\ ~TypeIsFormulaOnly
  BY <1>1 DEF Finished, Meter
<1>3. QED
  BY <1>2, FinishedMeter DEF Reached

LEMMA HandlesStep == FileInv /\ HandlesInv /\ [DNext]_dvars => HandlesInv'
<1> SUFFICES ASSUME FileInv, HandlesInv, [DNext]_dvars
             PROVE  HandlesInv'
  OBVIOUS
<1>1. CASE UNCHANGED meters /\ section' # "done"
  BY <1>1 DEF HandlesInv, Reached, Loaded
<1>2. CASE EndMeter /\ ~Incomplete
  BY <1>2, MetersKept, FinishedReached DEF HandlesInv, Loaded, Reached
<1>3. CASE EndOfFile /\ section' # "rejected"
  <2>1. \A i \in DOMAIN meters :
          /\ Reached(meters[i]) => Reached(meters'[i])
          /\ meters'[i].mb = NeedsPort(meters'[i])
    BY <1>3, LoadedMeters, TypeOfMeter DEF Reached, NeedsPort, Meter
  <2>2. QED
    BY <1>3, <2>1, LoadedMeters DEF HandlesInv, Reached
<1>4. CASE UNCHANGED dvars
  BY <1>4 DEF HandlesInv, Reached, Loaded, NeedsPort, dvars
<1>5. DNext => \/ UNCHANGED meters /\ section' # "done"
               \/ EndMeter /\ ~Incomplete
               \/ EndOfFile /\ section' # "rejected"
  <2>1. Sections => UNCHANGED meters /\ section' # "done"
    BY DEF Sections, BeginType, BeginMeter, Begin, WritesSection, ScheduleSection, Reject
  <2>2. TypeLines \/ EndType => UNCHANGED meters /\ section' # "done"
    BY DEF TypeLines, TypeOption, TypeField, EndType, InSection, Becomes, Reject
  <2>3. MeterLines => UNCHANGED meters /\ section' # "done"
    BY DEF MeterLines, MeterOption, MeterField, NameLine, TypeLine, DisabledLine,
           HostLine, AddressLine, ScheduleLine, InSection, Becomes, Reject
  <2>4. (EndMeter /\ Incomplete) \/ (EndOfFile /\ section' = "rejected")
          => UNCHANGED meters /\ section' # "done"
    BY DEF EndMeter, EndOfFile, Reject
  <2>5. QED
    BY <2>1, <2>2, <2>3, <2>4 DEF DNext
<1>6. QED
  BY <1>1, <1>2, <1>3, <1>4, <1>5

(* A loaded program has every serial handle a query or a write will use,   *)
(* with the exceptions HandlesKnown names, for every file.                 *)
THEOREM HandlesArePresent == DSpec => []HandlesKnown
<1>1. DInit => HandlesInv
  BY DEF DInit, HandlesInv
<1>2. FileInv /\ HandlesInv /\ [DNext]_dvars => HandlesInv'
  BY HandlesStep
<1>3. FileInv /\ NamesInv /\ HandlesInv => HandlesKnown
  BY TypeOfMeter DEF HandlesInv, NamesInv, Reached, HandlesKnown, NeedsPort, Meter
<1>4. QED
  BY <1>1, <1>2, <1>3, NamesInvariant, PTL DEF DSpec

-----------------------------------------------------------------------------
(* Options.                                                                *)

LEMMA OptionsMeterLines ==
  ASSUME FileInv, OptionsInv, MeterLines
  PROVE  OptionsInv'
<1>1. CASE Reject
  BY <1>1 DEF Reject, OptionsInv, Inherited, OfType, TypeInherited
<1>2. CASE ~Reject
  <2>1. /\ section = "meter" /\ cur \in Meter
        /\ UNCHANGED <<section, meterTypes, meters>>
    BY <1>2, TypeOfMeter DEF MeterLines, MeterOption, MeterField, NameLine, TypeLine,
           DisabledLine, HostLine, AddressLine, ScheduleLine, InSection, Becomes
  <2>2. CASE /\ cur'.given = cur.given /\ cur'.opt = cur.opt
             /\ cur'.typ = cur.typ /\ cur'.typeConflict = cur.typeConflict
    BY <2>1, <2>2 DEF OptionsInv, Inherited, OfType, TypeInherited
  <2>3. ASSUME NEW p \in Options, MeterOption(p)
        PROVE  OptionsInv'
    <3>1. /\ cur'.given = cur.given \cup {p} /\ cur'.typ = cur.typ /\ cur'.typeConflict
          /\ cur'.opt[p] = "meter"
          /\ \A o \in Options \ {p} : cur'.opt[o] = cur.opt[o]
      BY <2>1, <2>3 DEF MeterOption, Becomes, Meter
    <3>2. QED
      BY <2>1, <3>1 DEF OptionsInv, Inherited, OfType, TypeInherited
  <2>4. ASSUME NEW t \in 1 .. MaxTypes, TypeLine(t)
        PROVE  OptionsInv'
    <3>1. /\ ~cur.typeConflict /\ cur.typ = 0 /\ t <= Len(meterTypes) /\ cur'.typ = t
          /\ cur'.given = cur.given /\ cur'.typeConflict = cur.typeConflict
          /\ cur'.opt = [o \in Options |-> FromType(t, o)]
      <4> DEFINE opts == [o \in Options |-> FromType(t, o)]
                 enabled == cur.numEnabled + Enabled(meterTypes[t].flags)
      <4>1. /\ ~cur.typeConflict /\ cur.typ = 0 /\ ~(t > Len(meterTypes))
            /\ cur' = [cur EXCEPT !.typ = t, !.numEnabled = enabled, !.opt = opts]
        BY <1>2, <2>4 DEF TypeLine, Becomes
      <4>2. Len(meterTypes) \in Nat /\ t \in Nat
        BY DefinitionsAssumption DEF FileInv
      <4> HIDE DEF opts, enabled
      <4>3. cur'.typ = t /\ cur'.opt = opts /\ cur'.given = cur.given
            /\ cur'.typeConflict = cur.typeConflict
        BY <2>1, <4>1 DEF Meter
      <4>4. QED
        BY <4>1, <4>2, <4>3 DEF opts
    <3>2. t \in DOMAIN meterTypes /\ t # 0
      BY <3>1, DefinitionsAssumption DEF FileInv
    <3>3. cur.given = {} /\ \A o \in Options : cur.opt[o] \in {"global", "none"}
      BY <2>1, <3>1 DEF OptionsInv, Inherited, OfType
    <3>4. ASSUME NEW o \in Options
          PROVE  Inherited(cur, o)'
      <4>1. cur'.opt[o] = FromType(t, o) /\ o \notin cur'.given
        BY <3>1, <3>3
      <4>2. TypeInherited(meterTypes[t], o)
        BY <3>2 DEF OptionsInv
      <4>3. QED
        BY <2>1, <3>1, <3>2, <3>3, <4>1, <4>2 DEF Inherited, OfType, FromType, TypeInherited
    <3>5. QED
      BY <2>1, <3>1, <3>3, <3>4 DEF OptionsInv, Inherited, OfType, TypeInherited
  <2>5. ASSUME NEW value \in {0, 1}, MeterField(value)
        PROVE  /\ cur'.given = cur.given /\ cur'.opt = cur.opt
               /\ cur'.typ = cur.typ /\ cur'.typeConflict = cur.typeConflict
    BY <2>1, <2>5 DEF MeterField, Becomes, Meter
  <2>6. ASSUME NEW n \in Names, Becomes([cur EXCEPT !.name = n])
        PROVE  /\ cur'.given = cur.given /\ cur'.opt = cur.opt
               /\ cur'.typ = cur.typ /\ cur'.typeConflict = cur.typeConflict
    BY <2>1, <2>6 DEF Becomes, Meter
  <2>7. ASSUME NEW s \in Schedules, ScheduleLine(s), s \in defined
        PROVE  /\ cur'.given = cur.given /\ cur'.opt = cur.opt
               /\ cur'.typ = cur.typ /\ cur'.typeConflict = cur.typeConflict
    BY <2>1, <2>7 DEF ScheduleLine, Meter
  <2>8. QED
    BY <1>2, <2>1, <2>2, <2>3, <2>4, <2>5, <2>6, <2>7, OtherLines, SameButReach
<1>3. QED
  BY <1>1, <1>2

LEMMA OptionsStep == FileInv /\ OptionsInv /\ [DNext]_dvars => OptionsInv'
<1> SUFFICES ASSUME FileInv, OptionsInv, [DNext]_dvars
             PROVE  OptionsInv'
  OBVIOUS
<1> USE DEF TypeInherited
<1>1. CASE Reject \/ UNCHANGED dvars
  BY <1>1 DEF Reject, dvars, OptionsInv, Inherited, OfType
<1>2. CASE Sections /\ ~Reject
  <2>1. /\ UNCHANGED <<meterTypes, meters>> /\ section = "top"
        /\ section' = "meter" => cur' = NewMeter
        /\ section' = "type" => cur' = NewType
    BY <1>2 DEF Sections, BeginType, BeginMeter, Begin, WritesSection, ScheduleSection
  <2>2. /\ NewMeter.given = {} /\ NewMeter.typ = 0 /\ NewType.given = {}
        /\ \A o \in Options : /\ NewMeter.opt[o] \in {"global", "none"}
                             /\ NewType.opt[o] \in {"global", "none"}
    BY DEF NewMeter, NewType
  <2>3. QED
    BY <2>1, <2>2 DEF OptionsInv, Inherited, OfType
<1>3. CASE TypeLines /\ ~Reject
  <2>1. /\ section = "type" /\ section' = "type" /\ cur \in MeterType
        /\ UNCHANGED <<meterTypes, meters>>
    BY <1>3 DEF TypeLines, TypeOption, TypeField, InSection, Becomes, FileInv
  <2>2. ASSUME NEW p \in Options, TypeOption(p)
        PROVE  /\ cur'.given = cur.given \cup {p} /\ cur'.opt[p] = "type"
               /\ \A o \in Options \ {p} : cur'.opt[o] = cur.opt[o]
    BY <1>3, <2>1, <2>2 DEF TypeOption, Becomes, MeterType
  <2>3. ASSUME NEW value \in {0, 1}, NEW formula \in BOOLEAN, TypeField(value, formula)
        PROVE  cur'.given = cur.given /\ cur'.opt = cur.opt
    BY <2>1, <2>3 DEF TypeField, Becomes, MeterType
  <2>4. \A o \in Options : TypeInherited(cur', o)
    BY <1>3, <2>1, <2>2, <2>3 DEF TypeLines, OptionsInv
  <2>5. QED
    BY <2>1, <2>4 DEF OptionsInv, Inherited, OfType
<1>4. CASE EndType /\ cur.flags # <<>>
  <2>1. \A i \in DOMAIN meters :
          meters[i].typ # 0 => meterTypes'[meters[i].typ] = meterTypes[meters[i].typ]
    BY <1>4, TypesKept, TypeOfMeter
  <2>2. QED
    BY <1>4, <2>1, TypesKept DEF OptionsInv, Inherited, OfType
<1>5. CASE MeterLines
  BY <1>5, OptionsMeterLines
<1>6. CASE EndMeter /\ ~Incomplete
  <2>1. section = "meter" /\ UNCHANGED meterTypes
    BY <1>6, MetersKept
  <2>2. \A o \in Options : Inherited(Finished, o)
    <3>1. ASSUME NEW o \in Options, Inherited(cur, o)
          PROVE  Inherited(Finished, o)
      BY <2>1, <3>1, FinishedMeter DEF Inherited, OfType
    <3>2. QED
      BY <2>1, <3>1 DEF OptionsInv
  <2>3. QED
    BY <1>6, <2>1, <2>2, MetersKept DEF OptionsInv, Inherited, OfType
<1>7. CASE EndOfFile
  <2>1. CASE section' = "rejected"
    BY <1>7, <2>1 DEF EndOfFile, Reject, OptionsInv, Inherited, OfType
  <2>2. CASE section' # "rejected"
    <3>1. \A i \in DOMAIN meters :
            /\ meters'[i].given = meters[i].given
            /\ meters'[i].opt = meters[i].opt /\ meters'[i].typ = meters[i].typ
      BY <1>7, <2>2, LoadedMeters, TypeOfMeter DEF Meter
    <3>2. QED
      BY <1>7, <2>2, <3>1, LoadedMeters DEF OptionsInv, Inherited, OfType
  <2>3. QED
    BY <2>1, <2>2
<1>8. QED
  BY <1>1, <1>2, <1>3, <1>4, <1>5, <1>6, <1>7 DEF DNext, EndType, EndMeter

(* For every file: an option of a meter comes from its own line, else from *)
(* that of its type, else from the global one, and never from an older     *)
(* line that a later one has replaced.                                     *)
THEOREM OptionsComeFrom == DSpec => []OptionsInherited
<1>1. DInit => OptionsInv
  BY DEF DInit, OptionsInv
<1>2. OptionsInv => OptionsInherited
  BY DEF OptionsInv, OptionsInherited, Inherited, OfType
<1>3. DInit => FileInv
  BY FileInit
<1>4. FileInv /\ OptionsInv /\ [DNext]_dvars => FileInv' /\ OptionsInv'
  BY FileStep, OptionsStep
<1>5. QED
  BY <1>1, <1>2, <1>3, <1>4, PTL DEF DSpec

-----------------------------------------------------------------------------
(* Schedules.                                                              *)
LEMMA ScheduledMeterLines ==
  ASSUME FileInv, ScheduledInv, MeterLines, ~Reject
  PROVE  ScheduledInv'
<1>1. /\ section = "meter" /\ cur \in Meter /\ UNCHANGED <<section, meters>>
  BY TypeOfMeter DEF MeterLines, MeterOption, MeterField, NameLine, TypeLine,
     DisabledLine, HostLine, AddressLine, ScheduleLine, InSection, Becomes
<1>2. Len(meters) \in Nat /\ DOMAIN meters = 1 .. Len(meters)
  BY DEF FileInv
<1>3. ASSUME UNCHANGED members, cur'.hasSchedule = cur.hasSchedule
      PROVE  ScheduledInv'
  BY <1>1, <1>3 DEF ScheduledInv, Loaded
<1>4. ASSUME NEW s \in Schedules, ScheduleLine(s), s \in defined
      PROVE  ScheduledInv'
  <2>1. /\ members' = [members EXCEPT ![s] = @ \cup {Len(meters) + 1}]
        /\ cur'.hasSchedule = cur.hasSchedule + 1 /\ cur.hasSchedule \in Nat
    BY <1>1, <1>4 DEF ScheduleLine, Meter
  <2>2. s # Default /\ s \in DOMAIN members
    BY DefinitionsAssumption DEF ScheduledInv
  <2>3. /\ DOMAIN members' = DOMAIN members /\ members'[Default] = members[Default]
        /\ members'[s] = members[s] \cup {Len(meters) + 1}
        /\ \A r \in DOMAIN members : r # s => members'[r] = members[r]
    BY <2>1, <2>2 DEF ScheduledInv
  <2>4. \A i \in DOMAIN meters : \A r \in Schedules :
          i \in members'[r] <=> i \in members[r]
    BY <1>2, <2>3 DEF ScheduledInv
  <2>5. cur'.hasSchedule # 0 /\ Len(meters) + 1 \in members'[s]
    BY <2>1, <2>3
  <2>6. ASSUME NEW r \in DOMAIN members', NEW i \in members'[r]
        PROVE  i \in DOMAIN meters \/ i = Len(meters) + 1
    BY <2>3, <2>6 DEF ScheduledInv
  <2>7. QED
    BY <1>1, <2>3, <2>4, <2>5, <2>6 DEF ScheduledInv, Loaded
<1>5. ASSUME NEW o \in Options, MeterOption(o)
      PROVE  UNCHANGED members /\ cur'.hasSchedule = cur.hasSchedule
  BY <1>1, <1>5 DEF MeterOption, Becomes, Meter
<1>6. ASSUME NEW value \in {0, 1}, MeterField(value)
      PROVE  UNCHANGED members /\ cur'.hasSchedule = cur.hasSchedule
  BY <1>1, <1>6 DEF MeterField, Becomes, Meter
<1>7. ASSUME NEW n \in Names, Becomes([cur EXCEPT !.name = n])
      PROVE  UNCHANGED members /\ cur'.hasSchedule = cur.hasSchedule
  BY <1>1, <1>7 DEF Becomes, Meter
<1>8. ASSUME NEW t \in 1 .. MaxTypes, TypeLine(t)
      PROVE  UNCHANGED members /\ cur'.hasSchedule = cur.hasSchedule
  BY <1>1, <1>8 DEF TypeLine, Becomes, Meter
<1>9. Becomes(cur') => UNCHANGED members
  BY DEF Becomes
<1>10. QED
  BY <1>1, <1>3, <1>4, <1>5, <1>6, <1>7, <1>8, <1>9, OtherLines, SameButReach

LEMMA ScheduledStep == FileInv /\ ScheduledInv /\ [DNext]_dvars => ScheduledInv'
<1> SUFFICES ASSUME FileInv, ScheduledInv, [DNext]_dvars
             PROVE  ScheduledInv'
  OBVIOUS
<1>1. CASE UNCHANGED dvars
  BY <1>1 DEF dvars, ScheduledInv, Loaded, WithoutSchedule
<1>2. CASE Reject /\ ~Loaded
  BY <1>2 DEF Reject, ScheduledInv, Loaded
<1>3. CASE Sections /\ ~Reject
  <2>1. /\ UNCHANGED <<meters, members>> /\ section = "top"
        /\ section' \in {"top", "type", "meter"} /\ (section' = "meter" => cur' = NewMeter)
    BY <1>3 DEF Sections, BeginType, BeginMeter, Begin, WritesSection, ScheduleSection
  <2>2. NewMeter.hasSchedule = 0
    BY DEF NewMeter
  <2>3. Len(meters) + 1 \notin DOMAIN meters
    BY DEF FileInv
  <2>4. QED
    BY <2>1, <2>2, <2>3 DEF ScheduledInv, Loaded
<1>4. CASE (TypeLines \/ EndType) /\ ~Reject
  <2>1. /\ UNCHANGED <<meters, members>> /\ section = "type"
        /\ section' \in {"type", "top"}
    BY <1>4 DEF TypeLines, TypeOption, TypeField, EndType, InSection, Becomes
  <2>2. QED
    BY <2>1 DEF ScheduledInv, Loaded
<1>5. CASE MeterLines /\ ~Reject
  BY <1>5, ScheduledMeterLines
<1>6. CASE EndMeter /\ ~Incomplete
  <2>1. /\ DOMAIN meters' = DOMAIN meters \cup {Len(meters) + 1}
        /\ \A i \in DOMAIN meters : meters'[i] = meters[i]
        /\ meters'[Len(meters) + 1].hasSchedule = cur.hasSchedule
        /\ section = "meter" /\ section' = "top" /\ UNCHANGED members
    BY <1>6, MetersKept, FinishedMeter
  <2>2. ASSUME NEW s \in DOMAIN members', NEW i \in members'[s]
        PROVE  i \in DOMAIN meters'
    BY <2>1, <2>2 DEF ScheduledInv
  <2>3. ASSUME NEW i \in DOMAIN meters'
        PROVE  meters'[i].hasSchedule = 0 <=> \A s \in Schedules : i \notin members'[s]
    <3>1. CASE i \in DOMAIN meters
      BY <2>1, <3>1 DEF ScheduledInv
    <3>2. CASE i = Len(meters) + 1
      BY <2>1, <3>2 DEF ScheduledInv
    <3>3. QED
      BY <2>1, <3>1, <3>2
  <2>4. QED
    BY <2>1, <2>2, <2>3 DEF ScheduledInv, Loaded
<1>7. CASE EndOfFile /\ section' # "rejected"
  <2>1. \A i \in DOMAIN meters : meters'[i].hasSchedule = meters[i].hasSchedule
    BY <1>7, LoadedMeters, TypeOfMeter DEF Meter
  <2>2. /\ DOMAIN members' = DOMAIN members
        /\ members'[Default] = WithoutSchedule
        /\ \A s \in Schedules : members'[s] = members[s]
    BY <1>7, LoadedMeters, DefinitionsAssumption DEF ScheduledInv, Loaded
  <2>3. WithoutSchedule' = WithoutSchedule /\ WithoutSchedule \subseteq DOMAIN meters
    BY <1>7, <2>1, LoadedMeters DEF WithoutSchedule
  <2>4. /\ section = "top" /\ section' = "done" /\ DOMAIN meters' = DOMAIN meters
        /\ DOMAIN members = Schedules \cup {Default}
    BY <1>7, LoadedMeters DEF ScheduledInv
  <2>5. ASSUME NEW s \in DOMAIN members', NEW i \in members'[s]
        PROVE  i \in DOMAIN meters'
    <3>1. CASE s = Default
      BY <2>2, <2>3, <2>4, <2>5, <3>1
    <3>2. CASE s \in Schedules
      BY <2>2, <2>4, <2>5, <3>2 DEF ScheduledInv
    <3>3. QED
      BY <2>2, <2>4, <3>1, <3>2
  <2>6. ASSUME NEW i \in DOMAIN meters'
        PROVE  meters'[i].hasSchedule = 0 <=> \A s \in Schedules : i \notin members'[s]
    BY <2>1, <2>2, <2>4 DEF ScheduledInv
  <2>7. members'[Default] = WithoutSchedule'
    BY <2>2, <2>3
  <2>8. QED
    BY <2>2, <2>4, <2>5, <2>6, <2>7 DEF ScheduledInv, Loaded
<1>8. DNext => ~Loaded
  BY DEF DNext, Sections, BeginType, BeginMeter, Begin, WritesSection, ScheduleSection,
         TypeLines, TypeOption, TypeField, EndType, MeterLines, MeterOption, MeterField,
         NameLine, TypeLine, DisabledLine, HostLine, AddressLine, ScheduleLine,
         InSection, EndMeter, EndOfFile, Loaded
<1>9. EndOfFile /\ section' = "rejected" => Reject
  BY DEF EndOfFile
<1>10. QED
  BY <1>1, <1>2, <1>3, <1>4, <1>5, <1>6, <1>7, <1>8, <1>9 DEF DNext, EndMeter

LEMMA ScheduledInvariant == DSpec => [](FileInv /\ ScheduledInv)
<1>1. DInit => FileInv /\ ScheduledInv
  BY FileInit DEF DInit, ScheduledInv, Loaded
<1>2. FileInv /\ ScheduledInv /\ [DNext]_dvars => FileInv' /\ ScheduledInv'
  BY FileStep, ScheduledStep
<1>3. QED
  BY <1>1, <1>2, PTL DEF DSpec

(* However a file places its meters on schedules, none is without one, and *)
(* the default schedule holds exactly those that name no other.            *)
THEOREM AllMetersScheduled == DSpec => []EveryMeterScheduled
<1>1. ScheduledInv => EveryMeterScheduled
  BY DEF ScheduledInv, EveryMeterScheduled, WithoutSchedule
<1>2. QED
  BY <1>1, ScheduledInvariant, PTL

(* Types, for every file.                                                  *)
THEOREM DefinitionsTyped == DSpec => []DTypeOK
<1>1. FileInv /\ NamesInv /\ ScheduledInv => DTypeOK
  <2> SUFFICES ASSUME FileInv, NamesInv, ScheduledInv
               PROVE  DTypeOK
    OBVIOUS
  <2>1. Len(meters) \in Nat /\ DOMAIN meters = 1 .. Len(meters)
    BY DEF FileInv
  <2>2. \A s \in DOMAIN members : members[s] \subseteq 1 .. Len(meters) + 1
    BY <2>1 DEF ScheduledInv
  <2>3. \A i \in DOMAIN meters :
          /\ meters[i].name \in Names /\ meters[i].typ \in 0 .. Len(meterTypes)
          /\ \A o \in Options \ {"measurement"} : meters[i].opt[o] \in Origins \ {"none"}
    <3>1. \A i \in DOMAIN meters :
            /\ meters[i].name \in Names \cup {"none"} /\ meters[i].typ \in Nat
            /\ meters[i].opt \in [Options -> Origins]
      BY TypeOfMeter DEF Meter
    <3>2. Len(meterTypes) \in Nat
      BY DEF FileInv
    <3>3. QED
      BY <3>1, <3>2 DEF FileInv
  <2>4. writes \subseteq DOMAIN meters
    BY DEF NamesInv
  <2>5. QED
    BY <2>2, <2>3, <2>4 DEF DTypeOK, FileInv
<1>2. QED
  BY <1>1, NamesInvariant, ScheduledInvariant, PTL
=============================================================================
