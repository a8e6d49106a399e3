----------------------------- MODULE LineFormat ------------------------------
(***************************************************************************)
(* The line protocol of influxdb-post.c (_format_line2 and the buffer it   *)
(* grows) and the lines emModbus2influx.cpp makes with it:                 *)
(* influxAppendData, grafanaAppendData and grafanaAppendStat.  A text is a *)
(* sequence of tokens; of names and values their length in the buffer is   *)
(* kept, so that every write can be compared with the size of the buffer.  *)
(***************************************************************************)
EXTENDS Naturals, Sequences

CONSTANTS
  Enabled,       (* meters that are not disabled                           *)
  Queried,       (* meters with a TCP or serial connection                 *)
  Fields,        (* of each meter: registers and formulas                  *)
  NameLen,       (* length of every name, escapes included                 *)
  InitialSize    (* INFLUX_INITIAL_BUF_SIZE                                *)

ASSUME FormatAssumption ==
  /\ NameLen \in Nat /\ InitialSize \in Nat \ {0}
  /\ \A m \in DOMAIN Fields :
       /\ Fields[m] \in Seq({Fields[m][i] : i \in DOMAIN Fields[m]})
       /\ \A i \in DOMAIN Fields[m] :
            {Fields[m][i].influx, Fields[m][i].grafana} \subseteq BOOLEAN

(* The parser takes names of any length, and nothing else limits them:     *)
(* what is said of writes inside the buffer is under this premise.         *)
NamesFit == NameLen <= InitialSize

(* IF_TYPE_...: the order of the parts of a line.  All fields are floats. *)
MEAS == 1
TAG == 2
FIELD_FLOAT == 4
FIELD_BOOLEAN == 6
TIMESTAMP == 7

(* The printed length of a value; the constants stand for the smallest     *)
(* ones that make the buffer grow.                                         *)
ValueLen == 2

(* A client's buffer without influxBuf.  inside: no write was out of it.   *)
NoBuffer == [text |-> <<>>, used |-> 0, size |-> 0, last |-> 0,
             inside |-> TRUE, ok |-> TRUE]

(* _begin_line, for the first argument of a text.                          *)
BeginLine(needed, b) == IF b.size = 0 THEN [b EXCEPT !.size = needed] ELSE b

(* FAIL: the buffer is freed.                                              *)
Failed(b) == [NoBuffer EXCEPT !.ok = FALSE, !.inside = b.inside]

Token(b, sep, type, name) ==
  [b EXCEPT !.text = Append(b.text, [sep |-> sep, type |-> type, name |-> name]),
            !.last = type]

Wrote(b, n, size) ==
  [b EXCEPT !.size = size, !.used = b.used + n,
            !.inside = b.inside /\ b.used + n <= size]

(* Mutant: the buffer grows by what is needed, without the final zero.     *)
AppendToBufUnterminated(b, n) ==
  LET wrote == Wrote(b, n, IF b.used + n > b.size THEN b.size * 2 + n ELSE b.size)
  IN [wrote EXCEPT !.inside = wrote.inside /\ wrote.used < wrote.size]

(* appendToBuf2: the n characters are followed by a zero.                  *)
AppendToBuf(b, n) ==
  LET wrote == Wrote(b, n, IF b.used + n + 1 > b.size THEN b.size * 2 + n ELSE b.size)
  IN [wrote EXCEPT !.inside = wrote.inside /\ wrote.used < wrote.size]

(* _escaped_append: no zero; the buffer is doubled once, however long the  *)
(* name is.                                                                *)
EscapedAppend(b, n) ==
  Wrote(b, n, IF b.used + n > b.size THEN b.size * 2 ELSE b.size)

(* A tag or a field: its key after the separator, its value after "=".     *)
Item(b, arg) ==
  LET upTo == IF arg.type = TAG THEN TAG ELSE FIELD_BOOLEAN
      sep == IF b.last <= TAG /\ arg.type > TAG THEN " " ELSE ","
      key == AppendToBuf(EscapedAppend(AppendToBuf(b, 1), NameLen), 1)
      value == IF arg.type = TAG THEN EscapedAppend(key, NameLen)
                                 ELSE AppendToBuf(key, ValueLen)
  IN IF b.last < MEAS \/ b.last > upTo THEN Failed(b)
     ELSE Token(value, sep, arg.type, arg.name)

Measurement(b, arg) ==
  LET line == IF b.last # 0 THEN AppendToBuf(b, 1) ELSE b
  IN IF b.last # 0 /\ b.last <= TAG THEN Failed(b)
     ELSE Token(EscapedAppend(line, NameLen), IF b.last # 0 THEN "\n" ELSE "",
                MEAS, arg.name)

Timestamp(b, arg) ==
  IF b.last <= TAG \/ b.last > FIELD_BOOLEAN THEN Failed(b)
  ELSE Token(AppendToBuf(b, 1 + ValueLen), " ", TIMESTAMP, arg.name)

(* One argument of influxdb_format_line.  After a failure the caller has   *)
(* ended the program: nothing more is formatted.                           *)
FormatLine(b, arg) ==
  CASE ~b.ok -> b
    [] b.ok /\ arg.type = MEAS -> Measurement(b, arg)
    [] b.ok /\ arg.type \in TAG .. FIELD_BOOLEAN -> Item(b, arg)
    [] b.ok /\ arg.type = TIMESTAMP -> Timestamp(b, arg)

-----------------------------------------------------------------------------
Arg(type, name) == [type |-> type, name |-> name]

(* The calls of a loop: Call(1), ..., Call(n), from the buffer b.          *)
Loop(Call(_, _), b, n) ==
  LET after[i \in 0 .. n] == IF i = 0 THEN b ELSE Call(after[i - 1], i)
  IN after[n]

(* enableInfluxWrite and enableGrafanaWrite of registers and formulas.     *)
InfluxFields(m) == {i \in DOMAIN Fields[m] : Fields[m][i].influx}
GrafanaFields(m) == {i \in DOMAIN Fields[m] : Fields[m][i].grafana}

AppendField(b, m, i, own) ==
  IF i \in own THEN FormatLine(b, Arg(FIELD_FLOAT, Fields[m][i].name)) ELSE b

(* The fields of own, in the order of the meter, and the timestamp.        *)
AppendFields(b, m, own) ==
  LET Field(before, i) == AppendField(before, m, i, own)
  IN FormatLine(Loop(Field, b, Len(Fields[m])), Arg(TIMESTAMP, m))

InfluxAppendData(needed, b, m) ==
  LET meas == FormatLine(BeginLine(needed, b), Arg(MEAS, m))
  IN IF m \notin Enabled \/ InfluxFields(m) = {} THEN b
     ELSE AppendFields(FormatLine(meas, Arg(TAG, m)), m, InfluxFields(m))

GrafanaAppendData(needed, b, m) ==
  LET meas == FormatLine(BeginLine(needed, b), Arg(MEAS, m))
  IN IF m \notin Enabled \/ GrafanaFields(m) = {} THEN b
     ELSE AppendFields(meas, m, GrafanaFields(m))

(* The statistics: last, min, max, avg and initial of every meter that is  *)
(* queried, in one line that begins before the first of them.              *)
HasStat(m) == m \in Enabled \cap Queried

StatField(b) == FormatLine(b, Arg(FIELD_FLOAT, "stat"))

AppendStat(needed, b, ms, k) ==
  LET line == IF \E j \in 1 .. k - 1 : HasStat(ms[j]) THEN b
              ELSE FormatLine(BeginLine(needed, b), Arg(MEAS, "stat"))
  IN IF HasStat(ms[k])
       THEN StatField(StatField(StatField(StatField(StatField(line)))))
       ELSE b

(* They end with the total time.                                           *)
GrafanaAppendStat(needed, b, ms) ==
  LET Stat(before, k) == AppendStat(needed, before, ms, k)
      all == Loop(Stat, b, Len(ms))
  IN IF \E k \in DOMAIN ms : HasStat(ms[k])
       THEN FormatLine(FormatLine(all, Arg(FIELD_FLOAT, "total")), Arg(TIMESTAMP, "stat"))
       ELSE all

AppendData(to, needed, b, m) ==
  IF to = "influx" THEN InfluxAppendData(needed, b, m)
                   ELSE GrafanaAppendData(needed, b, m)

(* The lines of the meters of ms that are sent.                            *)
AppendMeters(to, needed, ms, sent) ==
  LET Meter(b, k) == IF ms[k] \in sent THEN AppendData(to, needed, b, ms[k]) ELSE b
  IN Loop(Meter, NoBuffer, Len(ms))

(* The text for influx: the meters that are chosen.                        *)
InfluxText(needed, ms, sent) == AppendMeters("influx", needed, ms, sent)

(* The text for Grafana: the meters that have been read, the statistics.   *)
GrafanaText(needed, ms, sent) ==
  GrafanaAppendStat(needed, AppendMeters("grafana", needed, ms, sent), ms)

(* influxdb_post_freeBuffer: lastNeededBufferSize.                         *)
Needed(needed, b) == IF b.size > needed THEN b.size ELSE needed

-----------------------------------------------------------------------------
(* A text of the line protocol: lines of a measurement, tags, at least one *)
(* field and a timestamp, with the separators of the protocol.             *)
WellFormed(text) ==
  \A i \in DOMAIN text :
    LET type == text[i].type
        before == IF i = 1 THEN TIMESTAMP ELSE text[i - 1].type
    IN /\ i = Len(text) => type = TIMESTAMP
       /\ type = MEAS => before = TIMESTAMP /\ text[i].sep = IF i = 1 THEN "" ELSE "\n"
       /\ type = TAG => before \in {MEAS, TAG} /\ text[i].sep = ","
       /\ type = FIELD_FLOAT => \/ before \in {MEAS, TAG} /\ text[i].sep = " "
                                \/ before = FIELD_FLOAT /\ text[i].sep = ","
       /\ type = TIMESTAMP => before = FIELD_FLOAT /\ text[i].sep = " "

(* The fields of the lines of the measurement m.                           *)
FieldsIn(text, m) ==
  {i \in DOMAIN text : text[i].type = FIELD_FLOAT /\ \E j \in 1 .. i :
     /\ text[j].type = MEAS /\ text[j].name = m
     /\ \A k \in j + 1 .. i : text[k].type # MEAS}
=============================================================================
