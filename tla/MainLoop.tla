------------------------------ MODULE MainLoop -------------------------------
(***************************************************************************)
(* The main loop of emModbus2influx.cpp with what it sends after a query:  *)
(* the line for influx (its delivery is InfluxPost), the line for Grafana  *)
(* (GrafanaLive) and the messages for MQTT (MqttPublish); the initial      *)
(* query, the option dryrun and the end of the program.  The environment   *)
(* changes a server only where its client can notice.                      *)
(***************************************************************************)
EXTENDS GrafanaLive, MqttPublish, LineFormat, FiniteSets

CONSTANT MaxDryrun   (* bound of the option dryrun                         *)

ASSUME MainAssumption ==
  /\ MaxDryrun \in Nat
  /\ MqttMeters \subseteq Enabled /\ Enabled \subseteq Meters
  /\ Queried = Meters \ FormulaOnly
  /\ Meters \subseteq DOMAIN Fields
  /\ \A j, k \in DOMAIN MeterList : MeterList[j] = MeterList[k] => j = k
  /\ "stat" \notin Meters             \* the line of the statistics

VARIABLES
  pc,            (* the phase of main                                      *)
  dryrun,        (* counts down                                            *)
  option,        (* dryrun as it was given                                 *)
  terminated,
  isFirstQuery,
  iBuf, iNeeded, (* the buffer of iClient and its lastNeededBufferSize     *)
  gBuf, gNeeded, (* those of gClient                                       *)
  chosen,        (* the meters of the line for influx                      *)
  gQuiet,        (* history: Grafana could be reached during this post     *)
  mQuiet         (* history: so could the broker during these messages     *)

control == <<dryrun, option, terminated, isFirstQuery>>
buffers == <<iBuf, iNeeded, gBuf, gNeeded, chosen>>
quiet == <<gQuiet, mQuiet>>
vars == <<gvars, mvars, pc, control, buffers, quiet>>

Polled == Enabled \cap Queried
Formulas == Enabled \cap FormulaOnly

PInit ==
  /\ GInit /\ MInit
  /\ pc = "start"
  /\ option \in 0 .. MaxDryrun /\ dryrun = option
  /\ terminated = FALSE
  /\ isFirstQuery \in {0, 1}          \* noinitialwrite
  /\ iBuf = NoBuffer /\ gBuf = NoBuffer
  /\ iNeeded = InitialSize /\ gNeeded = InitialSize
  /\ chosen = {}
  /\ gQuiet = FALSE /\ mQuiet = FALSE

-----------------------------------------------------------------------------
Start ==
  /\ pc = "start"
  /\ IF dryrun = 0 THEN FirstConnect ELSE UNCHANGED mvars
  /\ pc' = "initial"
  /\ UNCHANGED <<gvars, control, buffers, quiet>>

(* queryMeters: a meter that is disabled or has formulas only counts as    *)
(* queried, and the latter as read.                                        *)
InitialQuery ==
  /\ pc = "initial"
  /\ \E r \in SUBSET Polled :
       /\ NewValues(r \cup Formulas, r \cup Formulas)
       /\ terminated' = (terminated \/ r \cup (Meters \ Polled) = {})
  /\ pc' = IF dryrun = 0 THEN "initialmqtt" ELSE "top"
  /\ UNCHANGED <<gvars, dryrun, option, isFirstQuery, buffers, quiet>>

(* The first pass takes the initial query for its own.                     *)
FirstPass ==
  /\ pc = "top" /\ ~terminated /\ isFirstQuery = 1
  /\ pc' = "influx"
  /\ UNCHANGED <<gvars, mvars, control, buffers, quiet>>

(* cron_queryMeters: no meter is due, or none of those that are due has    *)
(* been read.                                                              *)
IdlePass ==
  /\ pc = "top" /\ ~terminated /\ isFirstQuery = 0
  /\ NewValues({}, {})
  /\ UNCHANGED <<gvars, pc, control, buffers, quiet>>

(* Some due meters have been read, those of formulas only (f) among them;  *)
(* the formulas of the latter are evaluated whether they are due or not.   *)
Round ==
  /\ pc = "top" /\ ~terminated /\ isFirstQuery = 0
  /\ \E r \in SUBSET Polled, f \in SUBSET Formulas :
       /\ r \cup Formulas # {}
       /\ NewValues(r \cup f, r \cup Formulas)
  /\ pc' = "influx"
  /\ UNCHANGED <<gvars, control, buffers, quiet>>

(* The line for influx.  Which of the meters end their window is a choice  *)
(* here; a formula only meter without a schedule need not be due.          *)
InfluxLine ==
  /\ pc = "influx"
  /\ \E c \in SUBSET (read \cup Formulas) :
       /\ chosen' = c
       /\ iBuf' = InfluxText(iNeeded, MeterList, c)
  /\ pc' = IF iBuf'.ok THEN "influxpost" ELSE "exit"
  /\ UNCHANGED <<gvars, mvars, control, iNeeded, gBuf, gNeeded, quiet>>

(* It is posted, queued or, in a dryrun, printed, and the buffer is freed. *)
InfluxSent ==
  /\ pc = "influxpost"
  /\ iBuf' = NoBuffer /\ iNeeded' = Needed(iNeeded, iBuf)
  /\ chosen' = {}
  /\ pc' = "grafana"
  /\ UNCHANGED <<gvars, mvars, control, gBuf, gNeeded, quiet>>

GrafanaLine ==
  /\ pc = "grafana"
  /\ gBuf' = GrafanaText(gNeeded, MeterList, read)
  /\ pc' = IF gBuf'.ok THEN "grafanapost" ELSE "exit"
  /\ UNCHANGED <<gvars, mvars, control, iBuf, iNeeded, gNeeded, chosen, quiet>>

FreeGrafanaBuffer ==
  /\ gBuf' = NoBuffer /\ gNeeded' = Needed(gNeeded, gBuf)
  /\ UNCHANGED <<iBuf, iNeeded, chosen>>

(* An empty line is not posted; in a dryrun the line is printed.           *)
GrafanaNotSent ==
  /\ pc = "grafanapost" /\ gPc = "idle"
  /\ dryrun > 0 \/ gBuf.size = 0
  /\ FreeGrafanaBuffer
  /\ pc' = "mqtt"
  /\ UNCHANGED <<gvars, mvars, control, quiet>>

GrafanaPost ==
  /\ pc = "grafanapost"
  /\ dryrun = 0 /\ gBuf.size > 0
  /\ PostLine
  /\ pc' = "posting"
  /\ gQuiet' = (gUp /\ gHandle # "half")
  /\ UNCHANGED <<mvars, control, buffers, mQuiet>>

GrafanaPosting ==
  /\ pc = "posting"
  /\ PostStep
  /\ UNCHANGED <<mvars, pc, control, buffers, quiet>>

GrafanaPosted == pc = "posting" /\ gPc = "idle"

GrafanaSent ==
  /\ GrafanaPosted
  /\ FreeGrafanaBuffer
  /\ pc' = "mqtt"
  /\ UNCHANGED <<gvars, mvars, control, quiet>>

MqttBegin ==
  /\ pc \in {"initialmqtt", "mqtt"} /\ dryrun = 0
  /\ SendMeterData
  /\ pc' = IF pc = "mqtt" THEN "sending" ELSE "initialsending"
  /\ mQuiet' = (broker /\ isConnected = linkAlive)
  /\ UNCHANGED <<gvars, control, buffers, gQuiet>>

MqttSending ==
  /\ pc \in {"initialsending", "sending"}
  /\ SendStep
  /\ UNCHANGED <<gvars, pc, control, buffers, quiet>>

MqttSent == pc \in {"initialsending", "sending"} /\ mPc = "idle"

InitialSent ==
  /\ pc = "initialsending" /\ MqttSent
  /\ pc' = "top"
  /\ UNCHANGED <<gvars, mvars, control, buffers, quiet>>

(* Mutant: the last round of a dryrun does not end the program.            *)
RoundDoneGoesOn ==
  /\ \/ pc = "sending" /\ MqttSent
     \/ pc = "mqtt" /\ dryrun > 0
  /\ dryrun' = IF dryrun > 0 THEN dryrun - 1 ELSE dryrun
  /\ isFirstQuery' = 0
  /\ pc' = "top"
  /\ UNCHANGED <<gvars, mvars, option, terminated, buffers, quiet>>

(* In a dryrun the messages are printed, and its last round ends the       *)
(* program.                                                                *)
RoundDone ==
  /\ \/ pc = "sending" /\ MqttSent
     \/ pc = "mqtt" /\ dryrun > 0
  /\ dryrun' = IF dryrun > 0 THEN dryrun - 1 ELSE dryrun
  /\ terminated' = (terminated \/ dryrun = 1)
  /\ isFirstQuery' = 0
  /\ pc' = "top"
  /\ UNCHANGED <<gvars, mvars, option, buffers, quiet>>

(* After the loop the clients are freed.                                   *)
Free ==
  /\ pc = "top" /\ terminated
  /\ GFree /\ MFree
  /\ pc' = "ended"
  /\ UNCHANGED <<control, buffers, quiet>>

(* SIGTERM or SIGINT.                                                      *)
Terminate ==
  /\ pc \in {"top", "sending"} /\ ~terminated
  /\ terminated' = TRUE
  /\ UNCHANGED <<gvars, mvars, pc, dryrun, option, isFirstQuery, buffers, quiet>>

(* The steps of the calls into the clients, and what follows them.         *)
Deliver ==
  \/ GrafanaPosting \/ GrafanaSent
  \/ MqttSending \/ InitialSent \/ RoundDone

MainStep ==
  \/ Start \/ InitialQuery \/ FirstPass \/ IdlePass \/ Round
  \/ InfluxLine \/ InfluxSent
  \/ GrafanaLine \/ GrafanaNotSent \/ GrafanaPost
  \/ MqttBegin
  \/ Deliver
  \/ Free

-----------------------------------------------------------------------------
(* The environment.  In a dryrun there is nothing to disturb.              *)
GrafanaWorld ==
  /\ option = 0 /\ pc \in {"top", "posting"}
  /\ \/ gUp /\ ServerGoes /\ gQuiet' = FALSE
     \/ ~gUp /\ ServerComes /\ UNCHANGED gQuiet
  /\ UNCHANGED <<mvars, pc, control, buffers, mQuiet>>

GrafanaReset ==
  /\ LinkReset
  /\ UNCHANGED <<mvars, pc, control, buffers, quiet>>

BrokerWorld ==
  /\ option = 0 /\ pc \in {"top", "initialsending", "sending"}
  /\ \/ broker /\ BrokerGoes /\ mQuiet' = FALSE
     \/ ~broker /\ BrokerComes /\ UNCHANGED mQuiet
  /\ UNCHANGED <<gvars, pc, control, buffers, gQuiet>>

BrokerNoticed ==
  /\ NoticeLost
  /\ UNCHANGED <<gvars, pc, control, buffers, quiet>>

PNext ==
  \/ MainStep
  \/ Terminate
  \/ GrafanaWorld \/ GrafanaReset
  \/ BrokerWorld \/ BrokerNoticed

(* The calls into the clients return, and a dead link is noticed: by the   *)
(* timeout of the kernel, or the keep alive interval of MQTT.              *)
PFairness ==
  /\ WF_vars(Deliver)
  /\ WF_vars(GrafanaReset)
  /\ WF_vars(BrokerNoticed)

PSpec == PInit /\ [][PNext]_vars /\ PFairness

-----------------------------------------------------------------------------
PTypeOK ==
  /\ GTypeOK /\ MTypeOK
  /\ option \in 0 .. MaxDryrun /\ dryrun \in 0 .. option
  /\ isFirstQuery \in {0, 1}
  /\ {terminated, gQuiet, mQuiet} \subseteq BOOLEAN
  /\ chosen \subseteq Meters

(* Every line that is posted, to influx and to Grafana, follows the line   *)
(* protocol and has all fields of all meters that go to this receiver, and *)
(* nothing else; the program never ends because a line cannot be           *)
(* formatted.  The line was written inside its buffer if no name is longer *)
(* than the first buffer.                                                  *)
LinesComplete ==
  /\ pc # "exit"
  /\ WellFormed(iBuf.text) /\ WellFormed(gBuf.text)
  /\ NamesFit => iBuf.inside /\ gBuf.inside
  /\ pc = "influxpost" => \A m \in Meters :
       Cardinality(FieldsIn(iBuf.text, m)) =
         IF m \in chosen THEN Cardinality(InfluxFields(m)) ELSE 0
  /\ pc \in {"grafanapost", "posting"} => \A m \in Meters :
       Cardinality(FieldsIn(gBuf.text, m)) =
         IF m \in read THEN Cardinality(GrafanaFields(m)) ELSE 0

(* A line posted while Grafana can be reached arrives, whatever the client *)
(* went through before: an unusable connection is replaced by a new one,   *)
(* and the line sent again over it, within the same call.                  *)
GrafanaDelivered == GrafanaPosted /\ gQuiet => delivered

(* After a round of messages during which the broker could be reached it   *)
(* has the present value of every meter read and of every formula only     *)
(* meter, whatever was lost in the rounds before.                          *)
BrokerCurrent ==
  MqttSent /\ mQuiet => (read \cup FormulaOnly) \cap MqttMeters \subseteq current

(* A dryrun touches no server at all, in none of its rounds, although the  *)
(* counter that tells it from a normal run goes down to zero.              *)
DryrunSendsNothing ==
  option > 0 => /\ gHandle = "none" /\ ~isConnected
                /\ ~delivered /\ current = {}

(* Once both servers stay up, all lines and messages arrive again.         *)
Recovers ==
  <>[](gUp /\ broker) =>
     \/ []<>terminated
     \/ <>[](/\ GrafanaPosted => delivered
             /\ MqttSent => (read \cup FormulaOnly) \cap MqttMeters \subseteq current)

-----------------------------------------------------------------------------
(* Inductive invariants: what the properties above rest on.                *)

TypeInv ==
  /\ PTypeOK
  /\ mPc = "stat" => mNext <= Len(MeterList)

(* Only the first connection falls back; one that was made shows that the  *)
(* server can do websockets.                                               *)
ConnectionInv ==
  /\ ConnectionConsistent
  /\ gFirst => ~isWebsocket /\ ~everWs
  /\ everWs => gHost = "ws"
  /\ gHost = "ws" /\ ~gFirst => wsSupported

(* In a call during which Grafana could be reached.                        *)
PostInv ==
  pc = "posting" /\ gQuiet =>
    /\ gUp /\ gHandle # "half"
    /\ gPc = "resend" => gHandle \in {"none", "open"}
    /\ gPc = "idle" => delivered

ToSend == (read \cup FormulaOnly) \cap MqttMeters

(* In messages during which the broker could be reached.                   *)
SendInv ==
  pc \in {"initialsending", "sending"} /\ mQuiet =>
    /\ broker /\ isConnected = linkAlive
    /\ \A k \in DOMAIN MeterList :
         /\ MeterList[k] \in ToSend
         /\ mPc = "idle" \/ k < mNext \/ (mPc = "stat" /\ k = mNext)
         => MeterList[k] \in current

(* The buffers hold a text only between the loop that makes it and the end *)
(* of the post, and begin at least as large as the first one.              *)
LineInv ==
  /\ LinesComplete
  /\ chosen \cup read \subseteq Enabled
  /\ {iNeeded, gNeeded} \subseteq Nat
  /\ iNeeded >= InitialSize /\ gNeeded >= InitialSize
  /\ {iBuf.size, gBuf.size} \subseteq Nat
  /\ pc # "influxpost" => iBuf = NoBuffer
  /\ pc \notin {"grafanapost", "posting"} => gBuf = NoBuffer

DryrunInv ==
  option > 0 =>
    /\ DryrunSendsNothing
    /\ pc \notin {"initialmqtt", "initialsending", "posting", "sending"}
    /\ dryrun = 0 => terminated /\ pc \in {"top", "ended"}
=============================================================================
