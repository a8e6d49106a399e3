----------------------------- MODULE MqttPublish -----------------------------
(***************************************************************************)
(* mqttSendMeterData of emModbus2influx.cpp over mqtt_publish.c: one       *)
(* message per meter, a message with its statistics and one with the total *)
(* time.  Every message is published by mqtt_pub, which connects again     *)
(* when the client has noticed that it is disconnected; until then         *)
(* messages are taken and lost.  Topics, texts and the delay between two   *)
(* meters are left out.                                                    *)
(***************************************************************************)
EXTENDS Naturals, Sequences

CONSTANTS
  MeterList,     (* all meters, in the order of the configuration          *)
  FormulaOnly,   (* meters without registers to query                      *)
  MqttMeters,    (* enabled meters with a register or formula for MQTT     *)
  StatPrefix     (* mqttstatprefix is set                                  *)

Meters == {MeterList[k] : k \in 1 .. Len(MeterList)}

ASSUME MqttAssumption ==
  /\ MeterList \in Seq(Meters)
  /\ FormulaOnly \cup MqttMeters \subseteq Meters
  /\ StatPrefix \in BOOLEAN

VARIABLES
  mPc,           (* "idle", or the message that is next                    *)
  mNext,         (* the meter of that message, an index of MeterList       *)
  isConnected,   (* MQTTClient_isConnected                                 *)
  linkAlive,     (* the connection really exists                           *)
  broker,        (* the broker answers                                     *)
  read,          (* the meters with meterHasBeenRead                       *)
  current        (* meters whose present value the broker has              *)

link == <<isConnected, linkAlive>>
mvars == <<mPc, mNext, link, broker, read, current>>

MInit ==
  /\ mPc = "idle" /\ mNext = 1
  /\ isConnected = FALSE /\ linkAlive = FALSE
  /\ broker \in BOOLEAN
  /\ read = {} /\ current = {}

-----------------------------------------------------------------------------
(* mqtt_pub_connect, with its result.                                      *)
Connect(ok) ==
  /\ ok = broker
  /\ isConnected' = broker /\ linkAlive' = broker

(* Mutant: a client that has been disconnected is not connected again.     *)
PublishNoReconnect(ok) ==
  \/ isConnected /\ ok = linkAlive /\ UNCHANGED link
  \/ ~linkAlive /\ ok = FALSE /\ isConnected' = FALSE /\ UNCHANGED linkAlive

(* mqtt_pub: the message arrives, is lost on a connection that is gone, or *)
(* is published after connecting again.                                    *)
Publish(ok) ==
  \/ isConnected /\ ok = linkAlive /\ UNCHANGED link
  \/ ~linkAlive /\ Connect(ok)

(* Meters that have been read, and always those with formulas only.        *)
Sends(m) == m \in (read \cup FormulaOnly) \cap MqttMeters

SendMeterData ==
  /\ mPc = "idle"
  /\ mPc' = "meter" /\ mNext' = 1
  /\ UNCHANGED <<link, broker, read, current>>

AtMeter == mPc = "meter" /\ mNext <= Len(MeterList)
NextMeter == mPc' = "meter" /\ mNext' = mNext + 1

MeterSkipped ==
  /\ AtMeter /\ ~Sends(MeterList[mNext])
  /\ NextMeter
  /\ UNCHANGED <<link, broker, read, current>>

(* mqttSendData: the message, changed or not (MQTT_SEND_UNCHANGED), then   *)
(* the statistics.                                                         *)
MeterSent ==
  /\ AtMeter
  /\ LET m == MeterList[mNext]
     IN /\ Sends(m)
        /\ \E ok \in BOOLEAN :
             Publish(ok) /\ current' = IF ok THEN current \cup {m} ELSE current
  /\ IF StatPrefix THEN mPc' = "stat" /\ UNCHANGED mNext ELSE NextMeter
  /\ UNCHANGED <<broker, read>>

StatSent ==
  /\ mPc = "stat"
  /\ \E ok \in BOOLEAN : Publish(ok)
  /\ NextMeter
  /\ UNCHANGED <<broker, read, current>>

(* After the last meter, the message with the total time.                  *)
TotalSent ==
  /\ mPc = "meter" /\ mNext > Len(MeterList)
  /\ IF StatPrefix THEN \E ok \in BOOLEAN : Publish(ok) ELSE UNCHANGED link
  /\ mPc' = "idle"
  /\ UNCHANGED <<mNext, broker, read, current>>

SendStep == MeterSkipped \/ MeterSent \/ StatSent \/ TotalSent

-----------------------------------------------------------------------------
(* The connection that is made once before the loop; its result is only    *)
(* reported.                                                               *)
FirstConnect ==
  /\ \E ok \in BOOLEAN : Connect(ok)
  /\ UNCHANGED <<mPc, mNext, broker, read, current>>

(* A query has read the meters r; the values of changed are new.           *)
NewValues(r, changed) ==
  /\ read' = r
  /\ current' = current \ changed
  /\ UNCHANGED <<mPc, mNext, link, broker>>

(* mqtt_pub_free.                                                          *)
MFree ==
  /\ isConnected' = FALSE /\ linkAlive' = FALSE
  /\ UNCHANGED <<mPc, mNext, broker, read, current>>

(* The client notices, by a ping or a read, that its connection is gone.   *)
NoticeLost ==
  /\ isConnected /\ ~linkAlive
  /\ isConnected' = FALSE
  /\ UNCHANGED <<mPc, mNext, linkAlive, broker, read, current>>

(* The broker or the network goes and comes back.                          *)
BrokerGoes ==
  /\ broker' = FALSE /\ linkAlive' = FALSE
  /\ UNCHANGED <<mPc, mNext, isConnected, read, current>>

BrokerComes ==
  /\ broker' = TRUE
  /\ UNCHANGED <<mPc, mNext, link, read, current>>

-----------------------------------------------------------------------------
MTypeOK ==
  /\ mPc \in {"idle", "meter", "stat"}
  /\ mNext \in 1 .. Len(MeterList) + 1
  /\ {isConnected, linkAlive, broker} \subseteq BOOLEAN
  /\ read \subseteq Meters /\ current \subseteq Meters
=============================================================================
