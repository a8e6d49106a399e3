--------------------------- MODULE MainLoopProofs ---------------------------
(***************************************************************************)
(* Proofs about MainLoop for any meters, fields and number of dryruns, for *)
(* both kinds of hosts and every behaviour of the servers.                 *)
(***************************************************************************)
EXTENDS MainLoop, TLAPS, FiniteSetTheorems, WellFoundedInduction

-----------------------------------------------------------------------------
(* Types.                                                                  *)
LEMMA MeterIndices ==
  /\ Len(MeterList) \in Nat /\ DOMAIN MeterList = 1 .. Len(MeterList)
  /\ \A k \in 1 .. Len(MeterList) : MeterList[k] \in Meters
  /\ \A m \in Meters : \E k \in DOMAIN MeterList : m = MeterList[k]
BY MqttAssumption DEF Meters

LEMMA TypeInit == PInit => TypeInv
<1> SUFFICES ASSUME PInit
             PROVE  TypeInv
  OBVIOUS
<1>1. GTypeOK
  BY DEF PInit, GInit, GTypeOK
<1>2. MTypeOK /\ mPc # "stat"
  <2>1. mNext \in 1 .. Len(MeterList) + 1
    BY MeterIndices DEF PInit, MInit
  <2>2. {isConnected, linkAlive, broker} \subseteq BOOLEAN
    BY DEF PInit, MInit
  <2>3. QED
    BY <2>1, <2>2 DEF PInit, MInit, MTypeOK
<1>3. option \in 0 .. MaxDryrun /\ dryrun \in 0 .. option
  BY MainAssumption DEF PInit
<1>4. {terminated, gQuiet, mQuiet} \subseteq BOOLEAN
  BY DEF PInit
<1>5. QED
  BY <1>1, <1>2, <1>3, <1>4 DEF PInit, TypeInv, PTypeOK

(* The steps of the Grafana client.                                        *)
LEMMA GrafanaTypes ==
  ASSUME GTypeOK,
         PostStep \/ PostLine \/ GFree \/ ServerGoes \/ ServerComes \/ LinkReset
         \/ UNCHANGED gvars
  PROVE  GTypeOK'
<1>1. CASE PostStep
  BY <1>1 DEF GTypeOK, PostStep, Sending, Post, ToConnect, CanConnect, Connected,
              Fallback, ConnectFails, WsSend, WsSendFails, Returned
<1>2. CASE PostLine \/ GFree \/ ServerGoes \/ ServerComes \/ LinkReset \/ UNCHANGED gvars
  BY <1>2 DEF GTypeOK, PostLine, GFree, ServerGoes, ServerComes, LinkReset, gvars
<1>3. QED
  BY <1>1, <1>2

(* The steps of the MQTT client.                                           *)
MqttTypes == MTypeOK /\ (mPc = "stat" => mNext <= Len(MeterList))

LEMMA ReadAreMeters ==
  ASSUME MqttTypes, NEW r \in SUBSET Enabled, NEW c, NewValues(r, c)
  PROVE  MqttTypes'
BY MainAssumption DEF MqttTypes, MTypeOK, NewValues, link

LEMMA PublishTypes ==
  ASSUME MTypeOK, NEW ok \in BOOLEAN, Publish(ok)
  PROVE  {isConnected', linkAlive'} \subseteq BOOLEAN
BY DEF MTypeOK, Publish, Connect, link

LEMMA MqttSteps ==
  ASSUME MqttTypes,
         \/ SendMeterData \/ SendStep \/ FirstConnect \/ MFree \/ NoticeLost
         \/ BrokerGoes \/ BrokerComes \/ UNCHANGED mvars
  PROVE  MqttTypes'
<1> USE MeterIndices DEF MqttTypes, MTypeOK
<1>1. CASE SendMeterData
  BY <1>1 DEF SendMeterData, link
<1>2. CASE MeterSkipped
  BY <1>2 DEF MeterSkipped, AtMeter, NextMeter, link
<1>3. CASE MeterSent
  <2>1. {isConnected', linkAlive'} \subseteq BOOLEAN
    BY <1>3, PublishTypes DEF MeterSent
  <2>2. /\ mPc = "meter" /\ mNext <= Len(MeterList)
        /\ \/ mPc' = "stat" /\ mNext' = mNext
           \/ mPc' = "meter" /\ mNext' = mNext + 1
        /\ broker' = broker /\ read' = read
        /\ current' \subseteq current \cup {MeterList[mNext]}
    BY <1>3 DEF MeterSent, AtMeter, NextMeter
  <2>3. MeterList[mNext] \in Meters
    BY <2>2
  <2>4. QED
    BY <2>1, <2>2, <2>3
<1>4. CASE StatSent
  <2>1. {isConnected', linkAlive'} \subseteq BOOLEAN
    BY <1>4, PublishTypes DEF StatSent
  <2>2. QED
    BY <1>4, <2>1 DEF StatSent, NextMeter
<1>5. CASE TotalSent
  <2>1. {isConnected', linkAlive'} \subseteq BOOLEAN
    BY <1>5, PublishTypes DEF TotalSent, link
  <2>2. QED
    BY <1>5, <2>1 DEF TotalSent
<1>6. CASE FirstConnect \/ MFree \/ NoticeLost
  BY <1>6 DEF FirstConnect, Connect, MFree, NoticeLost
<1>7. CASE BrokerGoes \/ BrokerComes \/ UNCHANGED mvars
  BY <1>7 DEF BrokerGoes, BrokerComes, mvars, link
<1>8. QED
  BY <1>1, <1>2, <1>3, <1>4, <1>5, <1>6, <1>7 DEF SendStep

-----------------------------------------------------------------------------
(* What a step of the program is for each client.                          *)
LEMMA ForGrafana ==
  ASSUME PNext
  PROVE  \/ GrafanaPosting /\ PostStep
         \/ GrafanaPost /\ PostLine
         \/ Free /\ GFree
         \/ GrafanaWorld /\ (ServerGoes \/ ServerComes)
         \/ GrafanaReset /\ LinkReset
         \/ UNCHANGED gvars
BY DEF PNext, MainStep, Deliver, Start, InitialQuery, FirstPass, IdlePass, Round,
       InfluxLine, InfluxSent, GrafanaLine, GrafanaNotSent, GrafanaPost,
       GrafanaPosting, GrafanaSent, MqttBegin, MqttSending, InitialSent, RoundDone,
       Free, Terminate, GrafanaWorld, GrafanaReset, BrokerWorld, BrokerNoticed

(* A query reads enabled meters only.                                      *)
LEMMA QueriesRead ==
  ASSUME InitialQuery \/ Round
  PROVE  \E r \in SUBSET Enabled : \E c : NewValues(r, c)
<1>1. Polled \subseteq Enabled /\ Formulas \subseteq Enabled
  BY DEF Polled, Formulas
<1>2. CASE InitialQuery
  <2>1. PICK r \in SUBSET Polled : NewValues(r \cup Formulas, r \cup Formulas)
    BY <1>2 DEF InitialQuery
  <2>2. QED
    BY <1>1, <2>1
<1>3. CASE Round
  <2>1. PICK r \in SUBSET Polled, f \in SUBSET Formulas :
          NewValues(r \cup f, r \cup Formulas)
    BY <1>3 DEF Round
  <2>2. QED
    BY <1>1, <2>1
<1>4. QED
  BY <1>2, <1>3

LEMMA ForMqtt ==
  ASSUME PNext
  PROVE  \/ MqttSending /\ SendStep
         \/ MqttBegin /\ SendMeterData
         \/ Start /\ FirstConnect
         \/ Free /\ MFree
         \/ BrokerWorld /\ (BrokerGoes \/ BrokerComes)
         \/ BrokerNoticed /\ NoticeLost
         \/ InitialQuery /\ \E r \in SUBSET Enabled : \E c : NewValues(r, c)
         \/ IdlePass /\ NewValues({}, {})
         \/ Round /\ \E r \in SUBSET Enabled : \E c : NewValues(r, c)
         \/ UNCHANGED mvars
<1>1. /\ Start => FirstConnect \/ UNCHANGED mvars
      /\ MqttBegin => SendMeterData
      /\ MqttSending => SendStep
      /\ Free => MFree
      /\ BrokerWorld => BrokerGoes \/ BrokerComes
      /\ BrokerNoticed => NoticeLost
      /\ IdlePass => NewValues({}, {})
  BY DEF Start, MqttBegin, MqttSending, Free, BrokerWorld, BrokerNoticed, IdlePass
<1>2. InitialQuery \/ Round => \E r \in SUBSET Enabled : \E c : NewValues(r, c)
  BY QueriesRead
<1>3. FirstPass \/ InfluxLine \/ InfluxSent \/ GrafanaLine \/ GrafanaNotSent \/ GrafanaPost
        \/ GrafanaPosting \/ GrafanaSent \/ InitialSent \/ RoundDone \/ Terminate
        \/ GrafanaWorld \/ GrafanaReset
        => UNCHANGED mvars
  BY DEF FirstPass, InfluxLine, InfluxSent, GrafanaLine, GrafanaNotSent, GrafanaPost,
         GrafanaPosting, GrafanaSent, InitialSent, RoundDone, Terminate, GrafanaWorld,
         GrafanaReset
<1>4. QED
  BY <1>1, <1>2, <1>3 DEF PNext, MainStep, Deliver

(* The variables of main itself.                                           *)
MainTypes ==
  /\ option \in 0 .. MaxDryrun /\ dryrun \in 0 .. option
  /\ isFirstQuery \in {0, 1}
  /\ {terminated, gQuiet, mQuiet} \subseteq BOOLEAN
  /\ chosen \subseteq Meters

LEMMA MainSteps ==
  ASSUME MainTypes, GTypeOK, MqttTypes, PNext
  PROVE  MainTypes'
<1> USE DEF MainTypes, control, buffers, quiet
<1>1. CASE Start \/ FirstPass \/ IdlePass \/ GrafanaLine \/ MqttSending \/ InitialSent
           \/ GrafanaPosting \/ Free
  BY <1>1 DEF Start, FirstPass, IdlePass, GrafanaLine, MqttSending, InitialSent,
              GrafanaPosting, Free
<1>2. CASE InitialQuery \/ Round
  <2>1. \/ terminated' = terminated
        \/ \E r \in SUBSET Polled : terminated' = (terminated \/ r \cup (Meters \ Polled) = {})
    BY <1>2 DEF InitialQuery, Round
  <2>2. terminated' \in BOOLEAN
    BY <2>1
  <2>3. QED
    BY <1>2, <2>2 DEF InitialQuery, Round
<1>3. CASE InfluxLine
  <2>1. chosen' \subseteq read \cup Formulas
    BY <1>3 DEF InfluxLine
  <2>2. chosen' \subseteq Meters
    BY <2>1, MainAssumption DEF MqttTypes, MTypeOK, Formulas
  <2>3. QED
    BY <1>3, <2>2 DEF InfluxLine
<1>4. CASE InfluxSent
  BY <1>4 DEF InfluxSent
<1>5. CASE GrafanaNotSent \/ GrafanaSent
  BY <1>5 DEF GrafanaNotSent, GrafanaSent, FreeGrafanaBuffer
<1>6. CASE GrafanaPost
  <2>1. gQuiet' \in BOOLEAN
    BY <1>6 DEF GrafanaPost
  <2>2. QED
    BY <1>6, <2>1 DEF GrafanaPost
<1>7. CASE MqttBegin
  <2>1. mQuiet' \in BOOLEAN
    BY <1>7 DEF MqttBegin
  <2>2. QED
    BY <1>7, <2>1 DEF MqttBegin
<1>8. CASE RoundDone
  <2>1. dryrun' \in 0 .. option
    BY <1>8, MainAssumption DEF RoundDone
  <2>2. terminated' \in BOOLEAN
    BY <1>8 DEF RoundDone
  <2>3. QED
    BY <1>8, <2>1, <2>2 DEF RoundDone
<1>9. CASE Terminate
  BY <1>9 DEF Terminate
<1>10. CASE GrafanaWorld \/ GrafanaReset \/ BrokerWorld \/ BrokerNoticed
  BY <1>10 DEF GrafanaWorld, GrafanaReset, BrokerWorld, BrokerNoticed
<1>11. QED
  BY <1>1, <1>2, <1>3, <1>4, <1>5, <1>6, <1>7, <1>8, <1>9, <1>10
     DEF PNext, MainStep, Deliver

LEMMA TypeStep == TypeInv /\ [PNext]_vars => TypeInv'
<1> SUFFICES ASSUME TypeInv, [PNext]_vars
             PROVE  TypeInv'
  OBVIOUS
<1>1. GTypeOK /\ MqttTypes /\ MainTypes
  BY DEF TypeInv, PTypeOK, MqttTypes, MainTypes
<1>2. CASE UNCHANGED vars
  <2>1. UNCHANGED gvars /\ UNCHANGED mvars /\ MainTypes'
    BY <1>1, <1>2 DEF vars, control, buffers, quiet, MainTypes
  <2>2. QED
    BY <1>1, <2>1, GrafanaTypes, MqttSteps DEF TypeInv, PTypeOK, MqttTypes, MainTypes
<1>3. CASE PNext
  <2>1. GTypeOK'
    BY <1>1, <1>3, ForGrafana, GrafanaTypes
  <2>2. MqttTypes'
    <3>1. {} \in SUBSET Enabled
      OBVIOUS
    <3>2. QED
      BY <1>1, <1>3, <3>1, ForMqtt, MqttSteps, ReadAreMeters
  <2>3. MainTypes'
    BY <1>1, <1>3, MainSteps
  <2>4. QED
    BY <2>1, <2>2, <2>3 DEF TypeInv, PTypeOK, MqttTypes, MainTypes
<1>4. QED
  BY <1>2, <1>3

LEMMA TypesInvariant == PSpec => []TypeInv
  BY TypeInit, TypeStep, PTL DEF PSpec

(* Types, for any meters and fields.                                       *)
THEOREM LoopTyped == PSpec => []PTypeOK
<1>1. TypeInv => PTypeOK
  BY DEF TypeInv
<1>2. QED
  BY <1>1, TypesInvariant, PTL

-----------------------------------------------------------------------------
(* The connection to Grafana.                                              *)
LEMMA ConnectionPost ==
  ASSUME GTypeOK, ConnectionInv, PostStep
  PROVE  ConnectionInv' /\ (everWs => gHost' = gHost)
<1> USE DEF ConnectionInv, ConnectionConsistent, GTypeOK, Sending, Returned
<1>1. CASE Post
  <2>1. /\ gHost = "http" /\ gHost' = gHost
        /\ gHandle' \in {"http", "none"} /\ (gHandle' = "http" => gUrl' = "http")
        /\ gHandle' = "none" => gUrl' = "none"
        /\ UNCHANGED <<wsSupported, gFirst, isWebsocket, everWs>>
    BY <1>1 DEF Post
  <2>2. ~isWebsocket /\ ~everWs
    BY <2>1
  <2>3. QED
    BY <2>1, <2>2
<1>2. CASE Connected
  BY <1>2 DEF Connected, ToConnect, CanConnect
<1>3. CASE Fallback
  BY <1>3 DEF Fallback, ToConnect
<1>4. CASE ConnectFails
  BY <1>4 DEF ConnectFails, ToConnect
<1>5. CASE WsSend
  BY <1>5 DEF WsSend
<1>6. CASE WsSendFails
  BY <1>6 DEF WsSendFails
<1>7. QED
  BY <1>1, <1>2, <1>3, <1>4, <1>5, <1>6 DEF PostStep

LEMMA ConnectionStep ==
  ASSUME TypeInv, ConnectionInv, [PNext]_vars
  PROVE  ConnectionInv' /\ (everWs => gHost' = gHost)
<1> USE DEF ConnectionInv, ConnectionConsistent
<1>1. GTypeOK
  BY DEF TypeInv, PTypeOK
<1>2. CASE UNCHANGED gvars
  BY <1>2 DEF gvars
<1>3. CASE PostStep
  BY <1>1, <1>3, ConnectionPost
<1>4. CASE PostLine
  BY <1>4 DEF PostLine
<1>5. CASE GFree
  BY <1>5 DEF GFree
<1>6. CASE ServerGoes \/ ServerComes
  BY <1>6 DEF ServerGoes, ServerComes
<1>7. CASE LinkReset
  BY <1>7 DEF LinkReset
<1>8. UNCHANGED vars => UNCHANGED gvars
  BY DEF vars
<1>9. QED
  BY <1>2, <1>3, <1>4, <1>5, <1>6, <1>7, <1>8, ForGrafana

LEMMA ConnectionInvariant == PSpec => [](TypeInv /\ ConnectionInv)
<1>1. PInit => ConnectionInv
  BY DEF PInit, GInit, ConnectionInv, ConnectionConsistent
<1>2. TypeInv /\ ConnectionInv /\ [PNext]_vars => ConnectionInv'
  BY ConnectionStep
<1>3. QED
  BY <1>1, <1>2, TypesInvariant, PTL DEF PSpec

(* Whatever connects, falls back and fails in whatever order, no websocket *)
(* call is made on a handle of an HTTP transfer.                           *)
THEOREM ProtocolsAgree == PSpec => []ConnectionConsistent
<1>1. ConnectionInv => ConnectionConsistent
  BY DEF ConnectionInv
<1>2. QED
  BY <1>1, ConnectionInvariant, PTL

(* Once a websocket has been connected, no outage makes the client fall    *)
(* back to HTTP.                                                           *)
THEOREM FallbackOnlyAtFirst == PSpec => NoLateFallback
<1>1. TypeInv /\ ConnectionInv /\ [PNext]_vars => [everWs => gHost' = gHost]_gvars
  BY ConnectionStep
<1>2. QED
  BY <1>1, ConnectionInvariant, PTL DEF PSpec, NoLateFallback

-----------------------------------------------------------------------------
(* A line that is posted arrives.                                          *)
LEMMA PostingSteps ==
  ASSUME GTypeOK, ConnectionInv, PostInv, pc = "posting", gQuiet, PostStep
  PROVE  /\ gUp' = gUp /\ gHandle' # "half"
         /\ gPc' = "resend" => gHandle' \in {"none", "open"}
         /\ gPc' = "idle" => delivered'
<1> USE DEF PostInv, GTypeOK, Sending, Returned
<1>1. CASE Post
  BY <1>1 DEF Post
<1>2. CASE Connected
  BY <1>2 DEF Connected, ToConnect
<1>3. CASE Fallback
  BY <1>3 DEF Fallback, ToConnect
<1>4. CASE ConnectFails
  BY <1>4 DEF ConnectFails, ToConnect, CanConnect, ConnectionInv
<1>5. CASE WsSend
  BY <1>5 DEF WsSend
<1>6. CASE WsSendFails
  BY <1>6 DEF WsSendFails
<1>7. QED
  BY <1>1, <1>2, <1>3, <1>4, <1>5, <1>6 DEF PostStep

LEMMA PostedStep ==
  ASSUME TypeInv, ConnectionInv, PostInv, [PNext]_vars
  PROVE  PostInv'
<1>1. GTypeOK /\ gQuiet \in BOOLEAN
  BY DEF TypeInv, PTypeOK
<1>2. CASE GrafanaPosting
  <2>1. PostStep /\ pc = "posting" /\ UNCHANGED <<pc, gQuiet>>
    BY <1>2 DEF GrafanaPosting, quiet
  <2>2. QED
    BY <1>1, <2>1, PostingSteps DEF PostInv
<1>3. CASE GrafanaPost
  BY <1>1, <1>3 DEF GrafanaPost, PostLine, PostInv
<1>4. CASE GrafanaWorld
  <2>1. CASE ServerGoes /\ ~gQuiet'
    BY <2>1 DEF PostInv
  <2>2. CASE ~gUp /\ UNCHANGED <<pc, gQuiet>>
    BY <1>4, <2>2 DEF PostInv, GrafanaWorld, ServerComes, ServerGoes
  <2>3. QED
    BY <1>4, <2>1, <2>2 DEF GrafanaWorld
<1>5. CASE GrafanaReset
  BY <1>5 DEF GrafanaReset, LinkReset, PostInv, quiet
<1>6. CASE pc' # "posting"
  BY <1>6 DEF PostInv
<1>7. CASE UNCHANGED <<gvars, pc, gQuiet>>
  BY <1>7 DEF PostInv, gvars
<1>8. UNCHANGED vars => UNCHANGED <<gvars, pc, gQuiet>>
  BY DEF vars, quiet
<1>9. PNext => \/ GrafanaPosting \/ GrafanaPost \/ GrafanaWorld \/ GrafanaReset
               \/ pc' # "posting"
               \/ UNCHANGED <<gvars, pc, gQuiet>>
  <2>1. Start \/ InitialQuery \/ FirstPass \/ InfluxLine \/ InfluxSent \/ GrafanaLine
          \/ GrafanaNotSent \/ GrafanaSent \/ MqttBegin \/ InitialSent \/ RoundDone \/ Free
          => pc' # "posting"
    BY DEF Start, InitialQuery, FirstPass, InfluxLine, InfluxSent, GrafanaLine,
           GrafanaNotSent, GrafanaSent, MqttBegin, InitialSent, RoundDone, Free
  <2>2. IdlePass \/ Round \/ MqttSending \/ Terminate \/ BrokerWorld \/ BrokerNoticed
          => UNCHANGED <<gvars, pc, gQuiet>> \/ pc' # "posting"
    BY DEF IdlePass, Round, MqttSending, Terminate, BrokerWorld, BrokerNoticed, quiet
  <2>3. QED
    BY <2>1, <2>2 DEF PNext, MainStep, Deliver
<1>10. QED
  BY <1>2, <1>3, <1>4, <1>5, <1>6, <1>7, <1>8, <1>9

(* While Grafana can be reached every line that is posted arrives within   *)
(* its call, over whatever connection the calls before have left.          *)
THEOREM LinesArrive == PSpec => []GrafanaDelivered
<1>1. PInit => PostInv
  BY DEF PInit, PostInv
<1>2. TypeInv /\ ConnectionInv /\ PostInv /\ [PNext]_vars => PostInv'
  BY PostedStep
<1>3. PostInv => GrafanaDelivered
  BY DEF PostInv, GrafanaDelivered, GrafanaPosted
<1>4. QED
  BY <1>1, <1>2, <1>3, ConnectionInvariant, PTL DEF PSpec

-----------------------------------------------------------------------------
(* The messages to the broker.                                             *)

(* A message published while the broker answers and the client knows the   *)
(* state of its connection arrives.                                        *)
LEMMA PublishArrives ==
  ASSUME NEW ok \in BOOLEAN, Publish(ok), broker, MTypeOK, isConnected = linkAlive
  PROVE  ok /\ isConnected' = linkAlive'
<1>1. CASE isConnected /\ ok = linkAlive /\ UNCHANGED <<isConnected, linkAlive>>
  <2>1. linkAlive
    BY <1>1
  <2>2. QED
    BY <1>1, <2>1
<1>2. CASE ok = broker /\ isConnected' = broker /\ linkAlive' = broker
  BY <1>2
<1>3. QED
  BY <1>1, <1>2 DEF Publish, Connect, link

(* The meters whose message has been sent.                                 *)
Sent(k) == mPc = "idle" \/ k < mNext \/ (mPc = "stat" /\ k = mNext)

LEMMA SendingSteps ==
  ASSUME TypeInv, SendStep,
         broker, isConnected = linkAlive,
         \A k \in DOMAIN MeterList :
           MeterList[k] \in ToSend /\ Sent(k) => MeterList[k] \in current
  PROVE  /\ broker' /\ isConnected' = linkAlive'
         /\ \A k \in DOMAIN MeterList :
              MeterList[k] \in ToSend' /\ Sent(k)' => MeterList[k] \in current'
<1>1. /\ MTypeOK /\ mNext \in Nat /\ (mPc = "stat" => mNext <= Len(MeterList))
      /\ Len(MeterList) \in Nat /\ DOMAIN MeterList = 1 .. Len(MeterList)
  BY MeterIndices DEF TypeInv, PTypeOK, MTypeOK
<1>2. CASE MeterSkipped
  <2>1. /\ mPc = "meter" /\ mPc' = "meter" /\ mNext' = mNext + 1
        /\ UNCHANGED <<isConnected, linkAlive, broker, current>> /\ ToSend' = ToSend
        /\ MeterList[mNext] \notin ToSend
    BY <1>2 DEF MeterSkipped, AtMeter, NextMeter, Sends, ToSend, link
  <2>2. QED
    BY <1>1, <2>1 DEF Sent
<1>3. CASE MeterSent
  <2>1. PICK ok \in BOOLEAN :
          /\ Publish(ok)
          /\ current' = IF ok THEN current \cup {MeterList[mNext]} ELSE current
    BY <1>3 DEF MeterSent
  <2>2. ok /\ isConnected' = linkAlive'
    BY <1>1, <2>1, PublishArrives
  <2>3. /\ mPc = "meter" /\ broker' = broker /\ ToSend' = ToSend
        /\ \/ mPc' = "stat" /\ mNext' = mNext
           \/ mPc' = "meter" /\ mNext' = mNext + 1
    BY <1>3 DEF MeterSent, AtMeter, NextMeter, ToSend
  <2>4. current' = current \cup {MeterList[mNext]}
    BY <2>1, <2>2
  <2>5. ASSUME NEW k \in DOMAIN MeterList, MeterList[k] \in ToSend', Sent(k)'
        PROVE  MeterList[k] \in current'
    <3>1. k < mNext \/ k = mNext
      BY <1>1, <2>3, <2>5 DEF Sent
    <3>2. QED
      BY <2>3, <2>4, <2>5, <3>1 DEF Sent
  <2>6. QED
    BY <2>2, <2>3, <2>5
<1>4. CASE StatSent
  <2>1. isConnected' = linkAlive'
    BY <1>1, <1>4, PublishArrives DEF StatSent
  <2>2. /\ mPc = "stat" /\ mPc' = "meter" /\ mNext' = mNext + 1
        /\ UNCHANGED <<broker, current>> /\ ToSend' = ToSend
    BY <1>4 DEF StatSent, NextMeter, ToSend
  <2>3. QED
    BY <1>1, <2>1, <2>2 DEF Sent
<1>5. CASE TotalSent
  <2>1. isConnected' = linkAlive'
    BY <1>1, <1>5, PublishArrives DEF TotalSent, link
  <2>2. /\ mPc = "meter" /\ mNext > Len(MeterList)
        /\ UNCHANGED <<broker, current>> /\ ToSend' = ToSend
    BY <1>5 DEF TotalSent, ToSend
  <2>3. \A k \in DOMAIN MeterList : Sent(k)
    BY <1>1, <2>2 DEF Sent
  <2>4. QED
    BY <2>1, <2>2, <2>3
<1>6. QED
  BY <1>2, <1>3, <1>4, <1>5 DEF SendStep

LEMMA SentStep ==
  ASSUME TypeInv, SendInv, [PNext]_vars
  PROVE  SendInv'
<1> USE DEF SendInv, Sent
<1>1. CASE MqttSending
  <2>1. /\ SendStep /\ pc \in {"initialsending", "sending"}
        /\ UNCHANGED <<pc, mQuiet>>
    BY <1>1 DEF MqttSending, quiet
  <2>2. QED
    BY <2>1, SendingSteps
<1>2. CASE MqttBegin
  <2>1. /\ mPc' = "meter" /\ mNext' = 1
        /\ mQuiet' = (broker /\ isConnected = linkAlive)
        /\ UNCHANGED <<broker, isConnected, linkAlive>>
    BY <1>2 DEF MqttBegin, SendMeterData, link
  <2>2. \A k \in DOMAIN MeterList : ~(k < 1)
    BY MeterIndices
  <2>3. QED
    BY <2>1, <2>2
<1>3. CASE BrokerWorld
  <2>1. CASE ~mQuiet'
    BY <2>1
  <2>2. CASE ~broker /\ UNCHANGED <<pc, mQuiet>>
    BY <1>3, <2>2 DEF BrokerWorld, BrokerComes, BrokerGoes
  <2>3. QED
    BY <1>3, <2>1, <2>2 DEF BrokerWorld
<1>4. CASE BrokerNoticed
  <2>1. isConnected /\ ~linkAlive /\ UNCHANGED <<pc, mQuiet>>
    BY <1>4 DEF BrokerNoticed, NoticeLost, quiet
  <2>2. QED
    BY <2>1 DEF TypeInv, PTypeOK, MTypeOK
<1>5. CASE pc' \notin {"initialsending", "sending"}
  BY <1>5
<1>6. CASE UNCHANGED <<mvars, pc, mQuiet>>
  BY <1>6 DEF mvars, link, ToSend
<1>7. UNCHANGED vars => UNCHANGED <<mvars, pc, mQuiet>>
  BY DEF vars, quiet
<1>8. PNext => \/ MqttSending \/ MqttBegin \/ BrokerWorld \/ BrokerNoticed
               \/ pc' \notin {"initialsending", "sending"}
               \/ UNCHANGED <<mvars, pc, mQuiet>>
  <2>1. Start \/ InitialQuery \/ FirstPass \/ Round \/ InfluxLine \/ InfluxSent
          \/ GrafanaLine \/ GrafanaNotSent \/ GrafanaPost \/ GrafanaPosting
          \/ GrafanaSent \/ InitialSent \/ RoundDone \/ Free \/ IdlePass
          => pc' \notin {"initialsending", "sending"}
    BY DEF Start, InitialQuery, FirstPass, Round, InfluxLine, InfluxSent, GrafanaLine,
           GrafanaNotSent, GrafanaPost, GrafanaPosting, GrafanaSent, InitialSent,
           RoundDone, Free, IdlePass
  <2>2. Terminate \/ GrafanaWorld \/ GrafanaReset => UNCHANGED <<mvars, pc, mQuiet>>
    BY DEF Terminate, GrafanaWorld, GrafanaReset, quiet
  <2>3. QED
    BY <2>1, <2>2 DEF PNext, MainStep, Deliver
<1>9. QED
  BY <1>1, <1>2, <1>3, <1>4, <1>5, <1>6, <1>7, <1>8

(* After a round of messages during which the broker could be reached it   *)
(* has every present value, for any number of meters.                      *)
THEOREM BrokerUpToDate == PSpec => []BrokerCurrent
<1>1. PInit => SendInv
  BY DEF PInit, SendInv
<1>2. TypeInv /\ SendInv /\ [PNext]_vars => SendInv'
  BY SentStep
<1>3. TypeInv /\ SendInv => BrokerCurrent
  <2> SUFFICES ASSUME TypeInv, SendInv, MqttSent, mQuiet,
                      NEW m \in (read \cup FormulaOnly) \cap MqttMeters
               PROVE  m \in current
    BY DEF BrokerCurrent
  <2>1. m \in Meters /\ m \in ToSend
    BY MqttAssumption DEF ToSend
  <2>2. PICK k \in DOMAIN MeterList : m = MeterList[k]
    BY <2>1, MeterIndices
  <2>3. QED
    BY <2>1, <2>2 DEF SendInv, MqttSent
<1>4. QED
  BY <1>1, <1>2, <1>3, TypesInvariant, PTL DEF PSpec

-----------------------------------------------------------------------------
(* Dryruns.                                                                *)
LEMMA DryrunStep ==
  ASSUME TypeInv, DryrunInv, [PNext]_vars
  PROVE  DryrunInv'
<1> SUFFICES ASSUME option > 0
             PROVE  DryrunInv'
  <2>1. option' = option
    BY DEF PNext, MainStep, Deliver, Start, InitialQuery, FirstPass, IdlePass, Round,
           InfluxLine, InfluxSent, GrafanaLine, GrafanaNotSent, GrafanaPost,
           GrafanaPosting, GrafanaSent, MqttBegin, MqttSending, InitialSent, RoundDone,
           Free, Terminate, GrafanaWorld, GrafanaReset, BrokerWorld, BrokerNoticed,
           control, vars
  <2>2. QED
    BY <2>1 DEF DryrunInv
<1>1. /\ gHandle = "none" /\ ~isConnected /\ ~delivered /\ current = {}
      /\ pc \notin {"initialmqtt", "initialsending", "posting", "sending"}
      /\ dryrun = 0 => terminated /\ pc \in {"top", "ended"}
      /\ dryrun \in Nat /\ option \in Nat /\ terminated \in BOOLEAN
  BY MainAssumption DEF DryrunInv, DryrunSendsNothing, TypeInv, PTypeOK
<1> USE <1>1 DEF DryrunInv, DryrunSendsNothing, control
<1>2. CASE Start \/ FirstPass \/ InfluxLine \/ InfluxSent \/ GrafanaLine \/ GrafanaNotSent
           \/ Terminate \/ UNCHANGED vars
  BY <1>2 DEF Start, FirstPass, InfluxLine, InfluxSent, GrafanaLine, GrafanaNotSent,
              Terminate, vars, gvars, mvars, link
<1>3. CASE InitialQuery \/ IdlePass \/ Round
  <2>1. /\ current' \subseteq current
        /\ UNCHANGED <<isConnected, gHandle, delivered, dryrun, option>>
    BY <1>3 DEF InitialQuery, IdlePass, Round, NewValues, gvars, link
  <2>2. dryrun > 0 /\ pc' \in {"top", "influx"}
    BY <1>3 DEF InitialQuery, IdlePass, Round
  <2>3. QED
    BY <2>1, <2>2
<1>4. CASE RoundDone
  <2>1. /\ UNCHANGED <<isConnected, gHandle, delivered, current, option>>
        /\ pc' = "top" /\ dryrun' = dryrun - 1 /\ dryrun > 0
        /\ dryrun = 1 => terminated'
    BY <1>4 DEF RoundDone, gvars, mvars, link
  <2>2. QED
    BY <2>1
<1>5. CASE Free
  <2>1. /\ gHandle' = "none" /\ ~isConnected' /\ UNCHANGED <<delivered, current>>
        /\ pc' = "ended" /\ terminated /\ UNCHANGED <<dryrun, option, terminated>>
    BY <1>5 DEF Free, GFree, MFree
  <2>2. QED
    BY <2>1
<1>6. CASE BrokerNoticed \/ GrafanaReset \/ GrafanaWorld \/ BrokerWorld
  BY <1>6 DEF BrokerNoticed, NoticeLost, GrafanaReset, LinkReset, GrafanaWorld, BrokerWorld
<1>7. CASE GrafanaPost \/ GrafanaPosting \/ GrafanaSent \/ MqttBegin \/ MqttSending
           \/ InitialSent
  BY <1>7 DEF GrafanaPost, GrafanaPosting, GrafanaSent, GrafanaPosted, MqttBegin,
              MqttSending, InitialSent
<1>8. QED
  BY <1>2, <1>3, <1>4, <1>5, <1>6, <1>7 DEF PNext, MainStep, Deliver

(* However long a dryrun goes on, it touches no server.                    *)
THEOREM DryrunsAreSilent == PSpec => []DryrunSendsNothing
<1>1. PInit => DryrunInv
  BY DEF PInit, GInit, MInit, DryrunInv, DryrunSendsNothing
<1>2. TypeInv /\ DryrunInv /\ [PNext]_vars => DryrunInv'
  BY DryrunStep
<1>3. DryrunInv => DryrunSendsNothing
  BY DEF DryrunInv, DryrunSendsNothing
<1>4. QED
  BY <1>1, <1>2, <1>3, TypesInvariant, PTL DEF PSpec

-----------------------------------------------------------------------------
(* Induction up to n: from the least element of a set of numbers, which    *)
(* is the well-foundedness of < .                                          *)
LEMMA LeastNatural ==
  ASSUME NEW T \in SUBSET Nat, T # {}
  PROVE  \E n \in T : \A k \in T : n <= k
<1>1. PICK n \in T : \A k \in T : ~(<<k, n>> \in OpToRel(<, Nat))
  BY NatLessThanWellFounded, WFMin
<1>2. \A k \in T : ~(k < n)
  BY <1>1 DEF OpToRel
<1>3. QED
  BY <1>2

LEMMA Induction ==
  ASSUME NEW n \in Nat, NEW T, 0 \in T,
         \A k \in 1 .. n : k - 1 \in T => k \in T
  PROVE  \A k \in 0 .. n : k \in T
<1> SUFFICES ASSUME ~(\A k \in 0 .. n : k \in T)
             PROVE  FALSE
  OBVIOUS
<1> DEFINE missing == (0 .. n) \ T
<1>1. PICK k \in missing : \A l \in missing : k <= l
  <2>1. missing \in SUBSET Nat /\ missing # {}
    OBVIOUS
  <2> HIDE DEF missing
  <2>2. QED
    BY <2>1, LeastNatural
<1>2. k \in 1 .. n /\ k - 1 \in 0 .. n /\ k - 1 \notin missing
  BY <1>1
<1>3. QED
  BY <1>1, <1>2

(* A loop of n calls: g[c, k] is what call k makes of c, and inv[k] what   *)
(* holds after it.                                                         *)
LoopCalls(g, inv, n) == \A k \in 1 .. n : \A c \in inv[k - 1] : g[<<c, k>>] \in inv[k]

LoopRun(f, g, inv, n) ==
  /\ f = [k \in 0 .. n |-> f[k]]
  /\ \A k \in 1 .. n : f[k - 1] \in inv[k - 1] /\ f[k] = g[<<f[k - 1], k>>]

LEMMA LoopRuns ==
  ASSUME NEW n \in Nat, NEW inv, NEW b \in inv[0], NEW g, LoopCalls(g, inv, n)
  PROVE  \E f : f[0] = b /\ LoopRun(f, g, inv, n)
<1> DEFINE S == UNION {inv[k] : k \in 0 .. n}
           UpTo(k, f) == f[0] = b /\ (\A i \in 0 .. k : f[i] \in inv[i])
                         /\ \A i \in 1 .. k : f[i] = g[<<f[i - 1], i>>]
           T == {k \in 0 .. n : \E f \in [0 .. n -> S] : UpTo(k, f)}
<1>1. 0 \in T
  <2>1. 0 \in 0 .. n /\ b \in S
    OBVIOUS
  <2> HIDE DEF S
  <2>2. [i \in 0 .. n |-> b] \in [0 .. n -> S] /\ UpTo(0, [i \in 0 .. n |-> b])
    BY <2>1
  <2> HIDE DEF UpTo
  <2>3. QED
    BY <2>1, <2>2
<1>2. ASSUME NEW k \in 1 .. n, k - 1 \in T
      PROVE  k \in T
  <2>1. PICK f \in [0 .. n -> S] : UpTo(k - 1, f)
    BY <1>2
  <2> DEFINE next == g[<<f[k - 1], k>>]
             h == [f EXCEPT ![k] = next]
  <2>2. k \in 0 .. n /\ k - 1 \in 0 .. n /\ k # 0 /\ k - 1 # k /\ 0 \in 0 .. n
    OBVIOUS
  <2>3. next \in inv[k] /\ next \in S
    <3>1. f[k - 1] \in inv[k - 1]
      <4>1. k - 1 \in 0 .. k - 1
        OBVIOUS
      <4>2. QED
        BY <2>1, <4>1
    <3>2. next \in inv[k]
      BY <3>1 DEF LoopCalls
    <3>3. QED
      BY <2>2, <3>2
  <2> HIDE DEF next, S
  <2>4. h \in [0 .. n -> S] /\ h[k] = next /\ \A i \in 0 .. n : i # k => h[i] = f[i]
    BY <2>2, <2>3
  <2> HIDE DEF h
  <2>5. h[0] = b /\ h[k] = g[<<h[k - 1], k>>]
    BY <2>1, <2>2, <2>4 DEF next
  <2>6. \A i \in 0 .. k : h[i] \in inv[i]
    <3> TAKE i \in 0 .. k
    <3>1. CASE i = k
      BY <3>1, <2>3, <2>4
    <3>2. CASE i # k
      <4>1. i \in 0 .. k - 1 /\ i \in 0 .. n
        BY <3>2
      <4>2. QED
        BY <3>2, <4>1, <2>1, <2>4
    <3>3. QED
      BY <3>1, <3>2
  <2>7. \A i \in 1 .. k : h[i] = g[<<h[i - 1], i>>]
    <3> TAKE i \in 1 .. k
    <3>1. CASE i = k
      BY <3>1, <2>5
    <3>2. CASE i # k
      <4>1. i \in 1 .. k - 1 /\ i \in 0 .. n /\ i - 1 \in 0 .. n /\ i - 1 # k
        BY <3>2
      <4>2. QED
        BY <3>2, <4>1, <2>1, <2>4
    <3>3. QED
      BY <3>1, <3>2
  <2>8. UpTo(k, h)
    BY <2>5, <2>6, <2>7
  <2> HIDE DEF UpTo
  <2>9. QED
    BY <2>2, <2>4, <2>8
<1> HIDE DEF T
<1>3. n \in T
  BY <1>1, <1>2, Induction
<1> USE DEF T
<1>4. PICK f \in [0 .. n -> S] : UpTo(n, f)
  BY <1>3
<1>5. \A i \in 1 .. n : i - 1 \in 0 .. n
  OBVIOUS
<1> HIDE DEF S, T
<1>6. LoopRun(f, g, inv, n)
  BY <1>4, <1>5 DEF LoopRun
<1>7. QED
  BY <1>4, <1>6

LEMMA LoopEnds ==
  ASSUME NEW n \in Nat, NEW inv, NEW g, LoopCalls(g, inv, n),
         NEW h, h[0] \in inv[0],
         \A k \in 1 .. n : h[k - 1] \in inv[k - 1] => h[k] = g[<<h[k - 1], k>>]
  PROVE  h[n] \in inv[n]
<1> DEFINE T == {k \in 0 .. n : h[k] \in inv[k]}
<1>1. 0 \in T
  OBVIOUS
<1>2. ASSUME NEW k \in 1 .. n, k - 1 \in T
      PROVE  k \in T
  <2>1. k \in 0 .. n /\ h[k - 1] \in inv[k - 1]
    BY <1>2
  <2>2. QED
    BY <2>1 DEF LoopCalls
<1> HIDE DEF T
<1>3. n \in T
  BY <1>1, <1>2, Induction
<1>4. QED
  BY <1>3 DEF T

-----------------------------------------------------------------------------
(* Buffers and texts.                                                      *)
Names == Meters \cup {"stat", "total"}
         \cup UNION {{Fields[m][i].name : i \in DOMAIN Fields[m]} : m \in Meters}

Tokens == [sep : {"", " ", ",", "\n"}, type : {MEAS, TAG, FIELD_FLOAT, TIMESTAMP},
           name : Names]

Buffers == [text : Seq(Tokens), used : Nat, size : Nat, last : 0 .. 7,
            inside : BOOLEAN, ok : BOOLEAN]


(* Room in a buffer: if names fit nothing was written out of it.           *)
Room(b) ==
  /\ b \in Buffers /\ b.ok /\ b.size >= InitialSize
  /\ NamesFit => b.inside /\ b.used <= b.size

SameText(b, c) == c.text = b.text /\ c.last = b.last

LEMMA AppendRoom ==
  ASSUME NEW b, Room(b), NEW n \in Nat
  PROVE  Room(AppendToBuf(b, n)) /\ SameText(b, AppendToBuf(b, n))
<1> DEFINE size == IF b.used + n + 1 > b.size THEN b.size * 2 + n ELSE b.size
           c == AppendToBuf(b, n)
<1>1. b \in Buffers /\ b.used \in Nat /\ b.size \in Nat /\ b.inside \in BOOLEAN /\ b.ok \in BOOLEAN
  BY DEF Room, Buffers
<1>2. size \in Nat /\ size >= InitialSize /\ (b.used <= b.size => b.used + n < size)
  BY <1>1, FormatAssumption DEF Room
<1>3. c = [b EXCEPT !.size = size, !.used = b.used + n,
                    !.inside = (b.inside /\ b.used + n <= size) /\ b.used + n < size]
  <2> HIDE DEF size
  <2>1. c = [Wrote(b, n, size) EXCEPT !.inside = Wrote(b, n, size).inside
                                       /\ Wrote(b, n, size).used < Wrote(b, n, size).size]
    BY DEF AppendToBuf, size
  <2>2. Wrote(b, n, size) = [b EXCEPT !.size = size, !.used = b.used + n,
                                      !.inside = b.inside /\ b.used + n <= size]
    BY DEF Wrote
  <2> QED
    BY <1>1, <2>1, <2>2 DEF Buffers
<1> DEFINE used == b.used + n
           in == (b.inside /\ used <= size) /\ used < size
<1>4. used \in Nat /\ in \in BOOLEAN /\ (NamesFit => in /\ used <= size)
  BY <1>1, <1>2 DEF Room
<1>5. c = [b EXCEPT !.size = size, !.used = used, !.inside = in]
  BY <1>3
<1> HIDE DEF size, c, used, in
<1>6. /\ c \in Buffers /\ c.ok = b.ok /\ c.text = b.text /\ c.last = b.last
      /\ c.size = size /\ c.used = used /\ c.inside = in
  BY <1>1, <1>2, <1>4, <1>5 DEF Buffers
<1>7. QED
  BY <1>1, <1>2, <1>4, <1>6 DEF Room, SameText, c

LEMMA EscapedRoom ==
  ASSUME NEW b, Room(b), NEW n \in Nat, NamesFit => n <= InitialSize
  PROVE  Room(EscapedAppend(b, n)) /\ SameText(b, EscapedAppend(b, n))
<1> DEFINE size == IF b.used + n > b.size THEN b.size * 2 ELSE b.size
           c == EscapedAppend(b, n)
<1>1. b \in Buffers /\ b.used \in Nat /\ b.size \in Nat /\ b.inside \in BOOLEAN /\ b.ok \in BOOLEAN
  BY DEF Room, Buffers
<1>2. /\ size \in Nat /\ size >= InitialSize
      /\ b.used <= b.size /\ n <= InitialSize => b.used + n <= size
  BY <1>1, FormatAssumption DEF Room
<1>3. c = [b EXCEPT !.size = size, !.used = b.used + n,
                    !.inside = b.inside /\ b.used + n <= size]
  BY DEF EscapedAppend, Wrote
<1> DEFINE used == b.used + n
           in == b.inside /\ used <= size
<1>4. used \in Nat /\ in \in BOOLEAN /\ (NamesFit => in /\ used <= size)
  BY <1>1, <1>2 DEF Room
<1>5. c = [b EXCEPT !.size = size, !.used = used, !.inside = in]
  BY <1>3
<1> HIDE DEF size, c, used, in
<1>6. /\ c \in Buffers /\ c.ok = b.ok /\ c.text = b.text /\ c.last = b.last
      /\ c.size = size /\ c.used = used /\ c.inside = in
  BY <1>1, <1>2, <1>4, <1>5 DEF Buffers
<1>7. QED
  BY <1>1, <1>2, <1>4, <1>6 DEF Room, SameText, c

(* The part of WellFormed that concerns a token and the one before it.     *)
Follows(before, t, first) ==
  /\ t.type = MEAS => before = TIMESTAMP /\ t.sep = IF first THEN "" ELSE "\n"
  /\ t.type = TAG => before \in {MEAS, TAG} /\ t.sep = ","
  /\ t.type = FIELD_FLOAT => \/ before \in {MEAS, TAG} /\ t.sep = " "
                             \/ before = FIELD_FLOAT /\ t.sep = ","
  /\ t.type = TIMESTAMP => before = FIELD_FLOAT /\ t.sep = " "

Linked(text) ==
  \A i \in 1 .. Len(text) :
    Follows(IF i = 1 THEN TIMESTAMP ELSE text[i - 1].type, text[i], i = 1)

(* A buffer between two calls.                                             *)
Formatted(b) ==
  /\ Room(b) /\ Linked(b.text)
  /\ b.last = IF Len(b.text) = 0 THEN 0 ELSE b.text[Len(b.text)].type

LEMMA Types ==
  /\ MEAS # TAG /\ MEAS # FIELD_FLOAT /\ MEAS # TIMESTAMP
  /\ TAG # FIELD_FLOAT /\ TAG # TIMESTAMP /\ FIELD_FLOAT # TIMESTAMP
BY DEF MEAS, TAG, FIELD_FLOAT, TIMESTAMP

LEMMA LastType ==
  ASSUME NEW b, Formatted(b)
  PROVE  (b.last = 0) <=> (Len(b.text) = 0)
<1>1. b.text \in Seq(Tokens)
  BY DEF Formatted, Room, Buffers
<1>2. Len(b.text) # 0 => b.text[Len(b.text)] \in Tokens
  BY <1>1
<1>3. Len(b.text) # 0 => b.text[Len(b.text)].type \in {MEAS, TAG, FIELD_FLOAT, TIMESTAMP}
  BY <1>2 DEF Tokens
<1>4. QED
  BY <1>3 DEF Formatted, MEAS, TAG, FIELD_FLOAT, TIMESTAMP

LEMMA LinkedAppend ==
  ASSUME NEW b, Formatted(b), NEW t \in Tokens,
         Follows(IF Len(b.text) = 0 THEN TIMESTAMP ELSE b.last, t, Len(b.text) = 0),
         NEW c, Room(c), c.text = Append(b.text, t), c.last = t.type
  PROVE  Formatted(c)
<1>1. b.text \in Seq(Tokens)
  BY DEF Formatted, Room, Buffers
<1>2. /\ Len(c.text) = Len(b.text) + 1 /\ Len(b.text) \in Nat
      /\ \A i \in 1 .. Len(b.text) : c.text[i] = b.text[i]
      /\ c.text[Len(b.text) + 1] = t
  BY <1>1
<1>3. ASSUME NEW i \in 1 .. Len(c.text)
      PROVE  Follows(IF i = 1 THEN TIMESTAMP ELSE c.text[i - 1].type, c.text[i], i = 1)
  <2>1. CASE i \in 1 .. Len(b.text)
    <3>1. c.text[i] = b.text[i] /\ (i # 1 => c.text[i - 1] = b.text[i - 1])
      BY <2>1, <1>2
    <3>2. Follows(IF i = 1 THEN TIMESTAMP ELSE b.text[i - 1].type, b.text[i], i = 1)
      BY <2>1 DEF Formatted, Linked
    <3>3. CASE i = 1
      BY <3>1, <3>2, <3>3
    <3>4. CASE i # 1
      BY <3>1, <3>2, <3>4
    <3>5. QED
      BY <3>3, <3>4
  <2>2. CASE i = Len(b.text) + 1
    <3>1. CASE Len(b.text) = 0
      BY <2>2, <3>1, <1>2
    <3>2. CASE Len(b.text) # 0
      <4>1. b.last = c.text[i - 1].type /\ i # 1
        BY <2>2, <3>2, <1>2 DEF Formatted
      <4>2. QED
        BY <4>1, <2>2, <3>2, <1>2
    <3>3. QED
      BY <3>1, <3>2
  <2>3. QED
    BY <2>1, <2>2, <1>2
<1>4. QED
  BY <1>2, <1>3 DEF Formatted, Linked

(* The calls of FormatLine.                                                *)
LEMMA TokenRoom ==
  ASSUME NEW b, Room(b), NEW sep, NEW type, NEW name,
         [sep |-> sep, type |-> type, name |-> name] \in Tokens
  PROVE  /\ Room(Token(b, sep, type, name))
         /\ Token(b, sep, type, name).last = type
         /\ Token(b, sep, type, name).text =
              Append(b.text, [sep |-> sep, type |-> type, name |-> name])
<1> DEFINE t == [sep |-> sep, type |-> type, name |-> name]
<1>1. b \in Buffers /\ b.text \in Seq(Tokens)
  BY DEF Room, Buffers
<1>2. Append(b.text, t) \in Seq(Tokens)
  BY <1>1
<1>3. type \in 0 .. 7
  <2>1. t.type \in {MEAS, TAG, FIELD_FLOAT, TIMESTAMP} /\ t.type = type
    BY DEF Tokens
  <2>2. QED
    BY <2>1 DEF MEAS, TAG, FIELD_FLOAT, TIMESTAMP
<1> HIDE DEF t
<1>4. Token(b, sep, type, name) = [b EXCEPT !.text = Append(b.text, t), !.last = type]
  BY DEF Token, t
<1>5. QED
  BY <1>1, <1>2, <1>3, <1>4 DEF Room, Buffers, t

LEMMA FormatMeas ==
  ASSUME NEW b, Formatted(b), b.last \in {0, TIMESTAMP}, NEW name \in Names
  PROVE  LET c == FormatLine(b, Arg(MEAS, name))
         IN /\ Formatted(c) /\ c.last = MEAS
            /\ \E t \in Tokens : t.type = MEAS /\ t.name = name /\ c.text = Append(b.text, t)
<1> DEFINE line == IF b.last # 0 THEN AppendToBuf(b, 1) ELSE b
           whole == EscapedAppend(line, NameLen)
           sep == IF b.last # 0 THEN "\n" ELSE ""
           c == Token(whole, sep, MEAS, name)
<1>1. Room(b) /\ b.ok
  BY DEF Formatted, Room
<1>2. FormatLine(b, Arg(MEAS, name)) = c
  <2> DEFINE arg == Arg(MEAS, name)
  <2>1. arg.type = MEAS /\ arg.name = name
    BY DEF Arg
  <2> HIDE DEF arg
  <2>2. FormatLine(b, arg) = Measurement(b, arg)
    BY <1>1, <2>1 DEF FormatLine, MEAS, TAG, FIELD_BOOLEAN, TIMESTAMP
  <2>3. ~(b.last # 0 /\ b.last <= TAG)
    BY DEF TAG, TIMESTAMP
  <2>4. Measurement(b, arg) = c
    BY <2>1, <2>3 DEF Measurement
  <2>5. QED
    BY <2>2, <2>4 DEF arg
<1>3. Room(line) /\ SameText(b, line)
  BY <1>1, AppendRoom DEF SameText
<1>4. Room(whole) /\ SameText(b, whole)
  <2> HIDE DEF line
  <2>1. QED
    BY <1>3, EscapedRoom, FormatAssumption DEF SameText, NamesFit
<1>5. [sep |-> sep, type |-> MEAS, name |-> name] \in Tokens
  BY DEF Tokens
<1> HIDE DEF whole, sep
<1> DEFINE t == [sep |-> sep, type |-> MEAS, name |-> name]
<1>6. Room(c) /\ c.last = MEAS /\ c.text = Append(b.text, t)
  BY <1>4, <1>5, TokenRoom DEF SameText
<1>7. Follows(IF Len(b.text) = 0 THEN TIMESTAMP ELSE b.last, t, Len(b.text) = 0)
  <2>1. (IF Len(b.text) = 0 THEN TIMESTAMP ELSE b.last) = TIMESTAMP
    BY LastType
  <2>2. t.type = MEAS /\ t.sep = IF Len(b.text) = 0 THEN "" ELSE "\n"
    BY LastType DEF sep
  <2> HIDE DEF t
  <2>3. QED
    BY <2>1, <2>2, Types, Zenon DEF Follows
<1> HIDE DEF c
<1>8. Formatted(c)
  BY <1>5, <1>6, <1>7, LinkedAppend
<1>9. t \in Tokens /\ t.type = MEAS /\ t.name = name
  BY <1>5
<1> HIDE DEF t
<1>10. QED
  BY <1>2, <1>6, <1>8, <1>9

(* A separator, a key, "=" and a value.                                    *)
LEMMA FormatItem ==
  ASSUME NEW b, Formatted(b), NEW type \in {TAG, FIELD_FLOAT}, NEW name \in Names,
         IF type = TAG THEN b.last = MEAS ELSE b.last \in {MEAS, TAG, FIELD_FLOAT}
  PROVE  LET c == FormatLine(b, Arg(type, name))
         IN /\ Formatted(c) /\ c.last = type
            /\ \E t \in Tokens : t.type = type /\ t.name = name /\ c.text = Append(b.text, t)
<1> DEFINE first == AppendToBuf(b, 1)
           escaped == EscapedAppend(first, NameLen)
           key == AppendToBuf(escaped, 1)
           value == IF type = TAG THEN EscapedAppend(key, NameLen)
                                  ELSE AppendToBuf(key, ValueLen)
           sep == IF b.last <= TAG /\ type > TAG THEN " " ELSE ","
           upTo == IF type = TAG THEN TAG ELSE FIELD_BOOLEAN
           c == Token(value, sep, type, name)
<1>1. Room(b) /\ b.ok
  BY DEF Formatted, Room
<1>2. FormatLine(b, Arg(type, name)) = c
  <2> DEFINE arg == Arg(type, name)
  <2>1. arg.type = type /\ arg.name = name
    BY DEF Arg
  <2> HIDE DEF arg
  <2>2. type # MEAS /\ type \in TAG .. FIELD_BOOLEAN /\ type # TIMESTAMP
    BY DEF MEAS, TAG, FIELD_FLOAT, FIELD_BOOLEAN, TIMESTAMP
  <2>3. FormatLine(b, arg) = Item(b, arg)
    BY <1>1, <2>1, <2>2 DEF FormatLine
  <2>4. ~(b.last < MEAS \/ b.last > upTo)
    BY DEF MEAS, TAG, FIELD_FLOAT, FIELD_BOOLEAN
  <2> HIDE DEF upTo
  <2>5. Item(b, arg) = c
    BY <2>1, <2>4 DEF Item, upTo
  <2>6. QED
    BY <2>3, <2>5 DEF arg
<1>3. Room(first) /\ SameText(b, first)
  BY <1>1, AppendRoom
<1> HIDE DEF first
<1>4. Room(escaped) /\ SameText(b, escaped)
  BY <1>3, EscapedRoom, FormatAssumption DEF SameText, NamesFit
<1> HIDE DEF escaped
<1>5. Room(key) /\ SameText(b, key)
  BY <1>4, AppendRoom DEF SameText
<1> HIDE DEF key
<1>6. Room(value) /\ SameText(b, value)
  <2>1. CASE type = TAG
    BY <2>1, <1>5, EscapedRoom, FormatAssumption DEF SameText, NamesFit
  <2>2. CASE type # TAG
    <3>1. ValueLen \in Nat
      BY DEF ValueLen
    <3>2. QED
      BY <2>2, <3>1, <1>5, AppendRoom DEF SameText
  <2>3. QED
    BY <2>1, <2>2
<1> DEFINE t == [sep |-> sep, type |-> type, name |-> name]
<1>7. t \in Tokens
  BY DEF Tokens
<1>8. Follows(IF Len(b.text) = 0 THEN TIMESTAMP ELSE b.last, t, Len(b.text) = 0)
  <2>1. b.last # 0
    BY DEF MEAS, TAG, FIELD_FLOAT
  <2>2. Len(b.text) # 0
    BY <2>1, LastType
  <2>3. t.type = type /\ t.sep = sep
    OBVIOUS
  <2>4. CASE type = TAG
    <3>1. sep = ","
      BY <2>4 DEF TAG
    <3> HIDE DEF t, sep
    <3>2. QED
      BY <2>2, <2>3, <2>4, <3>1, Types, Zenon DEF Follows
  <2>5. CASE type = FIELD_FLOAT
    <3>1. b.last \in {MEAS, TAG, FIELD_FLOAT}
      BY <2>5, Types
    <3>2. \/ b.last \in {MEAS, TAG} /\ sep = " "
          \/ b.last = FIELD_FLOAT /\ sep = ","
      BY <2>5, <3>1 DEF MEAS, TAG, FIELD_FLOAT
    <3> HIDE DEF t, sep
    <3>3. QED
      BY <2>2, <2>3, <2>5, <3>2, Types, Zenon DEF Follows
  <2>6. QED
    BY <2>4, <2>5
<1> HIDE DEF value, sep
<1>9. Room(c) /\ c.last = type /\ c.text = Append(b.text, t)
  BY <1>6, <1>7, TokenRoom DEF SameText
<1> HIDE DEF c
<1>10. Formatted(c)
  <2>1. t.type = type
    OBVIOUS
  <2> HIDE DEF t
  <2>2. QED
    BY <1>7, <1>8, <1>9, <2>1, LinkedAppend
<1>11. t \in Tokens /\ t.type = type /\ t.name = name
  BY <1>7
<1> HIDE DEF t
<1>12. QED
  BY <1>2, <1>9, <1>10, <1>11

LEMMA FormatTimestamp ==
  ASSUME NEW b, Formatted(b), b.last = FIELD_FLOAT, NEW name \in Names
  PROVE  LET c == FormatLine(b, Arg(TIMESTAMP, name))
         IN /\ Formatted(c) /\ c.last = TIMESTAMP
            /\ \E t \in Tokens : t.type = TIMESTAMP /\ t.name = name /\ c.text = Append(b.text, t)
<1> DEFINE value == AppendToBuf(b, 1 + ValueLen)
           sep == " "
           c == Token(value, sep, TIMESTAMP, name)
           t == [sep |-> sep, type |-> TIMESTAMP, name |-> name]
<1>1. Room(b) /\ b.ok
  BY DEF Formatted, Room
<1>2. FormatLine(b, Arg(TIMESTAMP, name)) = c
  <2> DEFINE arg == Arg(TIMESTAMP, name)
  <2>1. arg.type = TIMESTAMP /\ arg.name = name
    BY DEF Arg
  <2> HIDE DEF arg
  <2>2. TIMESTAMP # MEAS /\ TIMESTAMP \notin TAG .. FIELD_BOOLEAN
    BY DEF MEAS, TAG, FIELD_BOOLEAN, TIMESTAMP
  <2>3. FormatLine(b, arg) = Timestamp(b, arg)
    BY <1>1, <2>1, <2>2 DEF FormatLine
  <2>4. ~(b.last <= TAG \/ b.last > FIELD_BOOLEAN)
    BY DEF TAG, FIELD_FLOAT, FIELD_BOOLEAN
  <2>5. Timestamp(b, arg) = c
    BY <2>1, <2>4 DEF Timestamp
  <2>6. QED
    BY <2>3, <2>5 DEF arg
<1>3. Room(value) /\ SameText(b, value)
  BY <1>1, AppendRoom DEF ValueLen
<1>4. t \in Tokens
  BY DEF Tokens
<1>5. Follows(IF Len(b.text) = 0 THEN TIMESTAMP ELSE b.last, t, Len(b.text) = 0)
  <2>1. b.last # 0
    BY DEF FIELD_FLOAT
  <2>2. Len(b.text) # 0 /\ t.type = TIMESTAMP /\ t.sep = " "
    BY <2>1, LastType
  <2> HIDE DEF t, sep
  <2>3. QED
    BY <2>2, Types, Zenon DEF Follows
<1> HIDE DEF value, sep
<1>6. Room(c) /\ c.last = TIMESTAMP /\ c.text = Append(b.text, t)
  BY <1>3, <1>4, TokenRoom DEF SameText
<1> HIDE DEF c
<1>7. Formatted(c)
  <2>1. t.type = TIMESTAMP
    OBVIOUS
  <2> HIDE DEF t
  <2>2. QED
    BY <1>4, <1>5, <1>6, <2>1, LinkedAppend
<1>8. t \in Tokens /\ t.type = TIMESTAMP /\ t.name = name
  BY <1>4
<1> HIDE DEF t
<1>9. QED
  BY <1>2, <1>6, <1>7, <1>8

-----------------------------------------------------------------------------
(* The fields of a text, counted by the measurement of their line.         *)
LineAt(text, i, m) ==
  \E j \in 1 .. i : /\ text[j].type = MEAS /\ text[j].name = m
                    /\ \A k \in j + 1 .. i : text[k].type # MEAS

Count(b, m) == Cardinality(FieldsIn(b.text, m))

(* The last line of b is one of m.                                         *)
LineOf(b, m) == \A x \in Names : LineAt(b.text, Len(b.text), x) <=> x = m

(* From b to c the line of m has n more fields, and no other line has.     *)
Counted(b, c, m, n) ==
  \A x \in Names : Count(c, x) = Count(b, x) + IF x = m THEN n ELSE 0

LEMMA AppendedText ==
  ASSUME NEW text \in Seq(Tokens), NEW t \in Tokens
  PROVE  /\ Append(text, t) \in Seq(Tokens)
         /\ Len(text) \in Nat /\ Len(Append(text, t)) = Len(text) + 1
         /\ DOMAIN text = 1 .. Len(text)
         /\ DOMAIN Append(text, t) = 1 .. Len(text) + 1
         /\ \A i \in 1 .. Len(text) : Append(text, t)[i] = text[i]
         /\ Append(text, t)[Len(text) + 1] = t
OBVIOUS

LEMMA LineAtBefore ==
  ASSUME NEW text \in Seq(Tokens), NEW t \in Tokens,
         NEW i \in 1 .. Len(text), NEW m
  PROVE  LineAt(Append(text, t), i, m) <=> LineAt(text, i, m)
<1> DEFINE longer == Append(text, t)
<1>1. \A k \in 1 .. i : longer[k] = text[k]
  BY AppendedText
<1> HIDE DEF longer
<1>2. \A j \in 1 .. i : j \in 1 .. i /\ \A k \in j + 1 .. i : k \in 1 .. i
  OBVIOUS
<1>3. QED
  BY <1>1, <1>2 DEF LineAt, longer

LEMMA LineAtLast ==
  ASSUME NEW text \in Seq(Tokens), NEW t \in Tokens, NEW m
  PROVE  LineAt(Append(text, t), Len(text) + 1, m) <=>
           IF t.type = MEAS THEN t.name = m ELSE LineAt(text, Len(text), m)
<1> DEFINE longer == Append(text, t)
           n == Len(text)
<1>1. /\ n \in Nat /\ longer[n + 1] = t
      /\ \A k \in 1 .. n : longer[k] = text[k]
  BY AppendedText
<1> HIDE DEF longer, n
<1>2. CASE t.type = MEAS
  <2>1. ASSUME LineAt(longer, n + 1, m)
        PROVE  t.name = m
    <3>1. PICK j \in 1 .. n + 1 : /\ longer[j].type = MEAS /\ longer[j].name = m
                                  /\ \A k \in j + 1 .. n + 1 : longer[k].type # MEAS
      BY <2>1 DEF LineAt
    <3>2. j = n + 1
      BY <1>1, <1>2, <3>1
    <3>3. QED
      BY <1>1, <3>1, <3>2
  <2>2. ASSUME t.name = m
        PROVE  LineAt(longer, n + 1, m)
    <3>1. n + 1 \in 1 .. n + 1 /\ \A k \in (n + 1) + 1 .. n + 1 : FALSE
      BY <1>1
    <3>2. QED
      BY <1>1, <1>2, <2>2, <3>1 DEF LineAt
  <2>3. QED
    BY <1>2, <2>1, <2>2 DEF longer, n
<1>3. CASE t.type # MEAS
  <2>1. ASSUME LineAt(longer, n + 1, m)
        PROVE  LineAt(text, n, m)
    <3>1. PICK j \in 1 .. n + 1 : /\ longer[j].type = MEAS /\ longer[j].name = m
                                  /\ \A k \in j + 1 .. n + 1 : longer[k].type # MEAS
      BY <2>1 DEF LineAt
    <3>2. j \in 1 .. n
      BY <1>1, <1>3, <3>1
    <3>3. \A k \in j + 1 .. n : k \in 1 .. n /\ k \in j + 1 .. n + 1
      BY <1>1, <3>2
    <3>4. QED
      BY <1>1, <3>1, <3>2, <3>3 DEF LineAt
  <2>2. ASSUME LineAt(text, n, m)
        PROVE  LineAt(longer, n + 1, m)
    <3>1. PICK j \in 1 .. n : /\ text[j].type = MEAS /\ text[j].name = m
                              /\ \A k \in j + 1 .. n : text[k].type # MEAS
      BY <2>2 DEF LineAt
    <3>2. /\ j \in 1 .. n + 1
          /\ \A k \in j + 1 .. n + 1 : k = n + 1 \/ (k \in j + 1 .. n /\ k \in 1 .. n)
      BY <1>1
    <3>3. QED
      BY <1>1, <1>3, <3>1, <3>2 DEF LineAt
  <2>3. QED
    BY <1>3, <2>1, <2>2 DEF longer, n
<1>4. QED
  BY <1>2, <1>3

LEMMA FieldsAreFinite ==
  ASSUME NEW text \in Seq(Tokens), NEW m
  PROVE  /\ FieldsIn(text, m) = {i \in 1 .. Len(text) :
                                   text[i].type = FIELD_FLOAT /\ LineAt(text, i, m)}
         /\ IsFiniteSet(FieldsIn(text, m)) /\ Cardinality(FieldsIn(text, m)) \in Nat
<1>1. DOMAIN text = 1 .. Len(text) /\ Len(text) \in Nat
  OBVIOUS
<1>2. FieldsIn(text, m) = {i \in 1 .. Len(text) :
                              text[i].type = FIELD_FLOAT /\ LineAt(text, i, m)}
  BY <1>1 DEF FieldsIn, LineAt
<1>3. IsFiniteSet(1 .. Len(text))
  BY <1>1, FS_Interval
<1>4. FieldsIn(text, m) \subseteq 1 .. Len(text)
  BY <1>2
<1>5. IsFiniteSet(FieldsIn(text, m))
  BY <1>3, <1>4, FS_Subset
<1>6. QED
  BY <1>2, <1>5, FS_CardinalityType

LEMMA FieldsAfter ==
  ASSUME NEW text \in Seq(Tokens), NEW t \in Tokens, NEW m
  PROVE  FieldsIn(Append(text, t), m) =
           IF t.type = FIELD_FLOAT /\ LineAt(text, Len(text), m)
             THEN FieldsIn(text, m) \cup {Len(text) + 1} ELSE FieldsIn(text, m)
<1> DEFINE longer == Append(text, t)
           n == Len(text)
<1>1. /\ n \in Nat /\ Len(longer) = n + 1 /\ longer[n + 1] = t /\ longer \in Seq(Tokens)
      /\ \A i \in 1 .. n : longer[i] = text[i]
  BY AppendedText
<1>2. \A i \in 1 .. n : LineAt(longer, i, m) <=> LineAt(text, i, m)
  BY LineAtBefore
<1>3. t.type # MEAS => (LineAt(longer, n + 1, m) <=> LineAt(text, n, m))
  BY LineAtLast
<1> HIDE DEF longer, n
<1>4. /\ FieldsIn(longer, m) = {i \in 1 .. n + 1 : longer[i].type = FIELD_FLOAT /\ LineAt(longer, i, m)}
      /\ FieldsIn(text, m) = {i \in 1 .. n : text[i].type = FIELD_FLOAT /\ LineAt(text, i, m)}
  BY <1>1, FieldsAreFinite DEF n
<1>5. ASSUME NEW i
      PROVE  i \in FieldsIn(longer, m) <=>
               \/ i \in FieldsIn(text, m)
               \/ i = n + 1 /\ t.type = FIELD_FLOAT /\ LineAt(text, n, m)
  <2>1. i \in 1 .. n + 1 <=> i \in 1 .. n \/ i = n + 1
    BY <1>1
  <2>2. n + 1 \notin 1 .. n
    BY <1>1
  <2>3. QED
    BY <1>1, <1>2, <1>3, <1>4, <2>1, <2>2, Types
<1>6. QED
  BY <1>5 DEF longer, n

(* What the calls add.                                                     *)
LEMMA CountAfter ==
  ASSUME NEW b, Formatted(b), NEW c, Formatted(c), NEW t \in Tokens, NEW m \in Names,
         c.text = Append(b.text, t), t.type = MEAS => t.name = m,
         t.type # MEAS => LineOf(b, m)
  PROVE  /\ LineOf(c, m)
         /\ Counted(b, c, m, IF t.type = FIELD_FLOAT THEN 1 ELSE 0)
<1>1. b.text \in Seq(Tokens) /\ Len(b.text) \in Nat
  BY DEF Formatted, Room, Buffers
<1>2. Len(c.text) = Len(b.text) + 1
  BY <1>1, AppendedText
<1>3. LineOf(c, m)
  <2>1. ASSUME NEW x \in Names
        PROVE  LineAt(c.text, Len(b.text) + 1, x) <=>
                 IF t.type = MEAS THEN t.name = x ELSE LineAt(b.text, Len(b.text), x)
    BY <1>1, LineAtLast
  <2>2. CASE t.type = MEAS
    BY <1>2, <2>1, <2>2 DEF LineOf
  <2>3. CASE t.type # MEAS
    BY <1>2, <2>1, <2>3 DEF LineOf
  <2>4. QED
    BY <2>2, <2>3
<1>4. ASSUME NEW x \in Names
      PROVE  Count(c, x) = Count(b, x) + IF x = m THEN IF t.type = FIELD_FLOAT THEN 1 ELSE 0
                                                  ELSE 0
  <2>1. /\ IsFiniteSet(FieldsIn(b.text, x)) /\ Count(b, x) \in Nat
        /\ Len(b.text) + 1 \notin FieldsIn(b.text, x)
    BY <1>1, FieldsAreFinite DEF Count
  <2>2. CASE t.type = FIELD_FLOAT /\ x = m
    <3>1. LineAt(b.text, Len(b.text), x)
      BY <2>2, Types DEF LineOf
    <3>2. FieldsIn(c.text, x) = FieldsIn(b.text, x) \cup {Len(b.text) + 1}
      BY <1>1, <2>2, <3>1, FieldsAfter
    <3>3. Cardinality(FieldsIn(c.text, x)) = Cardinality(FieldsIn(b.text, x)) + 1
      BY <2>1, <3>2, FS_AddElement
    <3>4. QED
      BY <2>2, <3>3 DEF Count
  <2>3. CASE ~(t.type = FIELD_FLOAT /\ x = m)
    <3>1. ~(t.type = FIELD_FLOAT /\ LineAt(b.text, Len(b.text), x))
      BY <2>3, Types DEF LineOf
    <3>2. FieldsIn(c.text, x) = FieldsIn(b.text, x)
      BY <1>1, <3>1, FieldsAfter
    <3>3. QED
      BY <2>1, <2>3, <3>2 DEF Count
  <2>4. QED
    BY <2>2, <2>3
<1>5. QED
  BY <1>3, <1>4 DEF Counted

LEMMA CountedTwice ==
  ASSUME NEW a, Formatted(a), NEW b, NEW c, NEW m, NEW k \in Nat, NEW n \in Nat,
         Counted(a, b, m, k), Counted(b, c, m, n)
  PROVE  Counted(a, c, m, k + n)
<1>1. \A x \in Names : Count(a, x) \in Nat
  BY FieldsAreFinite DEF Formatted, Room, Buffers, Count
<1>2. QED
  BY <1>1 DEF Counted

LEMMA CountedNone ==
  ASSUME NEW b, Formatted(b), NEW m
  PROVE  Counted(b, b, m, 0)
<1>1. \A x \in Names : Count(b, x) \in Nat
  BY FieldsAreFinite DEF Formatted, Room, Buffers, Count
<1>2. QED
  BY <1>1 DEF Counted

LEMMA AfterMeas ==
  ASSUME NEW b, Formatted(b), b.last \in {0, TIMESTAMP}, NEW m \in Names
  PROVE  LET c == FormatLine(b, Arg(MEAS, m))
         IN /\ Formatted(c) /\ c.last = MEAS
            /\ LineOf(c, m) /\ Counted(b, c, m, 0)
<1> DEFINE c == FormatLine(b, Arg(MEAS, m))
<1>1. Formatted(c) /\ c.last = MEAS
  BY FormatMeas
<1>2. PICK t \in Tokens : t.type = MEAS /\ t.name = m /\ c.text = Append(b.text, t)
  BY FormatMeas
<1> HIDE DEF c
<1>3. LineOf(c, m) /\ Counted(b, c, m, IF t.type = FIELD_FLOAT THEN 1 ELSE 0)
  BY <1>1, <1>2, CountAfter
<1>4. QED
  BY <1>1, <1>2, <1>3, Types DEF c

LEMMA AfterTag ==
  ASSUME NEW b, Formatted(b), b.last = MEAS, NEW m \in Names, LineOf(b, m)
  PROVE  LET c == FormatLine(b, Arg(TAG, m))
         IN /\ Formatted(c) /\ c.last = TAG
            /\ LineOf(c, m) /\ Counted(b, c, m, 0)
<1> DEFINE c == FormatLine(b, Arg(TAG, m))
<1>1. /\ Formatted(c) /\ c.last = TAG
      /\ \E t \in Tokens : t.type = TAG /\ t.name = m /\ c.text = Append(b.text, t)
  <2>1. TAG \in {TAG, FIELD_FLOAT}
    OBVIOUS
  <2>2. QED
    BY <2>1, FormatItem
<1>2. PICK t \in Tokens : t.type = TAG /\ t.name = m /\ c.text = Append(b.text, t)
  BY <1>1
<1> HIDE DEF c
<1>3. LineOf(c, m) /\ Counted(b, c, m, IF t.type = FIELD_FLOAT THEN 1 ELSE 0)
  BY <1>1, <1>2, Types, CountAfter
<1>4. QED
  BY <1>1, <1>2, <1>3, Types DEF c

LEMMA AfterField ==
  ASSUME NEW b, Formatted(b), b.last \in {MEAS, TAG, FIELD_FLOAT},
         NEW name \in Names, NEW m \in Names, LineOf(b, m)
  PROVE  LET c == FormatLine(b, Arg(FIELD_FLOAT, name))
         IN /\ Formatted(c) /\ c.last = FIELD_FLOAT
            /\ LineOf(c, m) /\ Counted(b, c, m, 1)
<1> DEFINE c == FormatLine(b, Arg(FIELD_FLOAT, name))
<1>1. /\ Formatted(c) /\ c.last = FIELD_FLOAT
      /\ \E t \in Tokens : t.type = FIELD_FLOAT /\ t.name = name /\ c.text = Append(b.text, t)
  <2>1. FIELD_FLOAT \in {TAG, FIELD_FLOAT} /\ FIELD_FLOAT # TAG
    BY Types
  <2>2. QED
    BY <2>1, FormatItem
<1>2. PICK t \in Tokens : t.type = FIELD_FLOAT /\ t.name = name /\ c.text = Append(b.text, t)
  BY <1>1
<1> HIDE DEF c
<1>3. LineOf(c, m) /\ Counted(b, c, m, IF t.type = FIELD_FLOAT THEN 1 ELSE 0)
  BY <1>1, <1>2, Types, CountAfter
<1>4. QED
  BY <1>1, <1>2, <1>3 DEF c

LEMMA AfterTimestamp ==
  ASSUME NEW b, Formatted(b), b.last = FIELD_FLOAT, NEW m \in Names, LineOf(b, m)
  PROVE  LET c == FormatLine(b, Arg(TIMESTAMP, m))
         IN Formatted(c) /\ c.last = TIMESTAMP /\ Counted(b, c, m, 0)
<1> DEFINE c == FormatLine(b, Arg(TIMESTAMP, m))
<1>1. Formatted(c) /\ c.last = TIMESTAMP
  BY FormatTimestamp
<1>2. PICK t \in Tokens : t.type = TIMESTAMP /\ t.name = m /\ c.text = Append(b.text, t)
  BY FormatTimestamp
<1> HIDE DEF c
<1>3. Counted(b, c, m, IF t.type = FIELD_FLOAT THEN 1 ELSE 0)
  BY <1>1, <1>2, Types, CountAfter
<1>4. QED
  BY <1>1, <1>2, <1>3, Types DEF c

-----------------------------------------------------------------------------
(* The fields of one meter.                                                *)
LEMMA FieldTypes ==
  ASSUME NEW m \in Meters
  PROVE  /\ m \in Names /\ Len(Fields[m]) \in Nat /\ DOMAIN Fields[m] = 1 .. Len(Fields[m])
         /\ \A i \in DOMAIN Fields[m] : Fields[m][i].name \in Names
<1>1. Fields[m] \in Seq({Fields[m][i] : i \in DOMAIN Fields[m]})
  BY MainAssumption, FormatAssumption
<1>2. QED
  BY <1>1 DEF Names

(* After the first k fields.                                               *)
FieldsDone(b, c, m, own, k) ==
  /\ Formatted(c) /\ LineOf(c, m) /\ Counted(b, c, m, Cardinality(own \cap (1 .. k)))
  /\ c.last = IF own \cap (1 .. k) = {} THEN b.last ELSE FIELD_FLOAT

LEMMA FieldDone ==
  ASSUME NEW m \in Meters, NEW own \in SUBSET DOMAIN Fields[m],
         NEW b, Formatted(b), LineOf(b, m), b.last \in {MEAS, TAG},
         NEW k \in 1 .. Len(Fields[m]), NEW c, FieldsDone(b, c, m, own, k - 1)
  PROVE  FieldsDone(b, AppendField(c, m, k, own), m, own, k)
<1> DEFINE next == AppendField(c, m, k, own)
           before == own \cap (1 .. k - 1)
           now == own \cap (1 .. k)
<1>1. /\ Formatted(c) /\ LineOf(c, m) /\ Counted(b, c, m, Cardinality(before))
      /\ c.last = IF before = {} THEN b.last ELSE FIELD_FLOAT
  BY DEF FieldsDone
<1>2. IsFiniteSet(before) /\ Cardinality(before) \in Nat /\ k \notin before
  <2>1. IsFiniteSet(1 .. k - 1) /\ before \subseteq 1 .. k - 1
    BY FS_Interval
  <2>2. QED
    BY <2>1, FS_Subset, FS_CardinalityType
<1>3. CASE k \in own
  <2>1. now = before \cup {k}
    BY <1>3
  <2>2. Cardinality(now) = Cardinality(before) + 1
    BY <1>2, <2>1, FS_AddElement
  <2>3. next = FormatLine(c, Arg(FIELD_FLOAT, Fields[m][k].name))
    BY <1>3 DEF AppendField
  <2>4. c.last \in {MEAS, TAG, FIELD_FLOAT}
    BY <1>1
  <2>5. Fields[m][k].name \in Names /\ m \in Names
    BY FieldTypes
  <2> HIDE DEF next, now, before
  <2>6. Formatted(next) /\ next.last = FIELD_FLOAT /\ LineOf(next, m) /\ Counted(c, next, m, 1)
    BY <1>1, <2>3, <2>4, <2>5, AfterField
  <2>7. Counted(b, next, m, Cardinality(now))
    BY <1>1, <1>2, <2>2, <2>6, CountedTwice
  <2>8. QED
    BY <2>1, <2>6, <2>7 DEF FieldsDone, next, now
<1>4. CASE k \notin own
  <2>1. now = before /\ next = c
    BY <1>4 DEF AppendField
  <2>2. QED
    BY <1>1, <2>1 DEF FieldsDone
<1>5. QED
  BY <1>3, <1>4

LEMMA FieldLoop ==
  ASSUME NEW m \in Meters, NEW own \in SUBSET DOMAIN Fields[m], own # {},
         NEW b, Formatted(b), LineOf(b, m), b.last \in {MEAS, TAG}
  PROVE  LET c == AppendFields(b, m, own)
         IN /\ Formatted(c) /\ c.last = TIMESTAMP
            /\ Counted(b, c, m, Cardinality(own))
<1> DEFINE n == Len(Fields[m])
           Call(c, i) == AppendField(c, m, i, own)
           inv == [k \in 0 .. n |-> {c \in Buffers : FieldsDone(b, c, m, own, k)}]
           g == [p \in Buffers \X (1 .. n) |-> Call(p[1], p[2])]
           after == CHOOSE h : h = [i \in 0 .. n |-> IF i = 0 THEN b ELSE Call(h[i - 1], i)]
<1>1. n \in Nat /\ DOMAIN Fields[m] = 1 .. n /\ m \in Names
  BY FieldTypes
<1>2. ASSUME NEW k \in 1 .. n, NEW c \in inv[k - 1]
      PROVE  c \in Buffers /\ Call(c, k) \in inv[k]
  <2>1. k \in 0 .. n /\ k - 1 \in 0 .. n
    OBVIOUS
  <2>2. c \in Buffers /\ FieldsDone(b, c, m, own, k - 1)
    BY <2>1
  <2>3. FieldsDone(b, Call(c, k), m, own, k)
    BY <2>2, FieldDone
  <2>4. Call(c, k) \in Buffers
    BY <2>3 DEF FieldsDone, Formatted, Room
  <2>5. QED
    BY <2>1, <2>2, <2>3, <2>4
<1>3. b \in inv[0]
  <2>1. own \cap (1 .. 0) = {} /\ 0 \in 0 .. n
    BY <1>1
  <2>2. b \in Buffers
    BY DEF Formatted, Room
  <2>3. Counted(b, b, m, 0)
    BY CountedNone
  <2>4. FieldsDone(b, b, m, own, 0)
    BY <2>1, <2>3, FS_EmptySet DEF FieldsDone
  <2>5. QED
    BY <2>1, <2>2, <2>4
<1> HIDE DEF n, inv
<1>4. \A k \in 1 .. n : \A c \in inv[k - 1] : g[<<c, k>>] = Call(c, k)
  BY <1>2
<1> HIDE DEF g
<1>5. LoopCalls(g, inv, n)
  BY <1>2, <1>4 DEF LoopCalls
<1>6. PICK f : f[0] = b /\ LoopRun(f, g, inv, n)
  BY <1>1, <1>3, <1>5, LoopRuns
<1>7. f = [i \in 0 .. n |-> IF i = 0 THEN b ELSE Call(f[i - 1], i)]
  <2>1. \A i \in 1 .. n : f[i] = Call(f[i - 1], i)
    BY <1>4, <1>6 DEF LoopRun
  <2>2. \A i \in 0 .. n : f[i] = IF i = 0 THEN b ELSE Call(f[i - 1], i)
    BY <1>1, <1>6, <2>1
  <2>3. QED
    BY <1>6, <2>2 DEF LoopRun
<1>8. after = [i \in 0 .. n |-> IF i = 0 THEN b ELSE Call(after[i - 1], i)]
  BY <1>7
<1>9. AppendFields(b, m, own) = FormatLine(after[n], Arg(TIMESTAMP, m))
  BY DEF AppendFields, Loop, n
<1> HIDE DEF after
<1>10. after[n] \in inv[n]
  <2>1. after[0] = b
    BY <1>1, <1>8
  <2>2. \A k \in 1 .. n : after[k] = Call(after[k - 1], k)
    BY <1>1, <1>8
  <2> HIDE DEF Call
  <2>3. QED
    BY <1>1, <1>3, <1>4, <1>5, <2>1, <2>2, LoopEnds
<1>11. FieldsDone(b, after[n], m, own, n)
  BY <1>1, <1>10 DEF inv
<1>12. /\ Formatted(after[n]) /\ LineOf(after[n], m) /\ after[n].last = FIELD_FLOAT
       /\ Counted(b, after[n], m, Cardinality(own))
  <2>1. own \cap (1 .. n) = own
    BY <1>1
  <2>2. QED
    BY <1>11, <2>1 DEF FieldsDone
<1> DEFINE c == FormatLine(after[n], Arg(TIMESTAMP, m))
<1>13. Formatted(c) /\ c.last = TIMESTAMP /\ Counted(after[n], c, m, 0)
  BY <1>1, <1>12, AfterTimestamp
<1>14. Cardinality(own) \in Nat
  <2>1. IsFiniteSet(1 .. n) /\ own \subseteq 1 .. n
    BY <1>1, FS_Interval
  <2>2. QED
    BY <2>1, FS_Subset, FS_CardinalityType
<1> HIDE DEF c
<1>15. Counted(b, c, m, Cardinality(own))
  <2>1. Counted(b, c, m, Cardinality(own) + 0)
    BY <1>12, <1>13, <1>14, CountedTwice
  <2>2. QED
    BY <1>14, <2>1
<1>16. QED
  BY <1>9, <1>13, <1>15 DEF c

-----------------------------------------------------------------------------
(* The lines of the meters.                                                *)
OwnFields(to, m) == IF to = "influx" THEN InfluxFields(m) ELSE GrafanaFields(m)

TextDone(b) ==
  /\ b \in Buffers
  /\ b = NoBuffer \/ (Formatted(b) /\ b.last = TIMESTAMP)

LEMMA OwnTypes ==
  ASSUME NEW to, NEW m \in Meters
  PROVE  /\ OwnFields(to, m) \in SUBSET DOMAIN Fields[m]
         /\ Cardinality(OwnFields(to, m)) \in Nat
         /\ OwnFields(to, m) = {} => Cardinality(OwnFields(to, m)) = 0
<1>1. OwnFields(to, m) \in SUBSET DOMAIN Fields[m]
  BY DEF OwnFields, InfluxFields, GrafanaFields
<1>2. Len(Fields[m]) \in Nat /\ DOMAIN Fields[m] = 1 .. Len(Fields[m])
  BY FieldTypes
<1>3. IsFiniteSet(DOMAIN Fields[m])
  BY <1>2, FS_Interval
<1>4. QED
  BY <1>1, <1>3, FS_Subset, FS_CardinalityType, FS_EmptySet

LEMMA CountIsNat ==
  ASSUME NEW b \in Buffers, NEW m
  PROVE  Count(b, m) \in Nat
BY FieldsAreFinite DEF Buffers, Count

LEMMA NothingYet ==
  TextDone(NoBuffer) /\ \A m \in Meters : Count(NoBuffer, m) = 0
<1>1. NoBuffer \in Buffers
  BY DEF NoBuffer, Buffers
<1>2. NoBuffer.text = <<>>
  BY DEF NoBuffer
<1>3. ASSUME NEW m
      PROVE  FieldsIn(NoBuffer.text, m) = {}
  <2>1. DOMAIN NoBuffer.text = {}
    BY <1>2
  <2>2. QED
    BY <2>1 DEF FieldsIn
<1>4. TextDone(NoBuffer)
  BY <1>1 DEF TextDone
<1>5. ASSUME NEW m \in Meters
      PROVE  Count(NoBuffer, m) = 0
  BY <1>3, FS_EmptySet DEF Count
<1>6. QED
  BY <1>4, <1>5

LEMMA Begun ==
  ASSUME NEW b, TextDone(b), NEW needed \in Nat, needed >= InitialSize
  PROVE  LET c == BeginLine(needed, b)
         IN Formatted(c) /\ c.last \in {0, TIMESTAMP} /\ c.text = b.text
<1>1. CASE b = NoBuffer
  <2> DEFINE c == BeginLine(needed, b)
  <2>1. c = [NoBuffer EXCEPT !.size = needed]
    BY <1>1 DEF BeginLine, NoBuffer
  <2>2. /\ c.text = <<>> /\ c.used = 0 /\ c.size = needed /\ c.last = 0
        /\ c.inside = TRUE /\ c.ok = TRUE
    BY <2>1 DEF NoBuffer
  <2>3. c \in Buffers
    BY <1>1, <2>1 DEF TextDone, Buffers
  <2> HIDE DEF c
  <2>4. Room(c)
    BY <2>2, <2>3 DEF Room
  <2>5. Len(c.text) = 0 /\ Linked(c.text)
    BY <2>2 DEF Linked
  <2>6. QED
    BY <1>1, <2>2, <2>4, <2>5 DEF Formatted, NoBuffer, c
<1>2. CASE Formatted(b) /\ b.last = TIMESTAMP
  <2>1. b.size # 0
    BY <1>2, FormatAssumption DEF Formatted, Room, Buffers
  <2>2. QED
    BY <1>2, <2>1 DEF BeginLine
<1>3. QED
  BY <1>1, <1>2 DEF TextDone

LEMMA DataDone ==
  ASSUME NEW to \in {"influx", "grafana"}, NEW needed \in Nat, needed >= InitialSize,
         NEW m \in Enabled, NEW b, TextDone(b)
  PROVE  LET c == AppendData(to, needed, b, m)
         IN TextDone(c) /\ Counted(b, c, m, Cardinality(OwnFields(to, m)))
<1> DEFINE c == AppendData(to, needed, b, m)
           own == OwnFields(to, m)
           begun == BeginLine(needed, b)
           meas == FormatLine(begun, Arg(MEAS, m))
           line == IF to = "influx" THEN FormatLine(meas, Arg(TAG, m)) ELSE meas
           all == AppendFields(line, m, own)
<1>1. m \in Meters /\ m \in Names
  BY MainAssumption, FieldTypes
<1>2. own \in SUBSET DOMAIN Fields[m] /\ Cardinality(own) \in Nat
  BY <1>1, OwnTypes
<1>3. c = IF own = {} THEN b ELSE all
  BY DEF AppendData, InfluxAppendData, GrafanaAppendData, OwnFields
<1>4. CASE own = {}
  <2>1. Cardinality(own) = 0
    BY <1>1, <1>4, OwnTypes
  <2>2. Counted(b, b, m, 0)
    BY CountIsNat DEF TextDone, Counted
  <2>3. QED
    BY <1>3, <1>4, <2>1, <2>2
<1>5. CASE own # {}
  <2>1. Formatted(begun) /\ begun.last \in {0, TIMESTAMP} /\ begun.text = b.text
    BY Begun
  <2> HIDE DEF begun
  <2>2. Formatted(meas) /\ meas.last = MEAS /\ LineOf(meas, m) /\ Counted(begun, meas, m, 0)
    BY <1>1, <2>1, AfterMeas
  <2> HIDE DEF meas
  <2>3. /\ Formatted(line) /\ line.last \in {MEAS, TAG} /\ LineOf(line, m)
        /\ Counted(begun, line, m, 0)
    <3>1. CASE to = "influx"
      <4>1. /\ Formatted(line) /\ line.last = TAG /\ LineOf(line, m)
            /\ Counted(meas, line, m, 0)
        BY <1>1, <2>2, <3>1, AfterTag
      <4> HIDE DEF line
      <4>2. Counted(begun, line, m, 0 + 0)
        BY <2>1, <2>2, <4>1, CountedTwice
      <4>3. QED
        BY <4>1, <4>2
    <3>2. CASE to # "influx"
      BY <2>2, <3>2
    <3>3. QED
      BY <3>1, <3>2
  <2> HIDE DEF line
  <2>4. Formatted(all) /\ all.last = TIMESTAMP /\ Counted(line, all, m, Cardinality(own))
    BY <1>1, <1>2, <1>5, <2>3, FieldLoop
  <2> HIDE DEF all, own
  <2>5. Counted(begun, all, m, Cardinality(own))
    <3>1. Counted(begun, all, m, 0 + Cardinality(own))
      BY <1>2, <2>1, <2>3, <2>4, CountedTwice
    <3>2. QED
      BY <1>2, <3>1
  <2>6. Counted(b, all, m, Cardinality(own))
    BY <2>1, <2>5 DEF Counted, Count
  <2>7. TextDone(all)
    BY <2>4 DEF TextDone, Formatted, Room
  <2>8. QED
    BY <1>3, <1>5, <2>6, <2>7 DEF own
<1>6. QED
  BY <1>4, <1>5

(* After the first k meters.                                               *)
MetersDone(c, to, sent, k) ==
  /\ TextDone(c)
  /\ \A m \in Meters : Count(c, m) = IF m \in sent /\ \E j \in 1 .. k : MeterList[j] = m
                                       THEN Cardinality(OwnFields(to, m)) ELSE 0

AppendMeter(to, needed, sent, c, k) ==
  IF MeterList[k] \in sent THEN AppendData(to, needed, c, MeterList[k]) ELSE c

LEMMA MeterDone ==
  ASSUME NEW to \in {"influx", "grafana"}, NEW needed \in Nat, needed >= InitialSize,
         NEW sent \in SUBSET Enabled, NEW k \in 1 .. Len(MeterList),
         NEW c, MetersDone(c, to, sent, k - 1)
  PROVE  MetersDone(AppendMeter(to, needed, sent, c, k), to, sent, k)
<1> DEFINE next == AppendMeter(to, needed, sent, c, k)
           Listed(m, j) == m \in sent /\ \E i \in 1 .. j : MeterList[i] = m
<1>1. /\ Len(MeterList) \in Nat /\ DOMAIN MeterList = 1 .. Len(MeterList)
      /\ \A j \in 1 .. Len(MeterList) : MeterList[j] \in Meters
  BY MqttAssumption
<1>2. TextDone(c) /\ \A m \in Meters : Count(c, m) = IF Listed(m, k - 1)
                                         THEN Cardinality(OwnFields(to, m)) ELSE 0
  BY DEF MetersDone
<1>3. \A m \in Meters : Listed(m, k) <=> Listed(m, k - 1) \/ (m \in sent /\ m = MeterList[k])
  <2>1. \A i \in 1 .. k : i \in 1 .. k - 1 \/ i = k
    BY <1>1
  <2>2. k \in 1 .. k /\ \A i \in 1 .. k - 1 : i \in 1 .. k
    BY <1>1
  <2>3. QED
    BY <2>1, <2>2
<1>4. ~Listed(MeterList[k], k - 1)
  <2>1. \A i \in 1 .. k - 1 : i \in DOMAIN MeterList /\ i # k /\ k \in DOMAIN MeterList
    BY <1>1
  <2>2. QED
    BY <2>1, MainAssumption
<1> HIDE DEF Listed
<1>5. CASE MeterList[k] \in sent
  <2>1. TextDone(next)
        /\ Counted(c, next, MeterList[k], Cardinality(OwnFields(to, MeterList[k])))
    BY <1>2, <1>5, DataDone DEF AppendMeter
  <2> HIDE DEF next
  <2>2. ASSUME NEW m \in Meters
        PROVE  Count(next, m) = IF Listed(m, k) THEN Cardinality(OwnFields(to, m)) ELSE 0
    <3>1. m \in Names
      BY FieldTypes
    <3>2. Count(next, m) = Count(c, m) + IF m = MeterList[k]
            THEN Cardinality(OwnFields(to, MeterList[k])) ELSE 0
      BY <2>1, <3>1 DEF Counted
    <3>3. Cardinality(OwnFields(to, m)) \in Nat
      BY OwnTypes
    <3>4. CASE m = MeterList[k]
      BY <1>2, <1>3, <1>4, <1>5, <3>2, <3>3, <3>4
    <3>5. CASE m # MeterList[k]
      BY <1>2, <1>3, <3>2, <3>3, <3>5
    <3>6. QED
      BY <3>4, <3>5
  <2>3. QED
    BY <2>1, <2>2 DEF MetersDone, Listed, next
<1>6. CASE MeterList[k] \notin sent
  <2>1. next = c
    BY <1>6 DEF AppendMeter
  <2>2. \A m \in Meters : Listed(m, k) <=> Listed(m, k - 1)
    BY <1>3, <1>6
  <2>3. QED
    BY <1>2, <2>1, <2>2 DEF MetersDone, Listed
<1>7. QED
  BY <1>5, <1>6

LEMMA MeterLoop ==
  ASSUME NEW to \in {"influx", "grafana"}, NEW needed \in Nat, needed >= InitialSize,
         NEW sent \in SUBSET Enabled
  PROVE  MetersDone(AppendMeters(to, needed, MeterList, sent), to, sent, Len(MeterList))
<1> DEFINE n == Len(MeterList)
           Call(c, k) == AppendMeter(to, needed, sent, c, k)
           inv == [k \in 0 .. n |-> {c \in Buffers : MetersDone(c, to, sent, k)}]
           g == [p \in Buffers \X (1 .. n) |-> Call(p[1], p[2])]
           after == CHOOSE h : h = [i \in 0 .. n |-> IF i = 0 THEN NoBuffer
                                                     ELSE Call(h[i - 1], i)]
<1>1. n \in Nat
  BY MqttAssumption
<1>2. ASSUME NEW k \in 1 .. n, NEW c \in inv[k - 1]
      PROVE  c \in Buffers /\ Call(c, k) \in inv[k]
  <2>1. k \in 0 .. n /\ k - 1 \in 0 .. n
    BY <1>1
  <2>2. c \in Buffers /\ MetersDone(c, to, sent, k - 1)
    BY <2>1
  <2>3. MetersDone(Call(c, k), to, sent, k)
    BY <2>2, MeterDone
  <2>4. Call(c, k) \in Buffers
    BY <2>3 DEF MetersDone, TextDone
  <2>5. QED
    BY <2>1, <2>2, <2>3, <2>4
<1>3. NoBuffer \in inv[0]
  <2>1. 0 \in 0 .. n /\ \A j \in 1 .. 0 : FALSE
    BY <1>1
  <2>2. MetersDone(NoBuffer, to, sent, 0)
    BY <2>1, NothingYet DEF MetersDone
  <2>3. QED
    BY <2>1, <2>2, NothingYet DEF TextDone
<1> HIDE DEF n, inv
<1>4. \A k \in 1 .. n : \A c \in inv[k - 1] : g[<<c, k>>] = Call(c, k)
  BY <1>2
<1> HIDE DEF g
<1>5. LoopCalls(g, inv, n)
  BY <1>2, <1>4 DEF LoopCalls
<1>6. PICK f : f[0] = NoBuffer /\ LoopRun(f, g, inv, n)
  BY <1>1, <1>3, <1>5, LoopRuns
<1>7. f = [i \in 0 .. n |-> IF i = 0 THEN NoBuffer ELSE Call(f[i - 1], i)]
  <2>1. \A i \in 1 .. n : f[i] = Call(f[i - 1], i)
    BY <1>4, <1>6 DEF LoopRun
  <2>2. \A i \in 0 .. n : f[i] = IF i = 0 THEN NoBuffer ELSE Call(f[i - 1], i)
    BY <1>1, <1>6, <2>1
  <2>3. QED
    BY <1>6, <2>2 DEF LoopRun
<1>8. after = [i \in 0 .. n |-> IF i = 0 THEN NoBuffer ELSE Call(after[i - 1], i)]
  BY <1>7
<1>9. AppendMeters(to, needed, MeterList, sent) = after[n]
  BY DEF AppendMeters, Loop, AppendMeter, n
<1> HIDE DEF after
<1>10. after[n] \in inv[n]
  <2>1. after[0] = NoBuffer
    BY <1>1, <1>8
  <2>2. \A k \in 1 .. n : after[k] = Call(after[k - 1], k)
    BY <1>1, <1>8
  <2> HIDE DEF Call
  <2>3. QED
    BY <1>1, <1>3, <1>4, <1>5, <2>1, <2>2, LoopEnds
<1>11. QED
  BY <1>1, <1>9, <1>10 DEF inv, n

-----------------------------------------------------------------------------
(* The line of the statistics adds nothing to the lines of the meters.     *)
SameCounts(b, c) == \A m \in Meters : Count(c, m) = Count(b, m)

InStat(c) == Formatted(c) /\ LineOf(c, "stat") /\ c.last \in {MEAS, FIELD_FLOAT}

LEMMA SameCount ==
  ASSUME NEW b \in Buffers, NEW c, NEW n, Counted(b, c, "stat", n)
  PROVE  SameCounts(b, c)
<1>1. ASSUME NEW m \in Meters
      PROVE  Count(c, m) = Count(b, m)
  <2>1. m \in Names /\ m # "stat"
    BY MainAssumption DEF Names
  <2>2. Count(b, m) \in Nat
    BY CountIsNat
  <2>3. QED
    BY <2>1, <2>2 DEF Counted
<1>2. QED
  BY <1>1 DEF SameCounts

LEMMA InStatField ==
  ASSUME NEW b, InStat(b), NEW name \in Names
  PROVE  LET c == FormatLine(b, Arg(FIELD_FLOAT, name))
         IN InStat(c) /\ c.last = FIELD_FLOAT /\ SameCounts(b, c)
<1> DEFINE c == FormatLine(b, Arg(FIELD_FLOAT, name))
<1>1. Formatted(b) /\ LineOf(b, "stat") /\ b.last \in {MEAS, TAG, FIELD_FLOAT}
  BY DEF InStat
<1>2. "stat" \in Names
  BY DEF Names
<1>3. /\ Formatted(c) /\ c.last = FIELD_FLOAT
      /\ LineOf(c, "stat") /\ Counted(b, c, "stat", 1)
  BY <1>1, <1>2, AfterField
<1> HIDE DEF c
<1>4. SameCounts(b, c)
  BY <1>1, <1>3, SameCount DEF Formatted, Room
<1>5. QED
  BY <1>3, <1>4 DEF InStat, c

LEMMA FiveFields ==
  ASSUME NEW b, InStat(b)
  PROVE  LET c == StatField(StatField(StatField(StatField(StatField(b)))))
         IN InStat(c) /\ c.last = FIELD_FLOAT /\ SameCounts(b, c)
<1>1. ASSUME NEW c, InStat(c)
      PROVE  InStat(StatField(c)) /\ StatField(c).last = FIELD_FLOAT
             /\ SameCounts(c, StatField(c))
  <2>1. "stat" \in Names
    BY DEF Names
  <2>2. QED
    BY <1>1, <2>1, InStatField DEF StatField
<1> DEFINE b1 == StatField(b)
           b2 == StatField(b1)
           b3 == StatField(b2)
           b4 == StatField(b3)
           b5 == StatField(b4)
<1>2. InStat(b1) /\ SameCounts(b, b1)
  BY <1>1
<1> HIDE DEF b1
<1>3. InStat(b2) /\ SameCounts(b1, b2)
  BY <1>1, <1>2
<1> HIDE DEF b2
<1>4. InStat(b3) /\ SameCounts(b2, b3)
  BY <1>1, <1>3
<1> HIDE DEF b3
<1>5. InStat(b4) /\ SameCounts(b3, b4)
  BY <1>1, <1>4
<1> HIDE DEF b4
<1>6. InStat(b5) /\ b5.last = FIELD_FLOAT /\ SameCounts(b4, b5)
  BY <1>1, <1>5
<1> HIDE DEF b5
<1>7. SameCounts(b, b5)
  BY <1>2, <1>3, <1>4, <1>5, <1>6 DEF SameCounts
<1>8. QED
  BY <1>6, <1>7 DEF b1, b2, b3, b4, b5

(* After the statistics of the first k meters.                             *)
StatBefore(k) == \E j \in 1 .. k : HasStat(MeterList[j])

StatDone(b, c, k) ==
  /\ IF StatBefore(k) THEN InStat(c) /\ c.last = FIELD_FLOAT ELSE c = b
  /\ SameCounts(b, c)

LEMMA StatMeterDone ==
  ASSUME NEW needed \in Nat, needed >= InitialSize, NEW b, TextDone(b),
         NEW k \in 1 .. Len(MeterList), NEW c, StatDone(b, c, k - 1)
  PROVE  StatDone(b, AppendStat(needed, c, MeterList, k), k)
<1> DEFINE next == AppendStat(needed, c, MeterList, k)
           line == IF StatBefore(k - 1) THEN c
                   ELSE FormatLine(BeginLine(needed, c), Arg(MEAS, "stat"))
<1>1. Len(MeterList) \in Nat
  BY MqttAssumption
<1>2. StatBefore(k) <=> StatBefore(k - 1) \/ HasStat(MeterList[k])
  <2>1. /\ \A i \in 1 .. k : i \in 1 .. k - 1 \/ i = k
        /\ k \in 1 .. k /\ \A i \in 1 .. k - 1 : i \in 1 .. k
    BY <1>1
  <2>2. QED
    BY <2>1 DEF StatBefore
<1>3. next = IF HasStat(MeterList[k])
               THEN StatField(StatField(StatField(StatField(StatField(line))))) ELSE c
  BY DEF AppendStat, StatBefore
<1>4. InStat(line) /\ SameCounts(b, line)
  <2>1. CASE StatBefore(k - 1)
    BY <2>1 DEF StatDone
  <2>2. CASE ~StatBefore(k - 1)
    <3> DEFINE begun == BeginLine(needed, c)
               meas == FormatLine(begun, Arg(MEAS, "stat"))
    <3>1. c = b
      BY <2>2 DEF StatDone
    <3>2. Formatted(begun) /\ begun.last \in {0, TIMESTAMP} /\ begun.text = b.text
      BY <3>1, Begun
    <3> HIDE DEF begun
    <3>3. "stat" \in Names
      BY DEF Names
    <3>4. /\ Formatted(meas) /\ meas.last = MEAS
          /\ LineOf(meas, "stat") /\ Counted(begun, meas, "stat", 0)
      BY <3>2, <3>3, AfterMeas
    <3> HIDE DEF meas
    <3>5. SameCounts(begun, meas)
      BY <3>2, <3>4, SameCount DEF Formatted, Room
    <3>6. InStat(meas) /\ SameCounts(b, meas)
      BY <3>2, <3>4, <3>5 DEF InStat, SameCounts, Count
    <3>7. QED
      BY <2>2, <3>6 DEF begun, meas
  <2>3. QED
    BY <2>1, <2>2
<1> HIDE DEF line
<1>5. CASE HasStat(MeterList[k])
  <2>1. InStat(next) /\ next.last = FIELD_FLOAT /\ SameCounts(line, next)
    BY <1>3, <1>4, <1>5, FiveFields
  <2> HIDE DEF next
  <2>2. SameCounts(b, next)
    BY <1>4, <2>1 DEF SameCounts
  <2>3. QED
    BY <1>2, <1>5, <2>1, <2>2 DEF StatDone, next
<1>6. CASE ~HasStat(MeterList[k])
  <2>1. next = c /\ (StatBefore(k) <=> StatBefore(k - 1))
    BY <1>2, <1>3, <1>6
  <2>2. QED
    BY <2>1 DEF StatDone
<1>7. QED
  BY <1>5, <1>6

LEMMA StatLoop ==
  ASSUME NEW needed \in Nat, needed >= InitialSize, NEW b, TextDone(b)
  PROVE  LET c == GrafanaAppendStat(needed, b, MeterList)
         IN TextDone(c) /\ SameCounts(b, c)
<1> DEFINE n == Len(MeterList)
           Call(c, k) == AppendStat(needed, c, MeterList, k)
           inv == [k \in 0 .. n |-> {c \in Buffers : StatDone(b, c, k)}]
           g == [p \in Buffers \X (1 .. n) |-> Call(p[1], p[2])]
           after == CHOOSE h : h = [i \in 0 .. n |-> IF i = 0 THEN b ELSE Call(h[i - 1], i)]
<1>1. n \in Nat /\ DOMAIN MeterList = 1 .. n
  BY MqttAssumption
<1>2. ASSUME NEW k \in 1 .. n, NEW c \in inv[k - 1]
      PROVE  c \in Buffers /\ Call(c, k) \in inv[k]
  <2>1. k \in 0 .. n /\ k - 1 \in 0 .. n
    BY <1>1
  <2>2. c \in Buffers /\ StatDone(b, c, k - 1)
    BY <2>1
  <2>3. StatDone(b, Call(c, k), k)
    BY <2>2, StatMeterDone
  <2>4. Call(c, k) \in Buffers
    BY <2>3 DEF StatDone, InStat, Formatted, Room, TextDone
  <2>5. QED
    BY <2>1, <2>2, <2>3, <2>4
<1>3. b \in inv[0]
  <2>1. 0 \in 0 .. n /\ \A j \in 1 .. 0 : FALSE
    BY <1>1
  <2>2. StatDone(b, b, 0)
    BY <2>1 DEF StatDone, StatBefore, SameCounts
  <2>3. QED
    BY <2>1, <2>2 DEF TextDone
<1> HIDE DEF n, inv
<1>4. \A k \in 1 .. n : \A c \in inv[k - 1] : g[<<c, k>>] = Call(c, k)
  BY <1>2
<1> HIDE DEF g
<1>5. LoopCalls(g, inv, n)
  BY <1>2, <1>4 DEF LoopCalls
<1>6. PICK f : f[0] = b /\ LoopRun(f, g, inv, n)
  BY <1>1, <1>3, <1>5, LoopRuns
<1>7. f = [i \in 0 .. n |-> IF i = 0 THEN b ELSE Call(f[i - 1], i)]
  <2>1. \A i \in 1 .. n : f[i] = Call(f[i - 1], i)
    BY <1>4, <1>6 DEF LoopRun
  <2>2. \A i \in 0 .. n : f[i] = IF i = 0 THEN b ELSE Call(f[i - 1], i)
    BY <1>1, <1>6, <2>1
  <2>3. QED
    BY <1>6, <2>2 DEF LoopRun
<1>8. after = [i \in 0 .. n |-> IF i = 0 THEN b ELSE Call(after[i - 1], i)]
  BY <1>7
<1>9. GrafanaAppendStat(needed, b, MeterList) =
        IF \E k \in DOMAIN MeterList : HasStat(MeterList[k])
          THEN FormatLine(FormatLine(after[n], Arg(FIELD_FLOAT, "total")),
                          Arg(TIMESTAMP, "stat"))
          ELSE after[n]
  BY DEF GrafanaAppendStat, Loop, n
<1> HIDE DEF after
<1>10. after[n] \in inv[n]
  <2>1. after[0] = b
    BY <1>1, <1>8
  <2>2. \A k \in 1 .. n : after[k] = Call(after[k - 1], k)
    BY <1>1, <1>8
  <2> HIDE DEF Call
  <2>3. QED
    BY <1>1, <1>3, <1>4, <1>5, <2>1, <2>2, LoopEnds
<1>11. StatDone(b, after[n], n)
  BY <1>1, <1>10 DEF inv
<1>12. CASE StatBefore(n)
  <2> DEFINE total == FormatLine(after[n], Arg(FIELD_FLOAT, "total"))
             end == FormatLine(total, Arg(TIMESTAMP, "stat"))
  <2>1. "stat" \in Names /\ "total" \in Names
    BY DEF Names
  <2>2. InStat(after[n]) /\ SameCounts(b, after[n])
    BY <1>11, <1>12 DEF StatDone
  <2>3. InStat(total) /\ total.last = FIELD_FLOAT /\ SameCounts(after[n], total)
    BY <2>1, <2>2, InStatField
  <2> HIDE DEF total
  <2>4. Formatted(end) /\ end.last = TIMESTAMP /\ Counted(total, end, "stat", 0)
    BY <2>1, <2>3, AfterTimestamp DEF InStat
  <2> HIDE DEF end
  <2>5. SameCounts(total, end)
    BY <2>3, <2>4, SameCount DEF InStat, Formatted, Room
  <2>6. SameCounts(b, end)
    BY <2>2, <2>3, <2>5 DEF SameCounts
  <2>7. TextDone(end)
    BY <2>4 DEF TextDone, Formatted, Room
  <2>8. GrafanaAppendStat(needed, b, MeterList) = end
    BY <1>1, <1>9, <1>12 DEF StatBefore, total, end
  <2>9. QED
    BY <2>6, <2>7, <2>8
<1>13. CASE ~StatBefore(n)
  BY <1>1, <1>9, <1>11, <1>13 DEF StatBefore, StatDone
<1>14. QED
  BY <1>12, <1>13

-----------------------------------------------------------------------------
(* A finished text.                                                        *)
LEMMA DoneIsWellFormed ==
  ASSUME NEW b, TextDone(b)
  PROVE  WellFormed(b.text) /\ (NamesFit => b.inside) /\ b.ok /\ b.size \in Nat
<1>1. CASE b = NoBuffer
  BY <1>1 DEF NoBuffer, WellFormed
<1>2. CASE Formatted(b) /\ b.last = TIMESTAMP
  <2>1. /\ b.text \in Seq(Tokens) /\ b.size \in Nat /\ (NamesFit => b.inside) /\ b.ok
        /\ DOMAIN b.text = 1 .. Len(b.text)
    BY <1>2 DEF Formatted, Room, Buffers
  <2>2. \A i \in DOMAIN b.text : i = Len(b.text) => b.text[i].type = TIMESTAMP
    BY <1>2, <2>1 DEF Formatted
  <2>3. \A i \in DOMAIN b.text :
          Follows(IF i = 1 THEN TIMESTAMP ELSE b.text[i - 1].type, b.text[i], i = 1)
    BY <1>2, <2>1 DEF Formatted, Linked
  <2>4. QED
    BY <2>1, <2>2, <2>3, Zenon DEF WellFormed, Follows
<1>3. QED
  BY <1>1, <1>2 DEF TextDone

CountsOf(b, to, sent) ==
  \A m \in Meters : Cardinality(FieldsIn(b.text, m)) =
                      IF m \in sent THEN Cardinality(OwnFields(to, m)) ELSE 0

LEMMA TextComplete ==
  ASSUME NEW to \in {"influx", "grafana"}, NEW needed \in Nat, needed >= InitialSize,
         NEW sent \in SUBSET Enabled
  PROVE  LET c == AppendMeters(to, needed, MeterList, sent)
         IN TextDone(c) /\ CountsOf(c, to, sent)
<1>1. \A m \in Meters : \E j \in 1 .. Len(MeterList) : MeterList[j] = m
  BY DEF Meters
<1>2. QED
  BY <1>1, MeterLoop DEF MetersDone, CountsOf, Count

-----------------------------------------------------------------------------
(* The steps of main.  Outside the loops that make them the texts stay,    *)
(* and the meters that have been read change in other phases only.         *)
Posts == {"influxpost", "grafanapost", "posting"}

LineKept ==
  /\ UNCHANGED buffers
  /\ \/ pc' = pc
     \/ pc = "grafanapost" /\ pc' = "posting"
     \/ pc \notin Posts /\ pc' \notin Posts \cup {"exit"}
  /\ read' = read \/ (read' \subseteq Enabled /\ pc' \notin Posts \cup {"exit"})

LEMMA LineFrame ==
  ASSUME PNext
  PROVE  \/ InfluxLine \/ InfluxSent \/ GrafanaLine \/ GrafanaNotSent \/ GrafanaSent
         \/ LineKept
<1> USE DEF LineKept, Posts
<1>1. CASE Start
  BY <1>1 DEF Start, FirstConnect, mvars
<1>2. CASE InitialQuery
  BY <1>2, QueriesRead DEF InitialQuery, NewValues
<1>3. CASE FirstPass
  BY <1>3 DEF FirstPass, mvars
<1>4. CASE IdlePass
  BY <1>4 DEF IdlePass, NewValues
<1>5. CASE Round
  BY <1>5, QueriesRead DEF Round, NewValues
<1>6. CASE GrafanaPost \/ GrafanaPosting
  BY <1>6 DEF GrafanaPost, GrafanaPosting, mvars
<1>7. CASE MqttBegin
  BY <1>7 DEF MqttBegin, SendMeterData
<1>8. CASE MqttSending
  BY <1>8 DEF MqttSending, SendStep, MeterSkipped, MeterSent, StatSent, TotalSent
<1>9. CASE InitialSent \/ RoundDone
  BY <1>9 DEF InitialSent, RoundDone, mvars
<1>10. CASE Free
  BY <1>10 DEF Free, MFree
<1>11. CASE Terminate
  BY <1>11 DEF Terminate, mvars
<1>12. CASE GrafanaWorld \/ GrafanaReset
  BY <1>12 DEF GrafanaWorld, GrafanaReset, mvars
<1>13. CASE BrokerWorld \/ BrokerNoticed
  BY <1>13 DEF BrokerWorld, BrokerNoticed, BrokerGoes, BrokerComes, NoticeLost
<1>14. QED
  BY <1>1, <1>2, <1>3, <1>4, <1>5, <1>6, <1>7, <1>8, <1>9, <1>10, <1>11, <1>12, <1>13
     DEF PNext, MainStep, Deliver

LEMMA EmptyBuffer == WellFormed(NoBuffer.text) /\ NoBuffer.inside /\ NoBuffer.size \in Nat
BY NothingYet, DoneIsWellFormed DEF NoBuffer

LEMMA NeededGrows ==
  ASSUME NEW needed \in Nat, needed >= InitialSize, NEW b, b.size \in Nat
  PROVE  Needed(needed, b) \in Nat /\ Needed(needed, b) >= InitialSize
BY FormatAssumption DEF Needed

LEMMA LineStep ==
  ASSUME LineInv, [PNext]_vars
  PROVE  LineInv'
<1>1. /\ pc # "exit"
      /\ WellFormed(iBuf.text) /\ WellFormed(gBuf.text) /\ (NamesFit => iBuf.inside /\ gBuf.inside)
      /\ chosen \subseteq Enabled /\ read \subseteq Enabled
      /\ iNeeded \in Nat /\ gNeeded \in Nat /\ iNeeded >= InitialSize /\ gNeeded >= InitialSize
      /\ iBuf.size \in Nat /\ gBuf.size \in Nat
      /\ pc # "influxpost" => iBuf = NoBuffer
      /\ pc \notin {"grafanapost", "posting"} => gBuf = NoBuffer
      /\ pc = "influxpost" => CountsOf(iBuf, "influx", chosen)
      /\ pc \in {"grafanapost", "posting"} => CountsOf(gBuf, "grafana", read)
  BY DEF LineInv, LinesComplete, CountsOf, OwnFields
<1>2. SUFFICES
      /\ pc' # "exit"
      /\ WellFormed(iBuf'.text) /\ WellFormed(gBuf'.text)
      /\ (NamesFit => iBuf'.inside /\ gBuf'.inside)
      /\ chosen' \subseteq Enabled /\ read' \subseteq Enabled
      /\ iNeeded' \in Nat /\ gNeeded' \in Nat /\ iNeeded' >= InitialSize /\ gNeeded' >= InitialSize
      /\ iBuf'.size \in Nat /\ gBuf'.size \in Nat
      /\ pc' # "influxpost" => iBuf' = NoBuffer
      /\ pc' \notin {"grafanapost", "posting"} => gBuf' = NoBuffer
      /\ pc' = "influxpost" => CountsOf(iBuf', "influx", chosen')
      /\ pc' \in {"grafanapost", "posting"} => CountsOf(gBuf', "grafana", read')
  BY <1>2 DEF LineInv, LinesComplete, CountsOf, OwnFields
<1>3. Formulas \subseteq Enabled /\ Polled \subseteq Enabled
  BY DEF Formulas, Polled
<1>4. CASE InfluxLine
  <2>1. PICK c \in SUBSET (read \cup Formulas) :
          chosen' = c /\ iBuf' = InfluxText(iNeeded, MeterList, c)
    BY <1>4 DEF InfluxLine
  <2>2. c \in SUBSET Enabled /\ iBuf' = AppendMeters("influx", iNeeded, MeterList, c)
    BY <1>1, <1>3, <2>1 DEF InfluxText
  <2>3. TextDone(iBuf') /\ CountsOf(iBuf', "influx", c)
    BY <1>1, <2>2, TextComplete
  <2>4. WellFormed(iBuf'.text) /\ (NamesFit => iBuf'.inside) /\ iBuf'.ok /\ iBuf'.size \in Nat
    BY <2>3, DoneIsWellFormed
  <2>5. /\ pc = "influx" /\ pc' = "influxpost" /\ read' = read
        /\ iNeeded' = iNeeded /\ gBuf' = gBuf /\ gNeeded' = gNeeded
    BY <1>4, <2>4 DEF InfluxLine, mvars
  <2>6. QED
    BY <1>1, <2>1, <2>2, <2>3, <2>4, <2>5
<1>5. CASE InfluxSent
  <2>1. /\ pc = "influxpost" /\ pc' = "grafana" /\ read' = read /\ chosen' = {}
        /\ iBuf' = NoBuffer /\ iNeeded' = Needed(iNeeded, iBuf)
        /\ gBuf' = gBuf /\ gNeeded' = gNeeded
    BY <1>5 DEF InfluxSent, mvars
  <2>2. QED
    BY <1>1, <2>1, EmptyBuffer, NeededGrows
<1>6. CASE GrafanaLine
  <2> DEFINE lines == AppendMeters("grafana", gNeeded, MeterList, read)
  <2>1. /\ pc = "grafana" /\ read' = read /\ chosen' = chosen
        /\ iBuf' = iBuf /\ iNeeded' = iNeeded /\ gNeeded' = gNeeded
        /\ gBuf' = GrafanaAppendStat(gNeeded, lines, MeterList)
        /\ pc' = IF gBuf'.ok THEN "grafanapost" ELSE "exit"
    BY <1>6 DEF GrafanaLine, GrafanaText, mvars
  <2>2. TextDone(lines) /\ CountsOf(lines, "grafana", read)
    BY <1>1, TextComplete
  <2> HIDE DEF lines
  <2>3. TextDone(gBuf') /\ SameCounts(lines, gBuf')
    BY <1>1, <2>1, <2>2, StatLoop
  <2>4. CountsOf(gBuf', "grafana", read)
    BY <2>2, <2>3 DEF CountsOf, SameCounts, Count
  <2>5. WellFormed(gBuf'.text) /\ (NamesFit => gBuf'.inside) /\ gBuf'.ok /\ gBuf'.size \in Nat
    BY <2>3, DoneIsWellFormed
  <2>6. QED
    BY <1>1, <2>1, <2>4, <2>5
<1>7. CASE GrafanaNotSent \/ GrafanaSent
  <2>1. /\ pc \in {"grafanapost", "posting"} /\ pc' = "mqtt" /\ read' = read
        /\ chosen' = chosen /\ iBuf' = iBuf /\ iNeeded' = iNeeded
        /\ gBuf' = NoBuffer /\ gNeeded' = Needed(gNeeded, gBuf)
    BY <1>7 DEF GrafanaNotSent, GrafanaSent, GrafanaPosted, FreeGrafanaBuffer, mvars
  <2>2. QED
    BY <1>1, <2>1, EmptyBuffer, NeededGrows
<1>8. CASE LineKept
  <2>1. /\ iBuf' = iBuf /\ iNeeded' = iNeeded /\ gBuf' = gBuf /\ gNeeded' = gNeeded
        /\ chosen' = chosen
    BY <1>8 DEF LineKept, buffers
  <2>2. \/ pc' = pc
        \/ pc = "grafanapost" /\ pc' = "posting"
        \/ pc \notin Posts /\ pc' \notin Posts \cup {"exit"}
    BY <1>8 DEF LineKept
  <2>3. read' = read \/ (read' \subseteq Enabled /\ pc' \notin Posts \cup {"exit"})
    BY <1>3, <1>8 DEF LineKept
  <2>4. QED
    BY <1>1, <2>1, <2>2, <2>3 DEF Posts
<1>9. CASE UNCHANGED vars
  <2>1. /\ iBuf' = iBuf /\ iNeeded' = iNeeded /\ gBuf' = gBuf /\ gNeeded' = gNeeded
        /\ chosen' = chosen /\ pc' = pc /\ read' = read
    BY <1>9 DEF vars, buffers, mvars
  <2>2. QED
    BY <1>1, <2>1
<1>10. QED
  BY <1>4, <1>5, <1>6, <1>7, <1>8, <1>9, LineFrame

(* Every line for influx and for Grafana follows the line protocol and has *)
(* all fields of all meters that are sent, those of formulas only like the *)
(* others, for any meters and fields, any length of names and any first    *)
(* size of a buffer; it stays in its buffer if one name fits into the      *)
(* first one; no line ends the program.                                    *)
THEOREM LinesAreComplete == PSpec => []LinesComplete
<1>1. PInit => LineInv
  <2>1. ASSUME PInit
        PROVE  LineInv
    <3>1. /\ pc = "start" /\ iBuf = NoBuffer /\ gBuf = NoBuffer
          /\ iNeeded = InitialSize /\ gNeeded = InitialSize
          /\ chosen = {} /\ read = {}
      BY <2>1 DEF PInit, MInit
    <3>2. InitialSize \in Nat
      BY FormatAssumption
    <3>3. LinesComplete
      BY <3>1, EmptyBuffer DEF LinesComplete
    <3>4. QED
      BY <3>1, <3>2, <3>3, EmptyBuffer DEF LineInv
  <2>2. QED
    BY <2>1
<1>2. LineInv /\ [PNext]_vars => LineInv'
  BY LineStep
<1>3. LineInv => LinesComplete
  BY DEF LineInv
<1>4. QED
  BY <1>1, <1>2, <1>3, PTL DEF PSpec
=============================================================================
