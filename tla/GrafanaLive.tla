----------------------------- MODULE GrafanaLive -----------------------------
(***************************************************************************)
(* The client of Grafana Live in influxdb-post.c: post_http_send_line      *)
(* over a websocket, connected on first use, with the fallback to HTTP,    *)
(* and the immediate second send of influxdb_post_http_line.  The client   *)
(* has no retry queue.  A websocket whose peer has gone takes what is sent *)
(* ("half") until the loss of the link is noticed ("reset").               *)
(***************************************************************************)
EXTENDS Naturals

VARIABLES
  gPc,           (* "idle", or the call "send" or "resend" of post_http_line *)
  gHost,         (* protocol of c->host: "ws" or "http", with or without TLS *)
  wsSupported,   (* the server, and libcurl, can do websockets             *)
  gUrl,          (* protocol of c->url, "none" if it is not set            *)
  gHandle,       (* c->ch: none, or what it is connected to                *)
  gFirst,        (* firstConnectionAttempt                                 *)
  isWebsocket,
  gUp,           (* the server answers                                     *)
  delivered,     (* history: the server got the line posted last           *)
  everWs         (* history: a websocket has been connected                *)

gvars == <<gPc, gHost, wsSupported, gUrl, gHandle, gFirst, isWebsocket, gUp, delivered, everWs>>

GInit ==
  /\ gPc = "idle" /\ gHost \in {"ws", "http"}
  /\ wsSupported \in BOOLEAN
  /\ gUrl = "none" /\ gHandle = "none"
  /\ gFirst = TRUE /\ isWebsocket = FALSE
  /\ gUp \in BOOLEAN
  /\ delivered = FALSE /\ everWs = FALSE

-----------------------------------------------------------------------------
(* influxdb_post_http_line ends: with a result of -1 its line is sent once *)
(* more, any other failure loses it.                                       *)

(* Mutant: every failure is final.                                         *)
ReturnedNoRetry(res) ==
  /\ gPc' = "idle"
  /\ delivered' = (res = "delivered")

Returned(res) ==
  /\ gPc' = IF res = "-1" /\ gPc = "send" THEN "resend" ELSE "idle"
  /\ delivered' = (res = "delivered")

Sending == gPc \in {"send", "resend"}

(* A POST over HTTP: answered by 2xx; without an answer the handle and the *)
(* url are freed; a status of 500 and more, or 4xx, leaves them.           *)
Post ==
  /\ Sending /\ gHost = "http"
  /\ \/ gUp /\ gHandle' = "http" /\ gUrl' = gHost /\ Returned("delivered")
     \/ ~gUp /\ gHandle' = "none" /\ gUrl' = "none" /\ Returned("error")
     \/ ~gUp /\ gHandle' = "http" /\ gUrl' = gHost /\ Returned("error")
  /\ UNCHANGED <<wsSupported, gHost, gFirst, isWebsocket, gUp, everWs>>

CanConnect == gUp /\ wsSupported

ToConnect == Sending /\ gHandle = "none" /\ gHost = "ws"

(* Without a handle and with a host for websockets it is connected; the    *)
(* line is sent next.                                                      *)
Connected ==
  /\ ToConnect /\ CanConnect
  /\ isWebsocket' = TRUE /\ gFirst' = FALSE
  /\ gHandle' = "open" /\ gUrl' = "ws"
  /\ everWs' = TRUE
  /\ UNCHANGED <<wsSupported, gPc, gHost, gUp, delivered>>

(* Mutant: the fallback marks the client as one with a websocket.          *)
FallbackWebsocket ==
  /\ ToConnect /\ ~CanConnect /\ gFirst
  /\ gFirst' = FALSE
  /\ gHost' = "http"
  /\ isWebsocket' = TRUE
  /\ UNCHANGED <<wsSupported, gPc, gUrl, gHandle, gUp, delivered, everWs>>

(* The first attempt has failed: the protocol of the host is changed and   *)
(* the function calls itself.                                              *)
Fallback ==
  /\ ToConnect /\ ~CanConnect /\ gFirst
  /\ gFirst' = FALSE
  /\ gHost' = "http"
  /\ UNCHANGED <<wsSupported, gPc, gUrl, gHandle, isWebsocket, gUp, delivered, everWs>>

(* A later attempt has failed: the handle stays, not connected.            *)
ConnectFails ==
  /\ ToConnect /\ ~CanConnect /\ ~gFirst
  /\ isWebsocket' = TRUE
  /\ gHandle' = "unconnected" /\ gUrl' = "ws"
  /\ Returned("error")
  /\ UNCHANGED <<wsSupported, gHost, gFirst, gUp, everWs>>

(* curl_ws_send succeeds: the line has arrived, unless the peer has gone.  *)
WsSend ==
  /\ Sending /\ isWebsocket /\ gHandle \in {"open", "half"}
  /\ Returned(IF gHandle = "open" THEN "delivered" ELSE "lost")
  /\ UNCHANGED <<wsSupported, gHost, gUrl, gHandle, gFirst, isWebsocket, gUp, everWs>>

(* Mutant: the dead handle is kept.                                        *)
WsSendFailsKeepsHandle ==
  /\ Sending /\ isWebsocket /\ gHandle \in {"reset", "unconnected"}
  /\ Returned("-1")
  /\ UNCHANGED <<wsSupported, gHost, gUrl, gHandle, gFirst, isWebsocket, gUp, everWs>>

(* curl_ws_send fails: handle and url are freed for a new connection.      *)
WsSendFails ==
  /\ Sending /\ isWebsocket /\ gHandle \in {"reset", "unconnected"}
  /\ gHandle' = "none" /\ gUrl' = "none"
  /\ Returned("-1")
  /\ UNCHANGED <<wsSupported, gHost, gFirst, isWebsocket, gUp, everWs>>

PostStep ==
  \/ Post
  \/ Connected \/ Fallback \/ ConnectFails
  \/ WsSend \/ WsSendFails

-----------------------------------------------------------------------------
(* The caller's buffer is full: influxdb_post_http_line.                   *)
PostLine ==
  /\ gPc = "idle"
  /\ gPc' = "send"
  /\ delivered' = FALSE
  /\ UNCHANGED <<wsSupported, gHost, gUrl, gHandle, gFirst, isWebsocket, gUp, everWs>>

(* influxdb_post_free.                                                     *)
GFree ==
  /\ gHandle' = "none" /\ gUrl' = "none"
  /\ UNCHANGED <<wsSupported, gPc, gHost, gFirst, isWebsocket, gUp, delivered, everWs>>

(* The server or the network goes, with or without a sign that reaches the *)
(* client, and comes back.                                                 *)
ServerGoes ==
  /\ gUp' = FALSE
  /\ gHandle' \in IF gHandle \in {"open", "half"} THEN {"half", "reset"} ELSE {gHandle}
  /\ UNCHANGED <<wsSupported, gPc, gHost, gUrl, gFirst, isWebsocket, delivered, everWs>>

ServerComes ==
  /\ gUp' = TRUE
  /\ UNCHANGED <<wsSupported, gPc, gHost, gUrl, gHandle, gFirst, isWebsocket, delivered, everWs>>

(* The dead link is noticed: a reset, or a timeout of the kernel, between  *)
(* or during the sends and the receives of periodicProc.                   *)
LinkReset ==
  /\ gHandle = "half"
  /\ gHandle' = "reset"
  /\ UNCHANGED <<wsSupported, gPc, gHost, gUrl, gFirst, isWebsocket, gUp, delivered, everWs>>

-----------------------------------------------------------------------------
GTypeOK ==
  /\ gPc \in {"idle", "send", "resend"}
  /\ gHost \in {"ws", "http"}
  /\ gUrl \in {"none", "ws", "http"}
  /\ gHandle \in {"none", "http", "unconnected", "open", "half", "reset"}
  /\ {wsSupported, gFirst, isWebsocket, gUp, delivered, everWs} \subseteq BOOLEAN

(* The handle, the url, the host and the flag isWebsocket speak of the     *)
(* same protocol after every sequence of connects, fallbacks and errors:   *)
(* no websocket call is made on a handle of an HTTP transfer.              *)
ConnectionConsistent ==
  /\ gUrl = "none" <=> gHandle = "none"
  /\ gUrl # "none" => gUrl = gHost
  /\ isWebsocket => gHost = "ws" /\ gHandle # "http"
  /\ gHandle \in {"open", "half", "reset", "unconnected"} => isWebsocket

(* A client that has once been connected by websocket never falls back.    *)
NoLateFallback == [][everWs => gHost' = gHost]_gvars
=============================================================================
