------------------------------- MODULE Uplink -------------------------------
(***************************************************************************)
(* How readings leave the device: networkTask() of src/main.cpp with the   *)
(* WiFi state machine, the MQTT session and publish_data() of              *)
(* src/connectivity_manager.cpp and the life of the BLE stack, composed    *)
(* with DataLogger, the sensor task and the console.  A pass of the        *)
(* network task is cut where it blocks: after it saw the link, in the NTP  *)
(* wait, between its parts, and around each publication.                   *)
(***************************************************************************)
EXTENDS DataLogger

CONSTANTS
  QueueSize,  \* snapshots g_sensor_queue holds: 16
  Scenarios   \* what there is at the start, and how much of each thing may happen; Init takes one

Scenario == [hasCreds : BOOLEAN, hasCard : BOOLEAN, samples : 0 .. MaxSample,
             far : Nat, outage : Nat, broker : Nat, setup : Nat, console : Nat, flush : Nat, card : Nat,
             write : Nat, reset : Nat]

ASSUME UplinkAssumption == QueueSize \in Nat \ {0} /\ Scenarios \subseteq Scenario

VARIABLES
  netStep,    \* where the network task is in its pass
  wifiState,  \* s_wifi_state
  post,       \* s_post_connect
  timer,      \* the deadline or the back-off of wifiState has passed
  skip,       \* skip_network
  was,        \* wifi_was_connected of loop_connectivity()
  ble,        \* ble_initialized
  mqtt,       \* mqtt.connected()
  server,     \* mqtt.setServer() was called
  cooling,    \* less than 30 s since the last attempt of connect_mqtt()
  creds,      \* credentials are stored
  begun,      \* WiFi.begin() was called with them in this boot
  joining,    \* the console is inside apply_settings_posthook("set_wifi")
  ap,         \* the access point is there
  queue,      \* g_sensor_queue: the snapshots, by sample
  current,    \* the snapshot of this pass
  replay,     \* the line taken from the telemetry file, in a sequence of at most one
  sent,       \* history: how often the line of each sample was published
  resets,     \* history: resets so far
  budget       \* what is left of the scenario

wifi    == <<wifiState, post, timer, skip, was, begun>>
session == <<mqtt, server, cooling>>
data    == <<queue, current, replay, sent>>
env     == <<ap, creds, resets, budget>>
vars    == <<logVars, netStep, wifi, session, ble, joining, data, env>>

WifiState == {"init", "connecting", "connected", "backoff"}
NetStep   == {"tick", "joined", "ntp", "link", "mqtt", "publish", "drain", "replay", "send"}

TypeOK ==
  /\ LogTypeOK
  /\ netStep \in NetStep /\ wifiState \in WifiState
  /\ post \in {"idle", "ntp", "cal", "mqtt", "done"}
  /\ \A b \in {timer, skip, was, ble, mqtt, server, cooling, creds, begun, joining, ap} : b \in BOOLEAN
  /\ queue \in Seq(Line) /\ Len(queue) =< QueueSize /\ current \in Line
  /\ replay \in Seq(Line) /\ Len(replay) =< 1
  /\ sent \in [Sample -> Nat] /\ resets \in Nat
  /\ mqtt => server

Init ==
  /\ budget \in Scenarios
  /\ card = budget.hasCard /\ creds = budget.hasCreds /\ ap = FALSE
  /\ LogInit
  /\ netStep = "tick" /\ wifiState = "init" /\ post = "idle" /\ timer = FALSE
  /\ skip = FALSE /\ was = FALSE /\ ble = TRUE
  /\ mqtt = FALSE /\ server = FALSE /\ cooling = FALSE
  /\ begun = FALSE /\ joining = FALSE
  /\ queue = << >> /\ current = 0 /\ replay = << >>
  /\ sent = [s \in Sample |-> 0] /\ resets = 0

Spend(kind) == budget[kind] > 0 /\ budget' = [budget EXCEPT ![kind] = @ - 1]

-----------------------------------------------------------------------------
(* The sensor task: push_sensor_data() and log_sample().                    *)

\* push_sensor_data(): a full queue takes no more.
Push(p) == queue' = IF Len(queue) < QueueSize THEN Append(queue, p) ELSE queue

TakeSample ==
  /\ now < budget.samples
  /\ \/ LogSample(FALSE) /\ UNCHANGED budget
     \/ LogSample(TRUE) /\ Spend("far")
  /\ Push(now')
  /\ UNCHANGED <<netStep, wifi, session, ble, joining, current, replay, sent, ap, creds, resets>>

\* A sample that is not followed any more: its snapshot keeps the network task publishing.
TakeLaterSample ==
  /\ now = budget.samples /\ logStep = "sample" /\ queue = << >> /\ Push(0)
  /\ UNCHANGED <<logVars, netStep, wifi, session, ble, joining, current, replay, sent, env>>

RestOfSample ==
  /\ FlushToSd \/ WriteRow
  /\ UNCHANGED <<netStep, wifi, session, ble, joining, data, env>>

\* The card has a fault.
CardFails ==
  /\ FlushFails \/ RowFails
  /\ Spend("write")
  /\ UNCHANGED <<netStep, wifi, session, ble, joining, data, ap, creds, resets>>

-----------------------------------------------------------------------------
(* WiFi, as the driver and the radio behave.                                *)

\* The driver joins, now or at any later time: auto-reconnect is on.
LinkUp ==
  /\ ~ link /\ ap /\ begun /\ link' = TRUE
  /\ UNCHANGED <<logger, flushing, card, sd, files, dropped, netStep, wifi, session, ble, joining, data, env>>

AccessPointGoes ==
  /\ ap /\ Spend("outage") /\ ap' = FALSE /\ link' = FALSE
  /\ UNCHANGED <<logger, flushing, card, sd, files, dropped, netStep, wifi, session, ble, joining, data, creds, resets>>

AccessPointComes ==
  /\ ~ ap /\ ap' = TRUE
  /\ UNCHANGED <<logVars, netStep, wifi, session, ble, joining, data, creds, resets, budget>>

\* The session ends with the link, or by the broker.
SessionEnds ==
  /\ mqtt /\ mqtt' = FALSE
  /\ IF link THEN Spend("broker") ELSE UNCHANGED budget
  /\ UNCHANGED <<logVars, netStep, wifi, server, cooling, ble, joining, data, ap, creds, resets>>

TimerPasses ==
  /\ ~ timer /\ wifiState \in {"connecting", "backoff"} /\ timer' = TRUE
  /\ UNCHANGED <<logVars, netStep, wifiState, post, skip, was, begun, session, ble, joining, data, env>>

CoolingPasses ==
  /\ cooling /\ cooling' = FALSE
  /\ UNCHANGED <<logVars, netStep, wifi, mqtt, server, ble, joining, data, env>>

-----------------------------------------------------------------------------
(* wifi_state_tick().                                                       *)

Enter(s) == wifiState' = s /\ timer' = FALSE

\* connect_mqtt(): one attempt in 30 s, which fails without a broker to speak to.
ConnectMqtt(known) ==
  IF skip \/ cooling THEN UNCHANGED <<mqtt, cooling, budget>>
  ELSE /\ cooling' = TRUE
       /\ \/ known /\ link /\ mqtt' = TRUE /\ UNCHANGED budget
          \/ (~ known \/ ~ link) /\ mqtt' = FALSE /\ UNCHANGED budget
          \/ known /\ link /\ mqtt' = FALSE /\ Spend("broker")

TickInit ==
  /\ wifiState = "init" /\ netStep' = "link"
  /\ IF creds
     THEN begun' = TRUE /\ Enter("connecting") /\ UNCHANGED skip
     ELSE skip' = TRUE /\ Enter("backoff") /\ UNCHANGED begun
  /\ UNCHANGED <<post, was, session, ble, budget>>

TickConnecting ==
  /\ wifiState = "connecting"
  /\ \/ link /\ netStep' = "joined" /\ UNCHANGED <<wifiState, timer, skip>>
     \/ ~ link /\ timer /\ netStep' = "link" /\ skip' = TRUE /\ Enter("backoff")
     \/ ~ link /\ ~ timer /\ netStep' = "link" /\ UNCHANGED <<wifiState, timer, skip>>
  /\ UNCHANGED <<post, was, begun, session, ble, budget>>

\* deinit_ble_provisioner() takes its time; then the state is what the tick decided before.
TickJoined ==
  /\ netStep = "joined" /\ netStep' = "link"
  /\ ble' = FALSE /\ post' = "ntp" /\ Enter("connected")
  /\ UNCHANGED <<logVars, skip, was, begun, session, joining, data, env>>

\* The steps after the connection, one a pass.  The clock is waited for up to 5 s.
TickConnected ==
  /\ wifiState = "connected"
  /\ \/ post = "ntp" /\ netStep' = "ntp" /\ UNCHANGED <<post, session, budget>>
     \/ post = "cal" /\ netStep' = "link" /\ post' = "mqtt" /\ UNCHANGED <<session, budget>>
     \/ /\ post = "mqtt" /\ netStep' = "link" /\ post' = "done"
        /\ server' = TRUE /\ ConnectMqtt(TRUE)
     \/ post \in {"idle", "done"} /\ netStep' = "link" /\ UNCHANGED <<post, session, budget>>
  /\ UNCHANGED <<wifiState, timer, skip, was, begun, ble>>

\* sync_time() has an answer, or has not.
TickNtp ==
  /\ netStep = "ntp" /\ netStep' = "link"
  /\ post' \in IF skip THEN {"mqtt"} ELSE {"cal", "mqtt"}
  /\ UNCHANGED <<logVars, wifiState, timer, skip, was, begun, session, ble, joining, data, env>>

TickBackoff ==
  /\ wifiState = "backoff" /\ netStep' = "link"
  /\ IF timer THEN skip' = FALSE /\ Enter("init") ELSE UNCHANGED <<wifiState, timer, skip>>
  /\ UNCHANGED <<post, was, begun, session, ble, budget>>

WifiTick ==
  /\ netStep = "tick"
  /\ TickInit \/ TickConnecting \/ TickConnected \/ TickBackoff
  /\ UNCHANGED <<logVars, joining, data, ap, creds, resets>>

-----------------------------------------------------------------------------
(* The rest of loop_connectivity(), and loop_ble_provisioner().             *)

\* A device that was taken offline, was given credentials and joined is online again.
Resumes == skip /\ link /\ wifiState = "connected"

\* Mutant: the loss is noticed in the steady state only.
ReopensSteady == was /\ ~ link /\ wifiState = "connected" /\ post = "done"

\* The link was lost since the last pass: the BLE stack is created again.
Reopens == was /\ ~ link

CheckLink ==
  /\ netStep = "link"
  /\ skip' = (skip /\ ~ Resumes)
  /\ ble' = (ble \/ Reopens) /\ was' = link
  /\ netStep' = IF skip' \/ ~ link THEN "publish" ELSE "mqtt"
  /\ UNCHANGED <<logVars, wifiState, post, timer, begun, session, joining, data, env>>

\* Mutant: only the steps after the connection open a session.
KeepMqttNever ==
  /\ netStep = "mqtt" /\ netStep' = "publish"
  /\ UNCHANGED <<logVars, wifi, session, ble, joining, data, env>>

KeepMqtt ==
  /\ netStep = "mqtt" /\ netStep' = "publish"
  /\ IF mqtt THEN UNCHANGED <<mqtt, cooling, budget>> ELSE ConnectMqtt(server)
  /\ UNCHANGED <<logVars, wifi, server, ble, joining, data, ap, creds, resets>>

\* The end of apply_settings_posthook("set_wifi").
NewCredentials == post' = "idle" /\ Enter("connecting")

\* set_wifi over BLE: stored, and the driver restarted with it.
BleSetWifi ==
  /\ netStep = "publish" /\ ble /\ Spend("setup")
  /\ creds' = TRUE /\ begun' = TRUE /\ link' = FALSE /\ NewCredentials
  /\ UNCHANGED <<logger, flushing, card, sd, files, dropped, netStep, skip, was, session, ble, joining, data, ap, resets>>

\* set_mqtt over BLE: the session is closed and the client given the broker.
BleSetMqtt ==
  /\ netStep = "publish" /\ ble /\ Spend("setup")
  /\ mqtt' = FALSE /\ server' = TRUE
  /\ UNCHANGED <<logVars, netStep, wifi, cooling, ble, joining, data, ap, creds, resets>>

-----------------------------------------------------------------------------
(* A snapshot is published.                                                 *)

\* networkTask() takes at most one a pass, builds the telemetry, and publish_data() returns if
\* the device is offline.
TakeSnapshot ==
  /\ netStep = "publish"
  /\ IF queue = << >>
     THEN netStep' = "tick" /\ UNCHANGED <<queue, current, sd>>
     ELSE /\ queue' = Tail(queue) /\ current' = Head(queue) /\ HasOverflowFile
          /\ netStep' = IF skip THEN "tick" ELSE "drain"
  /\ UNCHANGED <<link, logger, flushing, card, files, dropped, wifi, session, ble, joining, replay, sent, env>>

\* The head of drain_pending_telemetry_overflow().
Drain ==
  /\ netStep = "drain" /\ netStep' = "replay"
  /\ IF sdPresent /\ mqtt THEN DrainTelemetry(replay')
     ELSE replay' = << >> /\ UNCHANGED <<telemetry, reader>>
  /\ UNCHANGED <<link, logger, flushing, card, sd, overflow, dropped, wifi, session, ble, joining, queue, current, sent, env>>

\* mqtt.publish(p): it fails without a session, it may when the link is gone or the broker has a fault; what
\* it takes is counted.
Publish(p) ==
  /\ sent' = IF p \in Sample THEN [sent EXCEPT ![p] = @ + 1] ELSE sent
  /\ UNCHANGED <<budget, sd, telemetry, reader>>
PublishFails(p) ==
  /\ IF link /\ mqtt THEN Spend("broker") ELSE UNCHANGED budget
  /\ SaveTelemetry(p) /\ UNCHANGED sent

\* The line read from the file is published, or put back at its end.
Replay ==
  /\ netStep = "replay" /\ netStep' = "send" /\ replay' = << >>
  /\ IF replay = << >> THEN UNCHANGED <<sent, budget, sd, telemetry, reader>>
     ELSE (mqtt /\ Publish(replay[1])) \/ PublishFails(replay[1])
  /\ UNCHANGED <<link, logger, flushing, card, overflow, dropped, wifi, session, ble, joining, queue, current, ap, creds, resets>>

\* Then the snapshot itself, unless one was published within the second or there is no session.
Send ==
  /\ netStep = "send" /\ netStep' = "tick" /\ current' = 0
  /\ \/ UNCHANGED <<sent, budget, sd, telemetry, reader>>
     \/ mqtt /\ Publish(current)
     \/ mqtt /\ PublishFails(current)
  /\ UNCHANGED <<link, logger, flushing, card, overflow, dropped, wifi, session, ble, joining, queue, replay, ap, creds, resets>>

-----------------------------------------------------------------------------
(* The console, the card and the reset button.                              *)

\* set_wifi: the link goes, and the state machine is turned back 100 ms later.
ConsoleSetWifi ==
  /\ ~ joining /\ joining' = TRUE /\ Spend("console")
  /\ creds' = TRUE /\ link' = FALSE /\ begun' = FALSE
  /\ UNCHANGED <<logger, flushing, card, sd, files, dropped, netStep, wifiState, post, timer, skip, was, session, ble, data, ap, resets>>
ConsoleJoins ==
  /\ joining /\ joining' = FALSE
  /\ begun' = TRUE /\ NewCredentials
  /\ UNCHANGED <<logVars, netStep, skip, was, session, ble, data, env>>

ConsoleBleOn ==
  /\ ~ ble /\ Spend("console") /\ ble' = TRUE
  /\ UNCHANGED <<logVars, netStep, wifi, session, joining, data, ap, creds, resets>>

ConsoleFlushLog ==
  \/ FlushLog /\ Spend("flush")
     /\ UNCHANGED <<netStep, wifi, session, ble, joining, data, ap, creds, resets>>
  \/ PopBatch /\ UNCHANGED <<netStep, wifi, session, ble, joining, data, env>>

MoveCard ==
  /\ \/ CardOut /\ Spend("card")
     \/ CardIn /\ UNCHANGED budget
  /\ UNCHANGED <<netStep, wifi, session, ble, joining, data, ap, creds, resets>>

Reset ==
  /\ Spend("reset") /\ LogReset
  /\ netStep' = "tick" /\ wifiState' = "init" /\ post' = "idle" /\ timer' = FALSE
  /\ skip' = FALSE /\ was' = FALSE /\ begun' = FALSE /\ ble' = TRUE
  /\ mqtt' = FALSE /\ server' = FALSE /\ cooling' = FALSE /\ joining' = FALSE
  /\ queue' = << >> /\ current' = 0 /\ replay' = << >>
  /\ resets' = resets + 1
  /\ UNCHANGED <<sent, ap, creds>>

-----------------------------------------------------------------------------
SensorStep  == TakeSample \/ TakeLaterSample \/ RestOfSample \/ CardFails
NetworkStep == \/ WifiTick \/ TickJoined \/ TickNtp \/ CheckLink \/ KeepMqtt
               \/ TakeSnapshot \/ Drain \/ Replay \/ Send

Next ==
  \/ TakeSample \/ TakeLaterSample \/ RestOfSample \/ CardFails
  \/ WifiTick \/ TickJoined \/ TickNtp \/ CheckLink \/ KeepMqtt
  \/ BleSetWifi \/ BleSetMqtt
  \/ TakeSnapshot \/ Drain \/ Replay \/ Send
  \/ LinkUp \/ AccessPointGoes \/ AccessPointComes \/ SessionEnds \/ TimerPasses \/ CoolingPasses
  \/ ConsoleSetWifi \/ ConsoleJoins \/ ConsoleBleOn \/ ConsoleFlushLog \/ MoveCard \/ Reset

Spec == Init /\ [][Next]_vars

\* The tasks run on, time passes, and the driver joins an access point that stays.
FairSpec ==
  /\ Spec
  /\ WF_vars(SensorStep) /\ WF_vars(NetworkStep)
  /\ WF_vars(TimerPasses) /\ WF_vars(CoolingPasses)
  /\ WF_vars(LinkUp) /\ WF_vars(SessionEnds /\ ~ link) /\ WF_vars(ConsoleJoins)

-----------------------------------------------------------------------------
(* Properties.                                                              *)

\* Without a reset no reading is published twice, however its publication failed, was saved, put
\* back and read again.
ReplayOnce == resets = 0 => \A s \in Sample : sent[s] =< 1

\* Once the access point and the card stay, every saved line is published or given up: the file
\* is emptied again and again.
TelemetryDrains ==
  <>[](ap /\ creds /\ card /\ sdPresent) => []<>(telemetry = << >>)

\* When the network task has seen the link and the link is lost, the BLE stack comes back, so
\* that the device can be provisioned again, or the link does.
LossReopensBle == (was /\ ~ link) ~> (ble \/ link)
=============================================================================
