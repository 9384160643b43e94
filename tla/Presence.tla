------------------------------ MODULE Presence ------------------------------
(***************************************************************************)
(* Who is online: the MQTT session of each device with its last will and   *)
(* heartbeat (connectivity_manager.cpp), the broker's retained             *)
(* status/{device_key}/online and its check of credentials (mqttauth.go),  *)
(* and devices.is_active with the staleness sweep of the API (status.go).  *)
(* A tick is 15 s, the period of the sweep.                                *)
(***************************************************************************)
EXTENDS Fleet, Integers, Sequences, FiniteSets

CONSTANTS
  StaleAfter,     \* staleOfflineThreshold in ticks: 60 s
  HeartbeatEvery  \* the heartbeat of the firmware in ticks: 45 s

ASSUME PresenceAssumption == StaleAfter \in Nat /\ HeartbeatEvery \in Nat \ {0}

VARIABLES
  conn,      \* the device has a session with the broker
  will,      \* the broker still owes the last will of a session that broke
  beat,      \* ticks since the heartbeat before
  retained,  \* the retained message of the device's topic
  active,    \* devices.is_active
  age,       \* ticks since devices.last_seen_at, Never while that is NULL
  flipped,   \* devices the sweep turned inactive and has not announced
  swept,     \* the sweep of this tick is done
  view,      \* what a dashboard was last told of the device
  untold     \* history: devices whose row changed, the reply of the UPDATE cut, and were not announced since

presenceVars == <<conn, will, beat, retained, active, age, flipped, swept, view, untold>>

Never == -1

PresenceTypeOK ==
  /\ {conn, will, active} \subseteq [Device -> BOOLEAN]
  /\ retained \in [Device -> {"online", "offline", "none"}]
  /\ beat \in [Device -> 0 .. HeartbeatEvery] /\ age \in [Device -> Never .. StaleAfter + 1]
  /\ flipped \cup untold \subseteq Device /\ swept \in BOOLEAN
  /\ view \in [Device -> {"online", "offline", "unknown"}]

All(value) == [d \in Device |-> value]

\* The devices are new, or connected and known to be: a new row of devices is active.
PresenceInit(new) ==
  /\ will = All(FALSE) /\ beat = All(0) /\ active = All(TRUE)
  /\ flipped = {} /\ swept = TRUE /\ untold = {}
  /\ IF new THEN conn = All(FALSE) /\ retained = All("none") /\ age = All(Never) /\ view = All("unknown")
            ELSE conn = All(TRUE) /\ retained = All("online") /\ age = All(0) /\ view = All("online")

Status(d, online) == [kind |-> "status", device |-> d, online |-> online]

-----------------------------------------------------------------------------
(* The device and the broker.                                               *)

\* Mosquitto asks the API, which knows the credentials of active devices only.
MqttAuth(d, apiUp) == apiUp /\ active[d]

\* connect_mqtt() and the status it publishes.  A new session takes the place of one
\* that broke, whose will the broker sends first.
ConnectMessages(d) ==
  IF will[d] THEN <<Status(d, FALSE), Status(d, TRUE)>> ELSE <<Status(d, TRUE)>>

ConnectMqtt(d) ==
  /\ ~ conn[d]
  /\ conn' = [conn EXCEPT ![d] = TRUE] /\ will' = [will EXCEPT ![d] = FALSE]
  /\ retained' = [retained EXCEPT ![d] = "online"]
  /\ UNCHANGED <<beat, active, age, flipped, swept, view, untold>>

\* The session breaks: a reset, no network, no power.
Drop(d) ==
  /\ conn[d] /\ conn' = [conn EXCEPT ![d] = FALSE] /\ will' = [will EXCEPT ![d] = TRUE]
  /\ UNCHANGED <<beat, retained, active, age, flipped, swept, view, untold>>

\* After the keep-alive time of the session.
WillFires(d) ==
  /\ will[d] /\ will' = [will EXCEPT ![d] = FALSE]
  /\ retained' = [retained EXCEPT ![d] = "offline"]
  /\ UNCHANGED <<conn, beat, active, age, flipped, swept, view, untold>>

\* mqtt.disconnect() after set_mqtt: a session that ends in order has no last will.
Leave(d) ==
  /\ conn[d] /\ conn' = [conn EXCEPT ![d] = FALSE]
  /\ UNCHANGED <<will, beat, retained, active, age, flipped, swept, view, untold>>

\* The heartbeat of publish_data().
HeartbeatDue(d) == conn[d] /\ beat[d] = HeartbeatEvery

Heartbeat(d) ==
  /\ HeartbeatDue(d) /\ beat' = [beat EXCEPT ![d] = 0]
  /\ retained' = [retained EXCEPT ![d] = "online"]
  /\ UNCHANGED <<conn, will, active, age, flipped, swept, view, untold>>

PassTick ==
  /\ beat' = [d \in Device |-> IF beat[d] < HeartbeatEvery THEN beat[d] + 1 ELSE beat[d]]
  /\ age'  = [d \in Device |-> IF age[d] \in 0 .. StaleAfter THEN age[d] + 1 ELSE age[d]]
  /\ swept' = FALSE
  /\ UNCHANGED <<conn, will, retained, active, flipped, view, untold>>

-----------------------------------------------------------------------------
(* The API.                                                                 *)

\* applyStatus(): the UPDATE.
ApplyStatus(d, online) ==
  /\ active' = [active EXCEPT ![d] = online]
  /\ age' = IF online THEN [age EXCEPT ![d] = 0] ELSE age
  /\ UNCHANGED <<conn, will, beat, retained, flipped, swept, view, untold>>

\* It has committed and its reply is lost: applyStatus() returns without a broadcast.
StatusUnheard(d, online) ==
  /\ active' = [active EXCEPT ![d] = online]
  /\ age' = IF online THEN [age EXCEPT ![d] = 0] ELSE age
  /\ untold' = untold \cup {d}
  /\ UNCHANGED <<conn, will, beat, retained, flipped, swept, view>>

\* broadcast() to a dashboard that is subscribed to the device.
Broadcast(d, online) ==
  /\ view' = [view EXCEPT ![d] = IF online THEN "online" ELSE "offline"]
  /\ untold' = untold \ {d}
  /\ UNCHANGED <<conn, will, beat, retained, active, age, swept>>

Stale == {d \in Device : active[d] /\ age[d] # Never /\ age[d] > StaleAfter}

\* Mutant: the sweep does not announce what it changed.
MarkStaleSilently ==
  /\ ~ swept /\ flipped = {} /\ swept' = TRUE /\ flipped' = {}
  /\ active' = [d \in Device |-> active[d] /\ d \notin Stale]
  /\ UNCHANGED <<conn, will, beat, retained, age, view, untold>>

\* markStaleOffline(): UPDATE ... RETURNING, then one broadcast per row.
MarkStaleOffline ==
  /\ ~ swept /\ flipped = {} /\ swept' = TRUE /\ flipped' = Stale
  /\ active' = [d \in Device |-> active[d] /\ d \notin Stale]
  /\ UNCHANGED <<conn, will, beat, retained, age, view, untold>>

AnnounceOffline ==
  \E d \in flipped : flipped' = flipped \ {d} /\ Broadcast(d, FALSE)

\* The UPDATE fails, or its rows are cut after it has committed: rows.Err() is ignored.
SweepFails ==
  /\ \/ ~ swept /\ flipped = {} /\ swept' = TRUE /\ UNCHANGED <<flipped, untold>>
     \/ flipped # {} /\ flipped' = {} /\ untold' = untold \cup flipped /\ UNCHANGED swept
  /\ UNCHANGED <<conn, will, beat, retained, active, age, view>>

\* The process ends: dashboards lose their sockets, and a sweep its announcements.
PresenceLost ==
  /\ flipped' = {} /\ swept' = TRUE /\ view' = All("unknown") /\ untold' = {}
  /\ UNCHANGED <<conn, will, beat, retained, active, age>>
=============================================================================
