------------------------------ MODULE Backend -------------------------------
(***************************************************************************)
(* The backend: devices that publish through the broker, the ingest worker *)
(* (Ingest), and the API server, whose MQTT client gives one message after *)
(* another to the alert engine (Alerts) and to the status manager          *)
(* (Presence), as cmd/api/main.go wires them.                              *)
(***************************************************************************)
EXTENDS Ingest, Alerts, Presence, SequencesExt

CONSTANT Scenarios  \* how much of each thing may happen; Init takes one

Scenario == [data : SUBSET Reading, frames : Nat, live : Nat, outage : Nat, signal : Nat, worker : Nat, pause : Nat,
             db : Nat, api : Nat, link : Nat, edit : Nat, drop : Nat, leave : Nat, auth : BOOLEAN, clock : BOOLEAN, new : BOOLEAN]

ASSUME BackendAssumption == Scenarios \subseteq Scenario

VARIABLES
  published,  \* telemetry messages so far
  apiUp,      \* the API server runs
  linked,     \* and its MQTT client is connected and subscribed
  inbox,      \* messages the broker has sent to it
  router,     \* the client's goroutine: "idle", "evaluate" or "announce"
  subject,    \* the message it is at
  budget      \* what is left of the scenario

apiVars == <<apiUp, linked, inbox, router, subject>>
vars    == <<ingestVars, alertsVars, presenceVars, published, apiVars, budget>>

NoMessage == [kind |-> "none"]

RouterIdle == router' = "idle" /\ subject' = NoMessage

Live(m) == [kind |-> "live", device |-> m.device, data |-> m.data]

LiveMessage   == [kind : {"live"}, device : Device, data : Reading]
StatusMessage == [kind : {"status"}, device : Device, online : BOOLEAN]

ServerTypeOK ==
  /\ published \in 0 .. MaxFrame /\ apiUp \in BOOLEAN /\ linked \in BOOLEAN
  /\ linked => apiUp
  /\ inbox \in Seq(LiveMessage \cup StatusMessage) /\ router \in {"idle", "evaluate", "announce"}
  /\ router = "evaluate" => subject \in LiveMessage
  /\ router = "announce" => subject \in StatusMessage
  /\ budget \in Scenario

TypeOK == IngestTypeOK /\ AlertsTypeOK /\ PresenceTypeOK /\ ServerTypeOK

Init ==
  /\ budget \in Scenarios
  /\ IngestInit /\ AlertsInit /\ PresenceInit(budget.new)
  /\ published = 0 /\ apiUp = TRUE /\ linked = TRUE
  /\ inbox = << >> /\ router = "idle" /\ subject = NoMessage

Spend(kind) == budget[kind] > 0 /\ budget' = [budget EXCEPT ![kind] = @ - 1]

\* A statement of Postgres or ClickHouse works, or fails as often as the scenario says.
Works(kind, ok) == IF ok THEN UNCHANGED budget ELSE Spend(kind)

ToApi(messages) == inbox' = IF linked THEN inbox \o messages ELSE inbox

-----------------------------------------------------------------------------
(* The devices.                                                             *)

PublishTelemetry ==
  /\ published < MaxFrame /\ Spend("frames") /\ published' = published + 1
  /\ \E d \in Device, data \in budget.data :
       conn[d] /\ ToWorker([id |-> published + 1, device |-> d, data |-> data])
  /\ UNCHANGED <<process, worker, maint, stored, refused, alertsVars, presenceVars, apiVars>>

\* A message of live/# from an ingest worker that is not followed.
PublishLive ==
  /\ Spend("live")
  /\ \E d \in Device, data \in budget.data : ToApi(<<Live([device |-> d, data |-> data])>>)
  /\ UNCHANGED <<ingestVars, alertsVars, presenceVars, published, apiUp, linked, router, subject>>

\* budget.auth: the broker asks the API for the device's credentials, as the production
\* configuration says; the one for tests takes everybody.
DeviceConnects ==
  /\ \E d \in Device :
       /\ budget.auth => MqttAuth(d, apiUp)
       /\ ConnectMqtt(d) /\ ToApi(ConnectMessages(d))
  /\ UNCHANGED <<ingestVars, alertsVars, published, apiUp, linked, router, subject, budget>>

SessionBreaks ==
  /\ Spend("drop") /\ \E d \in Device : Drop(d)
  /\ UNCHANGED <<ingestVars, alertsVars, published, apiVars>>

SessionEnds ==
  /\ Spend("leave") /\ \E d \in Device : Leave(d)
  /\ UNCHANGED <<ingestVars, alertsVars, published, apiVars>>

LastWill ==
  /\ \E d \in Device : WillFires(d) /\ ToApi(<<Status(d, FALSE)>>)
  /\ UNCHANGED <<ingestVars, alertsVars, published, apiUp, linked, router, subject, budget>>

Beat ==
  /\ budget.clock
  /\ \E d \in Device : Heartbeat(d) /\ ToApi(<<Status(d, TRUE)>>)
  /\ UNCHANGED <<ingestVars, alertsVars, published, apiUp, linked, router, subject, budget>>

\* Devices and server do within 15 s what is at hand: heartbeats are sent, messages
\* are handled, a sweep comes round and is announced.
Tick ==
  /\ budget.clock
  /\ \A d \in Device : ~ HeartbeatDue(d)
  /\ inbox = << >> /\ router = "idle" /\ flipped = {} /\ (apiUp => swept)
  /\ PassTick
  /\ UNCHANGED <<ingestVars, alertsVars, published, apiVars, budget>>

-----------------------------------------------------------------------------
(* The ingest worker.                                                       *)

Handler ==
  /\ \/ (Handle \/ WriteRow) /\ UNCHANGED inbox
     \/ Republish /\ ToApi(<<Live(msg)>>)
  /\ UNCHANGED <<alertsVars, presenceVars, published, apiUp, linked, router, subject, budget>>

FlushStep(f) ==
  /\ \/ (Drain(f) \/ EndBatch(f)) /\ UNCHANGED budget
     \/ \E ok \in BOOLEAN : InsertRow(f, ok) /\ Works("outage", ok)
  /\ UNCHANGED <<worker, wire, step, msg, seen, maint, alertsVars, presenceVars, published, apiVars>>

WorkerSteps == WorkerConnects \/ WorkerSubscribes \/ StartFlush \/ Exit

WorkerRuns == WorkerSteps /\ UNCHANGED <<alertsVars, presenceVars, published, apiVars, budget>>

WorkerFaults ==
  /\ \/ Signal /\ Spend("signal")
     \/ WorkerCrash /\ Spend("worker")
     \/ TogglePause /\ Spend("pause")
  /\ UNCHANGED <<alertsVars, presenceVars, published, apiVars>>

-----------------------------------------------------------------------------
(* The API server.                                                          *)

ApiStarts ==
  /\ ~ apiUp /\ apiUp' = TRUE
  /\ UNCHANGED <<ingestVars, alertsVars, presenceVars, published, linked, inbox, router, subject, budget>>

RetainedMessages ==
  LET known == {d \in Device : retained[d] # "none"}
  IN  [i \in 1 .. Cardinality(known) |-> LET d == SetToSeq(known)[i] IN Status(d, retained[d] = "online")]

\* OnConnect: the subscriptions, and the retained messages they bring.
ApiLinks ==
  /\ apiUp /\ ~ linked /\ linked' = TRUE
  /\ inbox' = inbox \o RetainedMessages
  /\ UNCHANGED <<ingestVars, alertsVars, presenceVars, published, apiUp, router, subject, budget>>

ApiUnlinks ==
  /\ linked /\ Spend("link") /\ linked' = FALSE /\ inbox' = << >>
  /\ UNCHANGED <<ingestVars, alertsVars, presenceVars, published, apiUp, router, subject>>

ApiCrashes ==
  /\ apiUp /\ Spend("api")
  /\ apiUp' = FALSE /\ linked' = FALSE /\ inbox' = << >> /\ RouterIdle
  /\ AlertsLost /\ PresenceLost
  /\ UNCHANGED <<ingestVars, published>>

\* The handler of live/#.
TakeLive ==
  /\ router = "idle" /\ inbox # << >> /\ Head(inbox).kind = "live"
  /\ router' = "evaluate" /\ subject' = Head(inbox) /\ inbox' = Tail(inbox)
  /\ GetRules
  /\ UNCHANGED <<ingestVars, presenceVars, published, apiUp, linked, budget>>

Evaluate ==
  /\ router = "evaluate"
  /\ \/ \E o \in Outcome : /\ EvaluateRule(subject.device, Enrich(subject.data), o) \/ Enqueue(o = "failed")
                           /\ Works("db", o = "done")
                           /\ UNCHANGED <<router, subject>>
     \/ /\ todo = {} /\ mail = NoMail /\ RouterIdle
        /\ UNCHANGED <<alertsVars, budget>>
  /\ UNCHANGED <<ingestVars, presenceVars, published, apiUp, linked, inbox>>

\* The handler of status/+/online: HandleStatusMessage() and applyStatus().
TakeStatus ==
  /\ router = "idle" /\ inbox # << >> /\ Head(inbox).kind = "status"
  /\ inbox' = Tail(inbox)
  /\ \/ /\ ApplyStatus(Head(inbox).device, Head(inbox).online)
        /\ router' = "announce" /\ subject' = Head(inbox) /\ UNCHANGED budget
     \/ /\ Spend("db") /\ UNCHANGED <<router, subject>>
        /\ \/ UNCHANGED presenceVars
           \/ StatusUnheard(Head(inbox).device, Head(inbox).online)
  /\ UNCHANGED <<ingestVars, alertsVars, published, apiUp, linked>>

Announce ==
  /\ router = "announce" /\ RouterIdle
  /\ Broadcast(subject.device, subject.online) /\ UNCHANGED flipped
  /\ UNCHANGED <<ingestVars, alertsVars, published, apiUp, linked, inbox, budget>>

Router == TakeLive \/ Evaluate \/ TakeStatus \/ Announce

MailStep ==
  /\ apiUp
  /\ \/ DrainBatch /\ UNCHANGED budget
     \/ \E ok \in BOOLEAN : (StartSend(ok) \/ EndSend(ok)) /\ Works("db", ok)
  /\ UNCHANGED <<ingestVars, presenceVars, published, apiVars>>

SweepStep ==
  /\ apiUp
  /\ \/ (MarkStaleOffline \/ AnnounceOffline) /\ UNCHANGED budget
     \/ SweepFails /\ Spend("db")
  /\ UNCHANGED <<ingestVars, alertsVars, published, apiVars>>

EditRules ==
  /\ Spend("edit") /\ ToggleRule
  /\ UNCHANGED <<ingestVars, presenceVars, published, apiVars>>

-----------------------------------------------------------------------------

Next ==
  \/ PublishTelemetry \/ PublishLive \/ DeviceConnects \/ SessionBreaks \/ SessionEnds \/ LastWill \/ Beat \/ Tick
  \/ Handler \/ WorkerRuns \/ WorkerFaults \/ \E f \in Flusher : FlushStep(f)
  \/ ApiStarts \/ ApiLinks \/ ApiUnlinks \/ ApiCrashes
  \/ Router \/ MailStep \/ SweepStep \/ EditRules

Spec == Init /\ [][Next]_vars

\* Processes are restarted, goroutines and the broker go on, and time passes.  No device
\* has to connect, and nobody has to publish, to edit a rule or to break anything.
FairSpec ==
  /\ Spec
  /\ WF_vars(Handler) /\ WF_vars(WorkerRuns) /\ \A f \in Flusher : WF_vars(FlushStep(f))
  /\ WF_vars(ApiStarts) /\ WF_vars(ApiLinks) /\ WF_vars(Router) /\ WF_vars(MailStep) /\ WF_vars(SweepStep)
  /\ WF_vars(LastWill) /\ WF_vars(Beat) /\ WF_vars(Tick)

\* What the table says of a device that is gone, and what dashboards show.
GoneShown(d) ==
  /\ active[d] => age[d] = Never
  /\ view[d] = "online" => d \in untold

\* A device that is gone for good comes to be inactive, and dashboards are told, even if
\* it left no last will and its retained "online" comes back with every reconnection of
\* the API, unless it was never heard of at all; they may be left with "online" only by a statement whose
\* reply was cut.  A device whose session holds comes to be active and shown so, whatever
\* the order of wills, heartbeats, sweeps and restarts before (applyStatus(),
\* markStaleOffline()).
PresenceSettles ==
  budget.clock =>
    \A d \in Device :
      /\ <>[] ~ conn[d]           => <>[] GoneShown(d)
      /\ <>[] (conn[d] /\ linked) => <>[] (active[d] /\ view[d] = "online")
=============================================================================
