------------------------------- MODULE Alerts -------------------------------
(***************************************************************************)
(* The alert engine and the email queue of the API server: alerts.go and   *)
(* email.go.  A rule is evaluated for one message after another; an event  *)
(* is a row of alert_events, a mail a row of email_queue.  The owner of    *)
(* every device has an address and wants the mails.                        *)
(***************************************************************************)
EXTENDS Fleet, Integers, Sequences, FiniteSets

CONSTANTS
  AnyDevice,  \* the device_key of a rule for every device
  DeviceType, \* devices.device_type: a function on Device
  RuleId,     \* ids of alert_rules
  RuleRows    \* the rows of alert_rules at the start: a function on RuleId

\* `type` is "" in a rule for every type.
Rule == [id : RuleId, device : Device \cup {AnyDevice}, type : STRING, field : STRING, op : STRING, value : Int,
         duration : Int, notify : BOOLEAN, enabled : BOOLEAN]

ASSUME AlertsAssumption ==
  /\ AnyDevice \notin Device /\ DeviceType \in [Device -> STRING]
  /\ RuleRows \in [RuleId -> Rule] /\ \A i \in RuleId : RuleRows[i].id = i

VARIABLES
  rules,     \* alert_rules
  cache,     \* e.rules
  counters,  \* e.counters
  todo,      \* the rules Evaluate() still has to go through
  events,    \* alert_events
  mail,      \* the mail fire() or resolve() is about to enqueue
  mails,     \* email_queue
  drained,   \* the rows of drainBatch() not yet sent
  sending,   \* the row sendOne() is at, 0 for none
  marred   \* history: the events whose alarm met a crash or a failed statement on its way

memory     == <<cache, counters, todo, mail, drained, sending>>
alertsVars == <<rules, memory, events, mails, marred>>

Event   == [rule : RuleId, device : Device, status : {"firing", "resolved"}]
Kind    == {"alert_fired", "alert_resolved"}
MailRow == [event : Nat, kind : Kind, status : {"queued", "sending", "sent", "failed"}, attempts : 0 .. 3,
            outs : Nat]  \* history: how often SMTP took it
NoMail  == [kind |-> "none"]

AlertsTypeOK ==
  /\ rules \in [RuleId -> Rule] /\ cache \cup todo \subseteq Rule
  /\ counters \in [RuleId \X Device -> Nat]
  /\ events \in Seq(Event) /\ mail \in {NoMail} \cup [event : DOMAIN events, kind : Kind]
  /\ mails \in Seq(MailRow) /\ \A m \in DOMAIN mails : mails[m].event \in DOMAIN events
  /\ drained \subseteq DOMAIN mails /\ sending \in 0 .. Len(mails)
  /\ marred \subseteq DOMAIN events

AlertsInit ==
  /\ rules = RuleRows /\ cache = {} /\ counters = [k \in RuleId \X Device |-> 0]
  /\ todo = {} /\ events = << >> /\ mail = NoMail
  /\ mails = << >> /\ drained = {} /\ sending = 0 /\ marred = {}

\* The event whose alarm the mail m is.
Alarm(m) == IF m.kind = "alert_fired" THEN {m.event} ELSE {}

\* The process ends: its rules, its streaks and the mail it was about to enqueue or to
\* send are gone.
AlertsLost ==
  /\ cache' = {} /\ counters' = [k \in RuleId \X Device |-> 0]
  /\ todo' = {} /\ mail' = NoMail /\ drained' = {} /\ sending' = 0
  /\ marred' = marred \cup Alarm(mail) \cup (IF sending # 0 THEN Alarm(mails[sending]) ELSE {})
  /\ UNCHANGED <<rules, events, mails>>

\* alert_rules is edited in the database: the server has no handler for it.
ToggleRule ==
  /\ \E i \in RuleId : rules' = [rules EXCEPT ![i].enabled = ~ @]
  /\ UNCHANGED <<memory, events, mails, marred>>

-----------------------------------------------------------------------------
(* Evaluate().                                                              *)

Enabled == {r \in {rules[i] : i \in RuleId} : r.enabled}

\* getRules(): the rules it holds, when they are younger than 30 s or cannot be read
\* again; no rules at all are always read again.
GetRules ==
  /\ \/ todo' = Enabled /\ cache' = Enabled
     \/ todo' = cache /\ UNCHANGED cache
  /\ UNCHANGED <<rules, counters, events, mail, mails, drained, sending, marred>>

Aggregates == {"pv_power", "battery_power", "inverter_power", "dc_load_power", "min_soc_pct", "max_soc_pct"}

FieldValue(enriched, field) ==
  IF field \in Aggregates THEN enriched[field]
  ELSE IF field \in DOMAIN enriched.fields THEN enriched.fields[field] ELSE 0

Holds(value, op, threshold) ==
  CASE op = "gt"  -> value > threshold
    [] op = "lt"  -> value < threshold
    [] op = "gte" -> value >= threshold
    [] op = "lte" -> value =< threshold
    [] op = "eq"  -> value = threshold
    [] op = "neq" -> value # threshold
    [] OTHER      -> FALSE

RequiredSamples(duration) == IF duration =< 0 THEN 1 ELSE (duration + 4) \div 5

Firing(r, d) == {e \in DOMAIN events : events[e].rule = r.id /\ events[e].device = d /\ events[e].status = "firing"}

Mail(r, e, kind) ==
  mail' = IF r.notify THEN [event |-> e, kind |-> kind] ELSE NoMail

\* Mutant: a conflict with a firing event is not told from an insertion.
FireAlways(r, d, replied) ==
  /\ events' = IF Firing(r, d) = {} THEN Append(events, [rule |-> r.id, device |-> d, status |-> "firing"]) ELSE events
  /\ Mail(r, Len(events'), "alert_fired") /\ UNCHANGED marred

\* fire(): INSERT ... ON CONFLICT DO NOTHING, and a mail when it is known to have inserted.
Fire(r, d, replied) ==
  IF Firing(r, d) = {}
  THEN /\ events' = Append(events, [rule |-> r.id, device |-> d, status |-> "firing"])
       /\ IF replied THEN Mail(r, Len(events'), "alert_fired") /\ UNCHANGED marred
                     ELSE mail' = NoMail /\ marred' = marred \cup {Len(events')}
  ELSE UNCHANGED <<events, mail, marred>>

\* resolve(): UPDATE ... WHERE status = 'firing', and a mail when a row is known to have changed.
Resolve(r, d, replied) ==
  /\ IF Firing(r, d) # {}
     THEN \E e \in Firing(r, d) :
            /\ events' = [events EXCEPT ![e].status = "resolved"]
            /\ IF replied THEN Mail(r, e, "alert_resolved") ELSE mail' = NoMail
     ELSE UNCHANGED <<events, mail>>
  /\ UNCHANGED marred

Streak(r, d, matched) == IF matched THEN counters[<<r.id, d>>] + 1 ELSE 0

MatchesDevice(r, d) == r.device \in {AnyDevice, d} /\ r.type \in {"", DeviceType[d]}

\* How a statement ends: done, done with its reply lost, or failed.
Outcome == {"done", "unheard", "failed"}

\* Mutant: the next rule is evaluated while a mail is still to be enqueued.
EvaluateRuleEarly(d, enriched, outcome) ==
  /\ \E r \in todo :
       LET matched == Holds(FieldValue(enriched, r.field), r.op, r.value)
           count   == Streak(r, d, matched)
       IN  /\ todo' = todo \ {r}
           /\ IF ~ MatchesDevice(r, d)
              THEN UNCHANGED <<counters, events, mail, marred>>
              ELSE /\ counters' = [counters EXCEPT ![<<r.id, d>>] = count]
                   /\ CASE outcome # "failed" /\ matched /\ count >= RequiredSamples(r.duration) -> Fire(r, d, outcome = "done")
                        [] outcome # "failed" /\ ~ matched -> Resolve(r, d, outcome = "done")
                        [] OTHER -> UNCHANGED <<events, mail, marred>>
  /\ UNCHANGED <<rules, cache, mails, drained, sending>>

\* One rule for the message `enriched` of device d, and how its statement ends.
EvaluateRule(d, enriched, outcome) ==
  /\ mail = NoMail
  /\ \E r \in todo :
       LET matched == Holds(FieldValue(enriched, r.field), r.op, r.value)
           count   == Streak(r, d, matched)
       IN  /\ todo' = todo \ {r}
           /\ IF ~ MatchesDevice(r, d)
              THEN UNCHANGED <<counters, events, mail, marred>>
              ELSE /\ counters' = [counters EXCEPT ![<<r.id, d>>] = count]
                   /\ CASE outcome # "failed" /\ matched /\ count >= RequiredSamples(r.duration) -> Fire(r, d, outcome = "done")
                        [] outcome # "failed" /\ ~ matched -> Resolve(r, d, outcome = "done")
                        [] OTHER -> UNCHANGED <<events, mail, marred>>
  /\ UNCHANGED <<rules, cache, mails, drained, sending>>

\* Enqueue(), whose error is ignored, as is one of resolveOwnerEmail().
Enqueue(broken) ==
  /\ mail # NoMail /\ mail' = NoMail
  /\ IF broken
     THEN marred' = marred \cup Alarm(mail) /\ UNCHANGED mails
     ELSE /\ mails' = Append(mails, [event |-> mail.event, kind |-> mail.kind, status |-> "queued", attempts |-> 0, outs |-> 0])
          /\ UNCHANGED marred
  /\ UNCHANGED <<rules, cache, counters, todo, events, drained, sending>>

-----------------------------------------------------------------------------
(* DrainLoop().  A row comes to be due sooner or later.                     *)

Queued == {m \in DOMAIN mails : mails[m].status = "queued"}

DrainBatch ==
  /\ drained = {} /\ sending = 0 /\ Queued # {} /\ drained' = Queued
  /\ UNCHANGED <<rules, cache, counters, todo, events, mail, mails, sending, marred>>

\* sendOne(): the row is to be marked before the message goes out, and the message goes
\* out though the UPDATE has failed.
StartSend(ok) ==
  /\ sending = 0
  /\ \E m \in drained :
       /\ drained' = drained \ {m} /\ sending' = m
       /\ mails' = IF ok THEN [mails EXCEPT ![m].status = "sending", ![m].attempts = @ + 1] ELSE mails
  /\ UNCHANGED <<rules, cache, counters, todo, events, mail, marred>>

\* SMTP takes the message, or refuses it as it does one without its template: failOne()
\* gives up after three attempts.  A failed UPDATE leaves the row as it is.
Ending(row, taken, ok) ==
  [row EXCEPT !.outs   = IF taken THEN @ + 1 ELSE @,
              !.status = CASE ~ ok -> @
                           [] ok /\ taken -> "sent"
                           [] OTHER -> IF row.attempts >= 3 THEN "failed" ELSE "queued"]

EndSend(ok) ==
  /\ sending # 0 /\ sending' = 0
  /\ \E taken \in BOOLEAN : mails' = [mails EXCEPT ![sending] = Ending(@, taken, ok)]
  /\ marred' = IF ok THEN marred ELSE marred \cup Alarm(mails[sending])
  /\ UNCHANGED <<rules, cache, counters, todo, events, mail, drained>>

-----------------------------------------------------------------------------

AlarmRows(e) == {m \in DOMAIN mails : mails[m].event = e /\ mails[m].kind = "alert_fired"}

\* SMTP has the mail of the row if the row says so, and once; nobody but sendOne() left it half done.
Honest(m) ==
  /\ mails[m].status = "sending" => sending = m
  /\ mails[m].outs = IF mails[m].status = "sent" THEN 1 ELSE 0

Accounted(e) ==
  /\ \A m, n \in AlarmRows(e) : m = n
  /\ IF RuleRows[events[e].rule].notify
     THEN \/ e \in marred
          \/ mail = [event |-> e, kind |-> "alert_fired"] /\ AlarmRows(e) = {}
          \/ \E m \in AlarmRows(e) : Honest(m)
     ELSE AlarmRows(e) = {}

\* No alarm is forgotten or mailed twice: unless a crash or a failed statement met it on its
\* way, the alarm of every event of a rule with mails is at hand or has exactly one row in
\* email_queue, which SMTP has taken once if it is 'sent' and else never, and which is
\* 'sending' only while it is sent (fire(), Enqueue(), sendOne(), failOne()).
AlarmsAccounted == \A e \in DOMAIN events : Accounted(e)

Told(e) == \E m \in DOMAIN mails : AlarmRows(e) = {m} /\ Honest(m) /\ mails[m].status \in {"sent", "failed"}

\* "Email is enqueued only when a row is actually inserted" (backend/docs/ARCHITECTURE.md): for
\* every alarm there comes to be exactly one mail, taken once by SMTP or given up after its
\* attempts, however long the condition lasts and however often the server restarts
\* meanwhile - except where a crash or a failed statement met the alarm on its way.
AlarmMailedOnce ==
  <>[] \A e \in DOMAIN events : e \in marred \/ Told(e) \/ ~ RuleRows[events[e].rule].notify
=============================================================================
