---------------------------- MODULE BackendProofs ---------------------------
(***************************************************************************)
(* What is proved of Ingest, Alerts, Presence and Backend for every number *)
(* of devices, rules and messages, every size of the buffer and of a       *)
(* batch, and every scenario.                                              *)
(***************************************************************************)
EXTENDS Backend, FiniteSetTheorems, SequenceTheorems, TLAPS

\* Where a message can be: still to be published, on the wire, in the handler, in the buffer, in the
\* batch of a caller of Flush(), inserted, refused.
Place == Flusher \cup {"ahead", "wire", "hand", "buf", "stored", "refused"}

Ids(w) == {w[i].id : i \in DOMAIN w}

In == [p \in Place |->
         CASE p \in Flusher  -> Range(flush[p].batch)
           [] p = "ahead"    -> published + 1 .. MaxFrame
           [] p = "wire"     -> Ids(wire)
           [] p = "hand"     -> IF step = "write" THEN {msg.id} ELSE {}
           [] p = "buf"      -> Range(buf)
           [] p = "stored"   -> {f \in Frame : stored[f] > 0}
           [] p = "refused"  -> refused]

Apart(places) == \A p, q \in Place : p # q => places[p] \cap places[q] = {}

IdsDiffer(w) == \A i, j \in DOMAIN w : w[i].id = w[j].id => i = j

\* A message is at one place, and there once.
DeliveryInvariant ==
  /\ Apart(In) /\ IdsDiffer(wire) /\ IsInjective(buf) /\ \A f \in Flusher : IsInjective(flush[f].batch)
  /\ \A f \in Frame : stored[f] =< 1

\* Rules keep id and notify; a mail at hand that is an alarm is of a rule with mails, and the only one.
Carried ==
  /\ \A r \in cache \cup todo : r.notify = RuleRows[r.id].notify
  /\ \A i \in RuleId : rules[i].id = i /\ rules[i].notify = RuleRows[i].notify
  /\ mail.kind = "alert_fired" => RuleRows[events[mail.event].rule].notify /\ AlarmRows(mail.event) = {}

\* What DrainLoop() has taken and not begun is queued, with an attempt left; what it is at has not ended.
Draining ==
  /\ drained \subseteq Queued /\ sending \notin drained
  /\ sending # 0 => mails[sending].status \in {"queued", "sending"}
  /\ \A m \in Queued : mails[m].attempts < 3

\* The alarm of an event has met a fault, is at hand, or has one row.
Counted(e) ==
  /\ \A m, n \in AlarmRows(e) : m = n
  /\ IF RuleRows[events[e].rule].notify
     THEN \/ e \in marred
          \/ mail = [event |-> e, kind |-> "alert_fired"] /\ AlarmRows(e) = {}
          \/ AlarmRows(e) # {}
     ELSE AlarmRows(e) = {}

\* A row that says what SMTP did not do is one whose alarm has met a fault.
RowsHonest == \A m \in DOMAIN mails : Honest(m) \/ Alarm(mails[m]) \subseteq marred

AllCounted == \A e \in DOMAIN events : Counted(e)

AlertsInvariant == AlertsTypeOK /\ Carried /\ Draining /\ AllCounted /\ RowsHonest

BackendInvariant == TypeOK /\ AlertsInvariant /\ DeliveryInvariant

-----------------------------------------------------------------------------
(* Sequences.                                                               *)

LEMMA TailIn ==
  ASSUME NEW T, NEW s \in Seq(T), s # << >>
  PROVE  Head(s) \in T /\ Tail(s) \in Seq(T) /\ Len(Tail(s)) = Len(s) - 1
BY HeadTailProperties

LEMMA AppendIn ==
  ASSUME NEW T, NEW s \in Seq(T), NEW e \in T
  PROVE  Append(s, e) \in Seq(T) /\ Len(Append(s, e)) = Len(s) + 1
BY AppendProperties

-----------------------------------------------------------------------------
(* Types: the worker.                                                       *)

LEMMA IngestStutters ==
  ASSUME IngestTypeOK, UNCHANGED ingestVars
  PROVE  IngestTypeOK'
BY DEF IngestTypeOK, ingestVars, process

LEMMA CallerMoves ==
  ASSUME IngestTypeOK, NEW f \in Flusher, NEW to \in Caller, Flushed(f, to), Len(to.batch) =< BatchSize
  PROVE  /\ flush' \in [Flusher -> Caller]
         /\ \A g \in Flusher : Len(flush'[g].batch) =< BatchSize
BY DEF IngestTypeOK, Flushed

LEMMA AtRestTypes == AtRest \in [Flusher -> Caller] /\ \A f \in Flusher : Len(AtRest[f].batch) =< BatchSize
<1>1. << >> \in Seq(Frame) /\ Len(<< >>) = 0 /\ BatchSize \in Nat
  BY IngestAssumption
<1>2. [pc |-> "idle", batch |-> << >>, last |-> FALSE, failed |-> FALSE] \in Caller
  BY <1>1 DEF Caller
<1> QED
  BY <1>1, <1>2 DEF AtRest

LEMMA GoneTypes ==
  ASSUME IngestTypeOK, Gone
  PROVE  IngestTypeOK'
<1>1. << >> \in Seq(Frame) /\ << >> \in Seq(Message) /\ Len(<< >>) = 0 /\ BufCap \in Nat
  BY IngestAssumption
<1> QED
  BY <1>1, AtRestTypes DEF IngestTypeOK, Gone

LEMMA HandlerTypes ==
  ASSUME IngestTypeOK, Handle \/ WriteRow \/ Republish
  PROVE  IngestTypeOK'
<1>1. CASE Handle
  <2>1. wire # << >> /\ wire' = Tail(wire) /\ wire \in Seq(Message)
    BY <1>1 DEF Handle, IngestTypeOK
  <2>2. Head(wire) \in Message /\ wire' \in Seq(Message)
    BY <2>1, TailIn
  <2>3. step' \in {"idle", "write", "publish"} /\ (step' # "idle" => msg' \in Message)
    BY <1>1, <2>2 DEF Handle, IngestTypeOK
  <2>4. seen' \in BOOLEAN
    BY <1>1 DEF Handle, IngestTypeOK
  <2> QED
    BY <1>1, <2>2, <2>3, <2>4 DEF Handle, IngestTypeOK
<1>2. CASE WriteRow
  <2>1. msg \in Message /\ buf \in Seq(Frame) /\ Len(buf) =< BufCap /\ BufCap \in Nat
    BY <1>2, IngestAssumption DEF WriteRow, IngestTypeOK
  <2>2. msg.id \in Frame
    BY <2>1 DEF Message
  <2>3. Append(buf, msg.id) \in Seq(Frame) /\ Len(Append(buf, msg.id)) = Len(buf) + 1 /\ Len(buf) \in Nat
    BY <2>1, <2>2, AppendIn, LenProperties
  <2>4. buf' \in Seq(Frame) /\ Len(buf') =< BufCap
    BY <1>2, <2>1, <2>3 DEF WriteRow
  <2> QED
    BY <1>2, <2>1, <2>4 DEF WriteRow, IngestTypeOK
<1>3. CASE Republish
  BY <1>3 DEF Republish, IngestTypeOK
<1> QED
  BY <1>1, <1>2, <1>3

LEMMA FlushTypes ==
  ASSUME IngestTypeOK, NEW f \in Flusher, UNCHANGED <<worker, wire, step, msg, seen, maint>>,
         Drain(f) \/ EndBatch(f) \/ \E ok \in BOOLEAN : InsertRow(f, ok)
  PROVE  IngestTypeOK'
<1> DEFINE c == flush[f]
<1>1. c \in Caller /\ c.batch \in Seq(Frame) /\ Len(c.batch) =< BatchSize /\ Len(c.batch) \in Nat /\ BatchSize \in Nat
  BY IngestAssumption DEF IngestTypeOK, Caller
<1>2. buf \in Seq(Frame) /\ Len(buf) =< BufCap /\ BufCap \in Nat /\ Len(buf) \in Nat
  BY IngestAssumption DEF IngestTypeOK
<1>3. CASE Drain(f)
  <2>1. CASE ~ (Len(c.batch) = BatchSize) /\ buf # << >>
    <3>1. Head(buf) \in Frame /\ Tail(buf) \in Seq(Frame) /\ Len(Tail(buf)) = Len(buf) - 1
      BY <1>2, <2>1, TailIn
    <3>2. Append(c.batch, Head(buf)) \in Seq(Frame) /\ Len(Append(c.batch, Head(buf))) = Len(c.batch) + 1
      BY <1>1, <3>1, AppendIn
    <3> DEFINE to == [c EXCEPT !.batch = Append(@, Head(buf))]
    <3>3. to \in Caller /\ to.batch = Append(c.batch, Head(buf))
      BY <1>1, <3>2 DEF Caller
    <3>4. Flushed(f, to) /\ buf' = Tail(buf) /\ UNCHANGED <<stored, refused>>
      BY <1>3, <2>1 DEF Drain
    <3>5. Len(to.batch) =< BatchSize
      BY <1>1, <2>1, <3>2, <3>3
    <3> HIDE DEF to
    <3>6. /\ flush' \in [Flusher -> Caller]
          /\ \A g \in Flusher : Len(flush'[g].batch) =< BatchSize
      BY <3>3, <3>4, <3>5, CallerMoves
    <3>7. buf' \in Seq(Frame) /\ Len(buf') =< BufCap
      BY <1>2, <3>1, <3>4
    <3> QED
      BY <3>4, <3>6, <3>7 DEF IngestTypeOK
  <2>2. CASE Len(c.batch) = BatchSize \/ buf = << >>
    <3> DEFINE to == [c EXCEPT !.pc = "write", !.last = ~ (Len(c.batch) = BatchSize)]
    <3>1. to \in Caller /\ to.batch = c.batch
      BY <1>1 DEF Caller
    <3>2. Flushed(f, to) /\ UNCHANGED <<buf, stored, refused>>
      BY <1>3, <2>2 DEF Drain
    <3> HIDE DEF to
    <3>3. /\ flush' \in [Flusher -> Caller]
          /\ \A g \in Flusher : Len(flush'[g].batch) =< BatchSize
      BY <1>1, <3>1, <3>2, CallerMoves
    <3> QED
      BY <3>2, <3>3 DEF IngestTypeOK
  <2> QED
    BY <2>1, <2>2
<1>4. CASE EndBatch(f)
  <2> DEFINE to == IF c.last \/ c.failed THEN AtRest[f] ELSE [c EXCEPT !.pc = "drain"]
  <2>1. AtRest[f] \in Caller /\ Len(AtRest[f].batch) =< BatchSize
    BY AtRestTypes
  <2>2. [c EXCEPT !.pc = "drain"] \in Caller /\ [c EXCEPT !.pc = "drain"].batch = c.batch
    BY <1>1 DEF Caller
  <2>3. to \in Caller /\ Len(to.batch) =< BatchSize
    BY <1>1, <2>1, <2>2
  <2>4. Flushed(f, to) /\ UNCHANGED <<buf, stored, refused>>
    BY <1>4 DEF EndBatch
  <2> HIDE DEF to
  <2>5. /\ flush' \in [Flusher -> Caller]
        /\ \A g \in Flusher : Len(flush'[g].batch) =< BatchSize
    BY <2>3, <2>4, CallerMoves
  <2> QED
    BY <2>4, <2>5 DEF IngestTypeOK
<1>5. ASSUME NEW ok \in BOOLEAN, InsertRow(f, ok) PROVE IngestTypeOK'
  <2>1. c.batch # << >>
    BY <1>5 DEF InsertRow
  <2>2. Head(c.batch) \in Frame /\ Tail(c.batch) \in Seq(Frame) /\ Len(Tail(c.batch)) = Len(c.batch) - 1
    BY <1>1, <2>1, TailIn
  <2> DEFINE to == [c EXCEPT !.batch = Tail(@), !.failed = @ \/ ~ ok]
  <2>3. to \in Caller /\ to.batch = Tail(c.batch)
    BY <1>1, <2>2 DEF Caller
  <2>4. Flushed(f, to) /\ UNCHANGED buf
    BY <1>5 DEF InsertRow
  <2>5. Len(to.batch) =< BatchSize
    BY <1>1, <2>2, <2>3
  <2> HIDE DEF to
  <2>6. /\ flush' \in [Flusher -> Caller]
        /\ \A g \in Flusher : Len(flush'[g].batch) =< BatchSize
    BY <2>3, <2>4, <2>5, CallerMoves
  <2>7. stored' \in [Frame -> Nat] /\ refused' \subseteq Frame
    <3> DEFINE id == Head(c.batch)
    <3>1. stored \in [Frame -> Nat] /\ refused \subseteq Frame /\ id \in Frame
      BY <2>2 DEF IngestTypeOK
    <3>2. CASE ok
      <4>1. stored' = [stored EXCEPT ![id] = @ + 1] /\ refused' = refused
        BY <1>5, <3>2 DEF InsertRow
      <4> QED
        BY <3>1, <4>1
    <3>3. CASE ~ ok
      <4>1. stored' = stored /\ refused' = refused \cup {id}
        BY <1>5, <3>3 DEF InsertRow
      <4> QED
        BY <3>1, <4>1
    <3> QED
      BY <3>2, <3>3
  <2> QED
    BY <2>4, <2>6, <2>7 DEF IngestTypeOK
<1> QED
  BY <1>3, <1>4, <1>5

LEMMA WorkerTypes ==
  ASSUME IngestTypeOK, WorkerSteps \/ Signal \/ WorkerCrash \/ TogglePause
  PROVE  IngestTypeOK'
<1>1. CASE WorkerConnects
  BY <1>1 DEF WorkerConnects, IngestTypeOK
<1>2. CASE WorkerSubscribes
  BY <1>2 DEF WorkerSubscribes, IngestTypeOK, process
<1>3. ASSUME NEW f \in Flusher, Flushed(f, [flush[f] EXCEPT !.pc = "drain"]), worker' \in {"up", "stopping"},
             UNCHANGED <<wire, step, msg, seen, maint, buf, stored, refused>>
      PROVE  IngestTypeOK'
  <2> DEFINE to == [flush[f] EXCEPT !.pc = "drain"]
  <2>1. to \in Caller /\ to.batch = flush[f].batch /\ Len(flush[f].batch) =< BatchSize
    BY DEF IngestTypeOK, Caller
  <2>2. Flushed(f, to)
    BY <1>3
  <2> HIDE DEF to
  <2>3. /\ flush' \in [Flusher -> Caller]
        /\ \A g \in Flusher : Len(flush'[g].batch) =< BatchSize
    BY <2>1, <2>2, CallerMoves
  <2> QED
    BY <1>3, <2>3 DEF IngestTypeOK
<1>4. CASE StartFlush
  BY <1>3, <1>4 DEF StartFlush, Flusher
<1>5. CASE Signal
  BY <1>3, <1>5 DEF Signal, Flusher
<1>6. CASE Exit \/ WorkerCrash
  BY <1>6, GoneTypes DEF Exit, WorkerCrash
<1>7. CASE TogglePause
  BY <1>7 DEF TogglePause, IngestTypeOK, process
<1> QED
  BY <1>1, <1>2, <1>4, <1>5, <1>6, <1>7 DEF WorkerSteps

LEMMA WireTypes ==
  ASSUME IngestTypeOK, NEW m \in Message, ToWorker(m), UNCHANGED <<process, worker, maint, stored, refused>>
  PROVE  IngestTypeOK'
<1>1. wire' \in Seq(Message)
  BY AppendIn DEF ToWorker, IngestTypeOK
<1> QED
  BY <1>1 DEF IngestTypeOK, process

-----------------------------------------------------------------------------
(* Types: alerts and mails.                                                 *)

LEMMA AlertsStutters ==
  ASSUME AlertsTypeOK, UNCHANGED alertsVars
  PROVE  AlertsTypeOK'
BY DEF AlertsTypeOK, alertsVars, memory

LEMMA AlertsLostTypes ==
  ASSUME AlertsTypeOK, AlertsLost
  PROVE  AlertsTypeOK'
<1>1. counters' \in [RuleId \X Device -> Nat]
  BY DEF AlertsLost
<1>2. marred' \subseteq DOMAIN events
  <2>1. Alarm(mail) \subseteq DOMAIN events
    BY DEF Alarm, AlertsTypeOK, NoMail
  <2>2. sending # 0 => Alarm(mails[sending]) \subseteq DOMAIN events
    BY DEF Alarm, AlertsTypeOK
  <2> QED
    BY <2>1, <2>2 DEF AlertsLost, AlertsTypeOK
<1>3. Len(mails) \in Nat
  BY LenProperties DEF AlertsTypeOK
<1> QED
  BY <1>1, <1>2, <1>3 DEF AlertsLost, AlertsTypeOK

LEMMA RulesTypes ==
  ASSUME AlertsTypeOK, ToggleRule \/ GetRules
  PROVE  AlertsTypeOK'
<1>1. ASSUME ToggleRule PROVE rules' \in [RuleId -> Rule]
  <2>1. PICK i \in RuleId : rules' = [rules EXCEPT ![i].enabled = ~ @]
    BY <1>1 DEF ToggleRule
  <2>2. rules \in [RuleId -> Rule] /\ rules[i] \in Rule
    BY DEF AlertsTypeOK
  <2>3. [rules[i] EXCEPT !.enabled = ~ @] \in Rule
    BY <2>2 DEF Rule
  <2> QED
    BY <2>1, <2>2, <2>3
<1>2. CASE ToggleRule
  BY <1>1, <1>2 DEF ToggleRule, AlertsTypeOK, memory
<1>3. CASE GetRules
  <2>1. Enabled \subseteq Rule
    BY DEF Enabled, AlertsTypeOK
  <2>2. cache' \cup todo' \subseteq Rule
    BY <1>3, <2>1 DEF GetRules, AlertsTypeOK
  <2> QED
    BY <1>3, <2>2 DEF GetRules, AlertsTypeOK
<1> QED
  BY <1>2, <1>3

\* What one step makes of the events: nothing, one more, or one resolved.
LEMMA FireTypes ==
  ASSUME AlertsTypeOK, NEW r \in Rule, NEW d \in Device, NEW replied \in BOOLEAN,
         Fire(r, d, replied) \/ Resolve(r, d, replied)
  PROVE  /\ events' \in Seq(Event) /\ DOMAIN events \subseteq DOMAIN events'
         /\ marred \subseteq marred' /\ marred' \subseteq DOMAIN events'
         /\ mail' \in {NoMail} \cup [event : DOMAIN events', kind : Kind]
<1>1. events \in Seq(Event) /\ mail \in {NoMail} \cup [event : DOMAIN events, kind : Kind] /\ marred \subseteq DOMAIN events
  BY DEF AlertsTypeOK
<1>2. DOMAIN events = 1 .. Len(events) /\ Len(events) \in Nat
  BY <1>1, LenProperties
<1>3. CASE UNCHANGED <<events, mail, marred>>
  BY <1>1, <1>3
<1>4. ASSUME NEW e \in DOMAIN events', NEW kind \in Kind, Mail(r, e, kind)
      PROVE  mail' \in {NoMail} \cup [event : DOMAIN events', kind : Kind]
  BY <1>4 DEF Mail
<1>5. CASE Firing(r, d) = {} /\ Fire(r, d, replied)
  <2> DEFINE row == [rule |-> r.id, device |-> d, status |-> "firing"]
  <2>1. row \in Event
    BY DEF Event, Rule
  <2>2. /\ events' = Append(events, row)
        /\ \/ Mail(r, Len(events'), "alert_fired") /\ marred' = marred
           \/ mail' = NoMail /\ marred' = marred \cup {Len(events')}
    BY <1>5 DEF Fire
  <2> HIDE DEF row
  <2>3. events' \in Seq(Event) /\ Len(events') = Len(events) + 1
    BY <1>1, <2>1, <2>2, AppendIn
  <2>4. DOMAIN events' = 1 .. Len(events')
    BY <2>3, LenProperties
  <2>5. Len(events') \in DOMAIN events' /\ DOMAIN events \subseteq DOMAIN events'
    BY <1>2, <2>3, <2>4
  <2>6. mail' \in {NoMail} \cup [event : DOMAIN events', kind : Kind]
    BY <1>4, <2>2, <2>5 DEF Kind
  <2>7. marred \subseteq marred' /\ marred' \subseteq DOMAIN events'
    BY <1>1, <2>2, <2>5
  <2> QED
    BY <2>3, <2>5, <2>6, <2>7
<1>6. CASE Firing(r, d) # {} /\ Resolve(r, d, replied)
  <2>1. PICK e \in Firing(r, d) : /\ events' = [events EXCEPT ![e].status = "resolved"]
                                  /\ Mail(r, e, "alert_resolved") \/ mail' = NoMail
                                  /\ marred' = marred
    BY <1>6 DEF Resolve
  <2>2. e \in DOMAIN events /\ events[e] \in Event
    BY <1>1, <1>2, <2>1, ElementOfSeq DEF Firing
  <2> DEFINE row == [events[e] EXCEPT !.status = "resolved"]
  <2>3. row \in Event
    BY <2>2 DEF Event
  <2>4. events' = [events EXCEPT ![e] = row]
    BY <2>1
  <2> HIDE DEF row
  <2>5. events' \in Seq(Event) /\ Len(events') = Len(events)
    BY <1>1, <1>2, <2>2, <2>3, <2>4, ExceptSeq
  <2>6. DOMAIN events' = DOMAIN events
    BY <1>2, <2>5, LenProperties
  <2>7. mail' \in {NoMail} \cup [event : DOMAIN events', kind : Kind]
    BY <1>4, <2>1, <2>2, <2>6 DEF Kind
  <2> QED
    BY <1>1, <2>1, <2>5, <2>6, <2>7
<1> QED
  BY <1>3, <1>5, <1>6 DEF Fire, Resolve

\* Evaluate() of one rule leaves the events alone, or fires or resolves.
LEMMA EvaluateCases ==
  ASSUME NEW d \in Device, NEW enriched, NEW outcome, EvaluateRule(d, enriched, outcome)
  PROVE  \E r \in todo :
           /\ todo' = todo \ {r}
           /\ \/ UNCHANGED <<counters, events, mail, marred>>
              \/ /\ counters' = [counters EXCEPT ![<<r.id, d>>] = Streak(r, d, Holds(FieldValue(enriched, r.field), r.op, r.value))]
                 /\ \/ \E replied \in BOOLEAN : Fire(r, d, replied) \/ Resolve(r, d, replied)
                    \/ UNCHANGED <<events, mail, marred>>
<1> DEFINE Matched(r) == Holds(FieldValue(enriched, r.field), r.op, r.value)
           Count(r) == Streak(r, d, Matched(r))
           replied == (outcome = "done")
<1>1. PICK r \in todo :
        /\ todo' = todo \ {r}
        /\ \/ UNCHANGED <<counters, events, mail, marred>>
           \/ /\ counters' = [counters EXCEPT ![<<r.id, d>>] = Count(r)]
              /\ Fire(r, d, replied) \/ Resolve(r, d, replied) \/ UNCHANGED <<events, mail, marred>>
  BY DEF EvaluateRule
<1>2. replied \in BOOLEAN
  OBVIOUS
<1> QED
  BY <1>1, <1>2

LEMMA EvaluateTypes ==
  ASSUME AlertsTypeOK, NEW d \in Device, NEW enriched, NEW outcome, EvaluateRule(d, enriched, outcome)
  PROVE  AlertsTypeOK' /\ marred \subseteq marred'
<1> DEFINE Matched(r) == Holds(FieldValue(enriched, r.field), r.op, r.value)
           Count(r) == Streak(r, d, Matched(r))
<1>1. PICK r \in todo :
        /\ todo' = todo \ {r}
        /\ \/ UNCHANGED <<counters, events, mail, marred>>
           \/ /\ counters' = [counters EXCEPT ![<<r.id, d>>] = Count(r)]
              /\ \/ \E replied \in BOOLEAN : Fire(r, d, replied) \/ Resolve(r, d, replied)
                 \/ UNCHANGED <<events, mail, marred>>
  BY EvaluateCases
<1>2. r \in Rule /\ r.id \in RuleId /\ counters \in [RuleId \X Device -> Nat]
  BY DEF AlertsTypeOK, Rule
<1>3. counters[<<r.id, d>>] \in Nat
  BY <1>2
<1>4. Count(r) \in Nat
  BY <1>3 DEF Streak
<1>5. counters' \in [RuleId \X Device -> Nat]
  BY <1>1, <1>2, <1>4
<1>6. /\ events' \in Seq(Event) /\ DOMAIN events \subseteq DOMAIN events'
      /\ marred \subseteq marred' /\ marred' \subseteq DOMAIN events'
      /\ mail' \in {NoMail} \cup [event : DOMAIN events', kind : Kind]
  <2>1. CASE \E replied \in BOOLEAN : Fire(r, d, replied) \/ Resolve(r, d, replied)
    BY <1>2, <2>1, FireTypes
  <2>2. CASE UNCHANGED <<events, mail, marred>>
    BY <2>2 DEF AlertsTypeOK
  <2> QED
    BY <1>1, <2>1, <2>2
<1>7. UNCHANGED <<rules, cache, mails, drained, sending>> /\ todo' \subseteq todo
  BY <1>1 DEF EvaluateRule
<1> QED
  BY <1>5, <1>6, <1>7 DEF AlertsTypeOK

LEMMA EnqueueTypes ==
  ASSUME AlertsTypeOK, NEW broken, Enqueue(broken)
  PROVE  AlertsTypeOK'
<1>1. mail \in [event : DOMAIN events, kind : Kind] /\ mails \in Seq(MailRow) /\ Len(mails) \in Nat
  BY LenProperties DEF AlertsTypeOK, Enqueue
<1>2. events \in Seq(Event) /\ DOMAIN events \subseteq Nat
  BY LenProperties DEF AlertsTypeOK
<1>3. CASE broken
  <2>1. Alarm(mail) \subseteq DOMAIN events
    BY <1>1 DEF Alarm
  <2> QED
    BY <1>3, <2>1 DEF Enqueue, AlertsTypeOK
<1>4. CASE ~ broken
  <2> DEFINE row == [event |-> mail.event, kind |-> mail.kind, status |-> "queued", attempts |-> 0, outs |-> 0]
  <2>1. row \in MailRow /\ row.event \in DOMAIN events
    BY <1>1, <1>2 DEF MailRow
  <2>2. mails' = Append(mails, row) /\ UNCHANGED <<marred, events, drained, sending>>
    BY <1>4 DEF Enqueue
  <2> HIDE DEF row
  <2>3. mails' \in Seq(MailRow) /\ Len(mails') = Len(mails) + 1
    BY <1>1, <2>1, <2>2, AppendIn
  <2>4. \A m \in DOMAIN mails : m \in DOMAIN mails' /\ mails'[m] = mails[m]
    BY <1>1, <2>2
  <2>5. ASSUME NEW m \in DOMAIN mails' PROVE mails'[m].event \in DOMAIN events
    BY <1>1, <2>1, <2>2, <2>3, <2>5 DEF AlertsTypeOK
  <2>6. drained' \subseteq DOMAIN mails' /\ sending' \in 0 .. Len(mails')
    BY <1>1, <2>2, <2>3, <2>4 DEF AlertsTypeOK
  <2> QED
    BY <1>4, <2>2, <2>3, <2>5, <2>6 DEF Enqueue, AlertsTypeOK
<1> QED
  BY <1>3, <1>4

LEMMA RowChanged ==
  ASSUME AlertsTypeOK, NEW m \in DOMAIN mails, NEW row \in MailRow,
         row.event = mails[m].event, row.kind = mails[m].kind, mails' = [mails EXCEPT ![m] = row]
  PROVE  /\ mails' \in Seq(MailRow) /\ Len(mails') = Len(mails) /\ DOMAIN mails' = DOMAIN mails
         /\ \A k \in DOMAIN mails : mails'[k] = IF k = m THEN row ELSE mails[k]
         /\ \A k \in DOMAIN mails : mails'[k].event = mails[k].event /\ mails'[k].kind = mails[k].kind
<1>1. mails \in Seq(MailRow) /\ DOMAIN mails = 1 .. Len(mails)
  BY LenProperties DEF AlertsTypeOK
<1>2. mails' \in Seq(MailRow) /\ Len(mails') = Len(mails)
  BY <1>1, ExceptSeq
<1>3. DOMAIN mails' = DOMAIN mails
  BY <1>1, <1>2, LenProperties
<1>4. \A k \in DOMAIN mails : mails'[k] = IF k = m THEN row ELSE mails[k]
  BY <1>1
<1> QED
  BY <1>2, <1>3, <1>4

\* How a row ends.
LEMMA EndedRow ==
  ASSUME NEW old \in MailRow, NEW taken \in BOOLEAN, NEW ok \in BOOLEAN
  PROVE  LET row == Ending(old, taken, ok)
         IN  /\ row \in MailRow /\ row.event = old.event /\ row.kind = old.kind /\ row.attempts = old.attempts
             /\ row.outs = IF taken THEN old.outs + 1 ELSE old.outs
             /\ row.status = CASE ~ ok -> old.status
                               [] ok /\ taken -> "sent"
                               [] OTHER -> IF old.attempts >= 3 THEN "failed" ELSE "queued"
<1> DEFINE outs == IF taken THEN old.outs + 1 ELSE old.outs
           status == CASE ~ ok -> old.status
                       [] ok /\ taken -> "sent"
                       [] OTHER -> IF old.attempts >= 3 THEN "failed" ELSE "queued"
<1>1. outs \in Nat
  BY DEF MailRow
<1>2. status \in {"queued", "sending", "sent", "failed"}
  <2>1. CASE ~ ok
    BY <2>1 DEF MailRow
  <2>2. CASE ok /\ taken
    BY <2>2
  <2>3. CASE ok /\ ~ taken
    BY <2>3
  <2> QED
    BY <2>1, <2>2, <2>3
<1>3. Ending(old, taken, ok) = [old EXCEPT !.outs = outs, !.status = status]
  BY DEF Ending
<1> HIDE DEF outs, status
<1>4. [old EXCEPT !.outs = outs, !.status = status] \in MailRow
  BY <1>1, <1>2 DEF MailRow
<1>5. /\ Ending(old, taken, ok) \in MailRow /\ Ending(old, taken, ok).event = old.event /\ Ending(old, taken, ok).kind = old.kind
      /\ Ending(old, taken, ok).attempts = old.attempts /\ Ending(old, taken, ok).outs = outs /\ Ending(old, taken, ok).status = status
  BY <1>3, <1>4 DEF MailRow
<1> QED
  BY <1>5 DEF outs, status

\* What a step of DrainLoop() does to the row it is at.
LEMMA SentRow ==
  ASSUME AlertsTypeOK, Draining, RowsHonest, NEW ok \in BOOLEAN, StartSend(ok) \/ EndSend(ok)
  PROVE  \E m \in DOMAIN mails, row \in MailRow :
           /\ mails' = [mails EXCEPT ![m] = row]
           /\ row.event = mails[m].event /\ row.kind = mails[m].kind
           /\ row.status = "queued" => row.attempts < 3
           /\ marred \subseteq marred' /\ marred' \subseteq DOMAIN events
           /\ \/ /\ m \in drained /\ drained' = drained \ {m} /\ sending = 0 /\ sending' = m
                 /\ row.status \in {"queued", "sending"} /\ row.outs = mails[m].outs
              \/ /\ sending = m /\ sending' = 0 /\ drained' = drained
                 /\ \/ Alarm(mails[m]) \subseteq marred'
                    \/ /\ row.status \in {"sent", "failed", "queued"}
                       /\ row.outs = IF row.status = "sent" THEN 1 ELSE 0
<1>1. mails \in Seq(MailRow) /\ DOMAIN mails = 1 .. Len(mails) /\ Len(mails) \in Nat
  BY LenProperties DEF AlertsTypeOK
<1>2. \A m \in DOMAIN mails : mails[m] \in MailRow
  BY <1>1, ElementOfSeq
<1>3. CASE StartSend(ok)
  <2>1. PICK m \in drained : /\ drained' = drained \ {m} /\ sending' = m /\ sending = 0
                             /\ mails' = IF ok THEN [mails EXCEPT ![m].status = "sending", ![m].attempts = @ + 1] ELSE mails
                             /\ marred' = marred
    BY <1>3 DEF StartSend
  <2>2. m \in DOMAIN mails /\ mails[m].attempts < 3 /\ mails[m] \in MailRow /\ mails[m].status = "queued"
    BY <1>2, <2>1 DEF Draining, Queued
  <2>3. mails[m].attempts + 1 \in 0 .. 3
    BY <2>2 DEF MailRow
  <2> DEFINE row == IF ok THEN [mails[m] EXCEPT !.status = "sending", !.attempts = @ + 1] ELSE mails[m]
  <2>4. CASE ok
    <3>1. row \in MailRow /\ row.event = mails[m].event /\ row.kind = mails[m].kind /\ row.status = "sending" /\ row.outs = mails[m].outs
      BY <2>2, <2>3, <2>4 DEF MailRow
    <3>2. mails' = [mails EXCEPT ![m] = row]
      BY <2>1, <2>4
    <3> HIDE DEF row
    <3> QED
      BY <2>1, <2>2, <3>1, <3>2 DEF AlertsTypeOK
  <2>5. CASE ~ ok
    <3>1. mails' = [mails EXCEPT ![m] = mails[m]]
      BY <1>1, <2>1, <2>5
    <3> QED
      BY <2>1, <2>2, <3>1 DEF AlertsTypeOK
  <2> QED
    BY <2>4, <2>5
<1>4. CASE EndSend(ok)
  <2> DEFINE m == sending
  <2>1. sending # 0 /\ sending' = 0 /\ drained' = drained
    BY <1>4 DEF EndSend
  <2>2. m \in DOMAIN mails /\ mails[m] \in MailRow /\ mails[m].status \in {"queued", "sending"}
    BY <1>1, <1>2, <2>1 DEF AlertsTypeOK, Draining
  <2>3. PICK taken \in BOOLEAN : mails' = [mails EXCEPT ![m] = Ending(mails[m], taken, ok)]
    BY <1>4 DEF EndSend
  <2>4. marred' = IF ok THEN marred ELSE marred \cup Alarm(mails[m])
    BY <1>4 DEF EndSend
  <2> DEFINE row == Ending(mails[m], taken, ok)
  <2>5. /\ row \in MailRow /\ row.event = mails[m].event /\ row.kind = mails[m].kind /\ row.attempts = mails[m].attempts
        /\ row.outs = IF taken THEN mails[m].outs + 1 ELSE mails[m].outs
        /\ row.status = CASE ~ ok -> mails[m].status
                          [] ok /\ taken -> "sent"
                          [] OTHER -> IF mails[m].attempts >= 3 THEN "failed" ELSE "queued"
    BY <2>2, EndedRow
  <2>6. marred \subseteq marred' /\ marred' \subseteq DOMAIN events
    <3>1. Alarm(mails[m]) \subseteq DOMAIN events
      BY <2>2 DEF Alarm, AlertsTypeOK
    <3> QED
      BY <2>4, <3>1 DEF AlertsTypeOK
  <2>7. row.status = "queued" => row.attempts < 3
    <3>1. mails[m].attempts \in 0 .. 3 /\ (mails[m].status = "queued" => mails[m].attempts < 3)
      BY <2>2 DEF MailRow, Draining, Queued
    <3> HIDE DEF row, m
    <3> QED
      BY <2>5, <3>1
  <2>8. \/ Alarm(mails[m]) \subseteq marred'
        \/ /\ row.status \in {"sent", "failed", "queued"}
           /\ row.outs = IF row.status = "sent" THEN 1 ELSE 0
    <3>1. CASE ok
      <4>1. Honest(m) \/ Alarm(mails[m]) \subseteq marred'
        BY <2>2, <2>6 DEF RowsHonest
      <4>2. Honest(m) => mails[m].outs = 0
        BY <2>2 DEF Honest
      <4> HIDE DEF row, m
      <4> QED
        BY <2>5, <3>1, <4>1, <4>2
    <3>2. CASE ~ ok
      BY <2>4, <3>2
    <3> QED
      BY <3>1, <3>2
  <2> HIDE DEF row
  <2> QED
    BY <2>1, <2>2, <2>3, <2>5, <2>6, <2>7, <2>8 DEF row
<1> QED
  BY <1>3, <1>4

\* Nothing that only adds faults makes a row dishonest, or an event uncounted.
LEMMA HonestStays ==
  ASSUME RowsHonest, UNCHANGED <<mails, sending>>, marred \subseteq marred'
  PROVE  RowsHonest'
BY DEF RowsHonest, Honest, Alarm

LEMMA CountedStays ==
  ASSUME NEW e \in DOMAIN events, Counted(e), AlarmRows(e)' = AlarmRows(e), events'[e].rule = events[e].rule,
         marred \subseteq marred', mail = [event |-> e, kind |-> "alert_fired"] => mail' = mail \/ e \in marred'
  PROVE  Counted(e)'
BY DEF Counted

LEMMA AccountsFollow ==
  ASSUME AlertsInvariant
  PROVE  AlarmsAccounted
<1> SUFFICES ASSUME NEW e \in DOMAIN events PROVE Accounted(e)
  BY DEF AlarmsAccounted
<1>1. Counted(e) /\ RowsHonest
  BY DEF AlertsInvariant, AllCounted
<1>2. \A m \in AlarmRows(e) : m \in DOMAIN mails /\ Alarm(mails[m]) = {e}
  BY DEF AlarmRows, Alarm
<1>3. \A m \in AlarmRows(e) : Honest(m) \/ e \in marred
  BY <1>1, <1>2 DEF RowsHonest
<1> QED
  BY <1>1, <1>3 DEF Counted, Accounted

LEMMA MailStepPreserves ==
  ASSUME AlertsInvariant, DrainBatch \/ \E ok \in BOOLEAN : StartSend(ok) \/ EndSend(ok)
  PROVE  AlertsInvariant'
<1>1. AlertsTypeOK /\ Carried /\ Draining /\ AllCounted /\ RowsHonest
  BY DEF AlertsInvariant
<1>2. CASE DrainBatch
  <2>1. AlertsTypeOK'
    BY <1>1, <1>2 DEF DrainBatch, AlertsTypeOK, Queued
  <2>2. 0 \notin DOMAIN mails
    BY <1>1, LenProperties DEF AlertsTypeOK
  <2>3. Draining'
    BY <1>1, <1>2, <2>2 DEF DrainBatch, Draining, Queued
  <2>4. Carried' /\ AllCounted'
    BY <1>1, <1>2 DEF DrainBatch, Carried, AllCounted, Counted, AlarmRows
  <2>5. RowsHonest'
    BY <1>1, <1>2, HonestStays DEF DrainBatch
  <2> QED
    BY <2>1, <2>3, <2>4, <2>5 DEF AlertsInvariant
<1>3. CASE \E ok \in BOOLEAN : StartSend(ok) \/ EndSend(ok)
  <2>1. PICK m \in DOMAIN mails, row \in MailRow :
           /\ mails' = [mails EXCEPT ![m] = row]
           /\ row.event = mails[m].event /\ row.kind = mails[m].kind
           /\ row.status = "queued" => row.attempts < 3
           /\ marred \subseteq marred' /\ marred' \subseteq DOMAIN events
           /\ \/ /\ m \in drained /\ drained' = drained \ {m} /\ sending = 0 /\ sending' = m
                 /\ row.status \in {"queued", "sending"} /\ row.outs = mails[m].outs
              \/ /\ sending = m /\ sending' = 0 /\ drained' = drained
                 /\ \/ Alarm(mails[m]) \subseteq marred'
                    \/ /\ row.status \in {"sent", "failed", "queued"}
                       /\ row.outs = IF row.status = "sent" THEN 1 ELSE 0
    BY <1>1, <1>3, SentRow
  <2>2. /\ mails' \in Seq(MailRow) /\ Len(mails') = Len(mails) /\ DOMAIN mails' = DOMAIN mails
        /\ \A k \in DOMAIN mails : mails'[k] = IF k = m THEN row ELSE mails[k]
        /\ \A k \in DOMAIN mails : mails'[k].event = mails[k].event /\ mails'[k].kind = mails[k].kind
    BY <1>1, <2>1, RowChanged
  <2>3. UNCHANGED <<rules, cache, counters, todo, events, mail>>
    BY <1>3 DEF StartSend, EndSend
  <2>4. DOMAIN mails = 1 .. Len(mails) /\ Len(mails) \in Nat
    BY <1>1, LenProperties DEF AlertsTypeOK
  <2>5. AlertsTypeOK'
    <3>1. drained' \subseteq DOMAIN mails' /\ sending' \in 0 .. Len(mails')
      BY <1>1, <2>1, <2>2, <2>4 DEF AlertsTypeOK
    <3>2. \A k \in DOMAIN mails' : mails'[k].event \in DOMAIN events'
      BY <1>1, <2>2, <2>3 DEF AlertsTypeOK
    <3> QED
      BY <1>1, <2>1, <2>2, <2>3, <3>1, <3>2 DEF AlertsTypeOK
  <2>6. \A e : AlarmRows(e)' = AlarmRows(e)
    BY <2>2 DEF AlarmRows
  <2>7. Carried'
    BY <1>1, <2>3, <2>6 DEF Carried
  <2>8. Draining'
    <3>1. drained \subseteq Queued /\ sending \notin drained /\ \A k \in Queued : mails[k].attempts < 3
      BY <1>1 DEF Draining
    <3>2. m \notin drained' /\ drained' \subseteq drained
      BY <2>1, <3>1
    <3>3. drained' \subseteq Queued'
      BY <2>2, <3>1, <3>2 DEF Queued
    <3>4. 0 \notin drained
      BY <2>4, <3>1 DEF Queued
    <3>5. sending' \notin drained'
      BY <2>1, <3>2, <3>4
    <3>6. sending' # 0 => mails'[sending'].status \in {"queued", "sending"}
      BY <2>1, <2>2
    <3>7. \A k \in Queued' : mails'[k].attempts < 3
      BY <2>1, <2>2, <3>1 DEF Queued
    <3> QED
      BY <3>3, <3>5, <3>6, <3>7 DEF Draining
  <2>9. AllCounted'
    <3>1. SUFFICES ASSUME NEW e \in DOMAIN events PROVE Counted(e)'
      BY <2>3 DEF AllCounted
    <3>2. Counted(e)
      BY <1>1 DEF AllCounted
    <3> QED
      BY <2>1, <2>3, <2>6, <3>2, CountedStays
  <2>10. RowsHonest'
    <3>1. SUFFICES ASSUME NEW k \in DOMAIN mails PROVE (Honest(k) \/ Alarm(mails[k]) \subseteq marred)'
      BY <2>2 DEF RowsHonest
    <3>2. Alarm(mails'[k]) = Alarm(mails[k]) /\ k # 0
      <4>1. mails'[k].event = mails[k].event /\ mails'[k].kind = mails[k].kind
        BY <2>2
      <4>2. k # 0
        BY <2>4
      <4> QED
        BY <4>1, <4>2 DEF Alarm
    <3>3. Honest(k) \/ Alarm(mails[k]) \subseteq marred
      BY <1>1 DEF RowsHonest
    <3>4. CASE k # m
      BY <2>1, <2>2, <3>2, <3>3, <3>4 DEF Honest
    <3>5. CASE k = m
      <4>1. mails'[m] = row
        BY <2>2
      <4>2. CASE sending' = m
        <5>1. mails[m].status = "queued" /\ row.outs = mails[m].outs /\ row.status \in {"queued", "sending"}
          BY <1>1, <2>1, <3>2, <3>5, <4>2 DEF Draining, Queued
        <5> QED
          BY <2>1, <3>2, <3>3, <3>5, <4>1, <4>2, <5>1 DEF Honest
      <4>3. CASE sending' # m
        BY <2>1, <3>2, <3>5, <4>1, <4>3 DEF Honest
      <4> QED
        BY <4>2, <4>3
    <3> QED
      BY <3>4, <3>5
  <2> QED
    BY <2>5, <2>7, <2>8, <2>9, <2>10 DEF AlertsInvariant
<1> QED
  BY <1>2, <1>3

LEMMA AlertsInvariantStutters ==
  ASSUME AlertsInvariant, UNCHANGED alertsVars
  PROVE  AlertsInvariant'
<1>1. AlertsTypeOK'
  BY AlertsStutters DEF AlertsInvariant
<1>2. Carried' /\ Draining'
  BY DEF AlertsInvariant, Carried, Draining, Queued, AlarmRows, alertsVars, memory
<1>3. AllCounted'
  BY DEF AlertsInvariant, AllCounted, Counted, AlarmRows, alertsVars, memory
<1>4. RowsHonest'
  BY HonestStays DEF AlertsInvariant, alertsVars, memory
<1> QED
  BY <1>1, <1>2, <1>3, <1>4 DEF AlertsInvariant

LEMMA RulesPreserve ==
  ASSUME AlertsInvariant, ToggleRule \/ GetRules
  PROVE  AlertsInvariant'
<1>1. AlertsTypeOK /\ Carried /\ Draining /\ AllCounted /\ RowsHonest /\ AlertsTypeOK'
  BY RulesTypes DEF AlertsInvariant
<1>2. UNCHANGED <<counters, events, mail, mails, drained, sending, marred>>
  BY DEF ToggleRule, GetRules, memory
<1>3. Draining' /\ AllCounted' /\ \A e : AlarmRows(e)' = AlarmRows(e)
  BY <1>1, <1>2 DEF Draining, Queued, AllCounted, Counted, AlarmRows
<1>4. Carried'
  <2>1. CASE ToggleRule
    <3>1. PICK i \in RuleId : rules' = [rules EXCEPT ![i].enabled = ~ @]
      BY <2>1 DEF ToggleRule
    <3>2. rules \in [RuleId -> Rule]
      BY <1>1 DEF AlertsTypeOK
    <3>3. \A j \in RuleId : rules'[j].id = rules[j].id /\ rules'[j].notify = rules[j].notify
      BY <3>1, <3>2 DEF Rule
    <3>4. UNCHANGED <<cache, todo>>
      BY <2>1 DEF ToggleRule, memory
    <3> QED
      BY <1>1, <1>2, <1>3, <3>3, <3>4 DEF Carried
  <2>2. CASE GetRules
    <3>1. \A r \in Enabled : r.notify = RuleRows[r.id].notify
      BY <1>1 DEF Enabled, Carried
    <3> QED
      BY <1>1, <1>2, <1>3, <2>2, <3>1 DEF GetRules, Carried
  <2> QED
    BY <2>1, <2>2
<1>5. RowsHonest'
  BY <1>1, <1>2, HonestStays
<1> QED
  BY <1>1, <1>3, <1>4, <1>5 DEF AlertsInvariant

LEMMA AlertsLostPreserves ==
  ASSUME AlertsInvariant, AlertsLost
  PROVE  AlertsInvariant'
<1>1. AlertsTypeOK /\ Carried /\ Draining /\ AllCounted /\ RowsHonest /\ AlertsTypeOK'
  BY AlertsLostTypes DEF AlertsInvariant
<1>2. UNCHANGED <<rules, events, mails>> /\ drained' = {} /\ sending' = 0 /\ cache' = {} /\ todo' = {} /\ mail' = NoMail
  BY DEF AlertsLost
<1>3. Carried' /\ Draining'
  BY <1>1, <1>2 DEF Carried, Draining, Queued, NoMail
<1>4. marred \subseteq marred'
  BY DEF AlertsLost
<1>5. ASSUME NEW e \in DOMAIN events PROVE Counted(e)'
  <2>1. Counted(e) /\ AlarmRows(e)' = AlarmRows(e)
    BY <1>1, <1>2 DEF AllCounted, AlarmRows
  <2>2. mail = [event |-> e, kind |-> "alert_fired"] => e \in marred'
    BY DEF AlertsLost, Alarm
  <2> QED
    BY <1>2, <1>4, <2>1, <2>2, CountedStays
<1>6. ASSUME NEW m \in DOMAIN mails PROVE (Honest(m) \/ Alarm(mails[m]) \subseteq marred)'
  <2>1. m # 0
    BY <1>1, LenProperties DEF AlertsTypeOK
  <2>2. sending = m => Alarm(mails[m]) \subseteq marred'
    BY <2>1 DEF AlertsLost
  <2>3. Alarm(mails'[m]) = Alarm(mails[m])
    BY <1>2
  <2>4. Honest(m) \/ Alarm(mails[m]) \subseteq marred
    BY <1>1 DEF RowsHonest
  <2> QED
    BY <1>2, <1>4, <2>2, <2>3, <2>4 DEF Honest
<1> QED
  BY <1>1, <1>2, <1>3, <1>5, <1>6 DEF AlertsInvariant, AllCounted, RowsHonest

\* An event that keeps its rule and is not the one whose mail is begun stays counted.
LEMMA OthersCounted ==
  ASSUME AlertsInvariant, NEW e \in DOMAIN events, mail = NoMail,
         events'[e].rule = events[e].rule, mails' = mails, marred \subseteq marred'
  PROVE  Counted(e)'
<1>1. Counted(e) /\ AlarmRows(e)' = AlarmRows(e)
  BY DEF AlertsInvariant, AllCounted, AlarmRows
<1>2. mail # [event |-> e, kind |-> "alert_fired"]
  BY DEF NoMail
<1> QED
  BY <1>1, <1>2, CountedStays

LEMMA EvaluatePreserves ==
  ASSUME AlertsInvariant, NEW d \in Device, NEW enriched, NEW outcome, EvaluateRule(d, enriched, outcome)
  PROVE  AlertsInvariant'
<1>1. AlertsTypeOK /\ Carried /\ Draining /\ AllCounted /\ RowsHonest /\ AlertsTypeOK' /\ marred \subseteq marred'
  BY EvaluateTypes DEF AlertsInvariant
<1>2. PICK r \in todo : \/ \E replied \in BOOLEAN : Fire(r, d, replied) \/ Resolve(r, d, replied)
                        \/ UNCHANGED <<events, mail, marred>>
  BY EvaluateCases
<1>3. UNCHANGED <<rules, cache, mails, drained, sending>> /\ todo' \subseteq todo /\ mail = NoMail
  BY DEF EvaluateRule
<1>4. Draining' /\ RowsHonest' /\ \A e : AlarmRows(e)' = AlarmRows(e)
  <2>1. RowsHonest'
    BY <1>1, <1>3, HonestStays
  <2> QED
    BY <1>1, <1>3, <2>1 DEF Draining, Queued, AlarmRows
<1>5. events \in Seq(Event) /\ DOMAIN events = 1 .. Len(events) /\ Len(events) \in Nat
  BY <1>1, LenProperties DEF AlertsTypeOK
<1>6. r \in Rule /\ r.id \in RuleId /\ r.notify = RuleRows[r.id].notify /\ r.notify \in BOOLEAN
  BY <1>1 DEF AlertsTypeOK, Carried, Rule
<1>7. /\ \A k \in RuleId : rules'[k].id = k /\ rules'[k].notify = RuleRows[k].notify
      /\ \A q \in cache' \cup todo' : q.notify = RuleRows[q.id].notify
  BY <1>1, <1>3 DEF Carried
<1>8. CASE UNCHANGED <<events, mail, marred>>
  <2>1. Carried' /\ AllCounted'
    BY <1>1, <1>3, <1>4, <1>7, <1>8 DEF Carried, AllCounted, Counted
  <2> QED
    BY <1>1, <1>4, <2>1 DEF AlertsInvariant
<1>9. ASSUME NEW replied \in BOOLEAN, Firing(r, d) = {}, Fire(r, d, replied) PROVE AlertsInvariant'
  <2> DEFINE row == [rule |-> r.id, device |-> d, status |-> "firing"]
  <2>0. PICK n \in Nat : n = Len(events) + 1
    BY <1>5
  <2>1. /\ events' = Append(events, row)
        /\ \/ Mail(r, Len(events'), "alert_fired")
           \/ mail' = NoMail /\ marred' = marred \cup {Len(events')}
    BY <1>9 DEF Fire
  <2>2. row \in Event /\ row.rule = r.id
    BY <1>6 DEF Event
  <2> HIDE DEF row
  <2>3. Len(events') = n /\ DOMAIN events' = 1 .. n /\ events'[n] = row /\ \A e \in DOMAIN events : events'[e] = events[e]
    BY <1>5, <2>0, <2>1, <2>2, AppendProperties
  <2>4. AlarmRows(n) = {}
    BY <1>1, <1>5, <2>0 DEF AlarmRows, AlertsTypeOK
  <2>5. \/ mail' = IF r.notify THEN [event |-> n, kind |-> "alert_fired"] ELSE NoMail
        \/ mail' = NoMail /\ n \in marred'
    BY <2>1, <2>3 DEF Mail
  <2>6. RuleRows[events'[n].rule].notify = r.notify
    BY <1>6, <2>2, <2>3
  <2>7. Counted(n)'
    <3>1. AlarmRows(n)' = {}
      BY <1>4, <2>4
    <3>2. CASE r.notify
      BY <2>5, <2>6, <3>1, <3>2 DEF Counted
    <3>3. CASE ~ r.notify
      BY <2>6, <3>1, <3>3 DEF Counted
    <3> QED
      BY <3>2, <3>3
  <2>8. AllCounted'
    <3>1. SUFFICES ASSUME NEW e \in 1 .. n PROVE Counted(e)'
      BY <2>3 DEF AllCounted
    <3>2. CASE e \in DOMAIN events
      BY <1>1, <1>3, <2>3, <3>2, OthersCounted
    <3>3. CASE e = n
      BY <2>7, <3>3
    <3> QED
      BY <1>5, <2>0, <3>2, <3>3
  <2>9. Carried'
    BY <1>4, <1>7, <2>4, <2>5, <2>6 DEF Carried, NoMail
  <2> QED
    BY <1>1, <1>4, <2>8, <2>9 DEF AlertsInvariant
<1>10. ASSUME NEW replied \in BOOLEAN, Firing(r, d) # {}, Resolve(r, d, replied) PROVE AlertsInvariant'
  <2>1. PICK e \in Firing(r, d) : /\ events' = [events EXCEPT ![e].status = "resolved"]
                                  /\ Mail(r, e, "alert_resolved") \/ mail' = NoMail
    BY <1>10 DEF Resolve
  <2>2. e \in DOMAIN events /\ \A k \in DOMAIN events : events[k] \in Event
    BY <1>5, <2>1, ElementOfSeq DEF Firing
  <2>3. DOMAIN events' = DOMAIN events /\ \A k \in DOMAIN events : events'[k].rule = events[k].rule
    BY <2>1, <2>2 DEF Event
  <2>4. mail'.kind # "alert_fired"
    BY <2>1 DEF Mail, NoMail
  <2>5. AllCounted'
    BY <1>1, <1>3, <2>3, OthersCounted DEF AllCounted
  <2>6. Carried'
    BY <1>7, <2>4 DEF Carried
  <2> QED
    BY <1>1, <1>4, <2>5, <2>6 DEF AlertsInvariant
<1>11. ASSUME NEW replied \in BOOLEAN, Fire(r, d, replied) \/ Resolve(r, d, replied) PROVE AlertsInvariant'
  BY <1>8, <1>9, <1>10, <1>11 DEF Fire, Resolve
<1> QED
  BY <1>2, <1>8, <1>11

LEMMA EnqueuePreserves ==
  ASSUME AlertsInvariant, NEW broken, Enqueue(broken)
  PROVE  AlertsInvariant'
<1>1. AlertsTypeOK /\ Carried /\ Draining /\ AllCounted /\ RowsHonest /\ AlertsTypeOK'
  BY EnqueueTypes DEF AlertsInvariant
<1>2. UNCHANGED <<rules, cache, todo, events, drained, sending>> /\ mail' = NoMail /\ mail # NoMail
  BY DEF Enqueue
<1>3. Carried'
  BY <1>1, <1>2 DEF Carried, NoMail
<1>4. mail \in [event : DOMAIN events, kind : Kind] /\ mails \in Seq(MailRow) /\ DOMAIN mails = 1 .. Len(mails) /\ Len(mails) \in Nat
  BY <1>1, <1>2, LenProperties DEF AlertsTypeOK
<1>5. CASE broken
  <2>1. marred' = marred \cup Alarm(mail) /\ mails' = mails
    BY <1>5 DEF Enqueue
  <2>2. Draining' /\ \A e : AlarmRows(e)' = AlarmRows(e)
    BY <1>1, <1>2, <2>1 DEF Draining, Queued, AlarmRows
  <2>3. ASSUME NEW e \in DOMAIN events PROVE Counted(e)'
    <3>1. Counted(e)
      BY <1>1 DEF AllCounted
    <3>2. mail = [event |-> e, kind |-> "alert_fired"] => e \in marred'
      BY <2>1 DEF Alarm
    <3> QED
      BY <1>2, <2>1, <2>2, <3>1, <3>2, CountedStays
  <2>4. RowsHonest'
    BY <1>1, <1>2, <2>1, HonestStays
  <2> QED
    BY <1>1, <1>2, <1>3, <2>2, <2>3, <2>4 DEF AlertsInvariant, AllCounted
<1>6. CASE ~ broken
  <2> DEFINE row == [event |-> mail.event, kind |-> mail.kind, status |-> "queued", attempts |-> 0, outs |-> 0]
             n == Len(mails')
  <2>1. mails' = Append(mails, row) /\ marred' = marred
    BY <1>6 DEF Enqueue
  <2>2. row \in MailRow /\ row.event = mail.event /\ row.kind = mail.kind /\ row.status = "queued" /\ row.attempts = 0 /\ row.outs = 0
    <3>1. mail.event \in Nat
      BY <1>1, <1>4, LenProperties DEF AlertsTypeOK
    <3> QED
      BY <1>4, <3>1 DEF MailRow
  <2> HIDE DEF row
  <2>3. n = Len(mails) + 1 /\ DOMAIN mails' = 1 .. n /\ mails'[n] = row /\ \A m \in DOMAIN mails : mails'[m] = mails[m]
    BY <1>4, <2>1, <2>2, AppendProperties
  <2>4. n \notin DOMAIN mails /\ \A m : m \in DOMAIN mails' <=> m \in DOMAIN mails \/ m = n
    BY <1>4, <2>3
  <2>5. Draining'
    <3>1. Queued' = Queued \cup {n}
      BY <2>2, <2>3, <2>4 DEF Queued
    <3>2. sending # 0 => sending \in DOMAIN mails
      BY <1>1, <1>4 DEF AlertsTypeOK
    <3>3. \A m \in Queued : m \in DOMAIN mails
      BY DEF Queued
    <3> QED
      BY <1>1, <1>2, <2>2, <2>3, <3>1, <3>2, <3>3 DEF Draining
  <2>6. ASSUME NEW e \in DOMAIN events PROVE Counted(e)'
    <3>1. Counted(e)
      BY <1>1 DEF AllCounted
    <3>2. CASE mail.event = e /\ mail.kind = "alert_fired"
      <4>1. AlarmRows(e) = {} /\ RuleRows[events[e].rule].notify
        BY <1>1, <3>2 DEF Carried
      <4>2. AlarmRows(e)' = {n}
        BY <2>2, <2>3, <2>4, <3>2, <4>1 DEF AlarmRows
      <4> QED
        BY <1>2, <4>1, <4>2 DEF Counted
    <3>3. CASE ~ (mail.event = e /\ mail.kind = "alert_fired")
      <4>1. AlarmRows(e)' = AlarmRows(e)
        BY <2>2, <2>3, <2>4, <3>3 DEF AlarmRows
      <4>2. mail # [event |-> e, kind |-> "alert_fired"]
        BY <3>3
      <4> QED
        BY <1>2, <2>1, <3>1, <4>1, <4>2, CountedStays
    <3> QED
      BY <3>2, <3>3
  <2>7. ASSUME NEW m \in DOMAIN mails' PROVE (Honest(m) \/ Alarm(mails[m]) \subseteq marred)'
    <3>1. CASE m = n
      BY <2>2, <2>3, <3>1 DEF Honest
    <3>2. CASE m \in DOMAIN mails
      BY <1>1, <1>2, <2>1, <2>3, <3>2 DEF RowsHonest, Honest, Alarm
    <3> QED
      BY <2>4, <3>1, <3>2
  <2> QED
    BY <1>1, <1>2, <1>3, <2>5, <2>6, <2>7 DEF AlertsInvariant, AllCounted, RowsHonest
<1> QED
  BY <1>5, <1>6

-----------------------------------------------------------------------------
(* The way of a message.                                                    *)

LEMMA Moved ==
  ASSUME NEW old, NEW new, Apart(old), NEW p \in Place, NEW q \in Place, NEW id \in old[p],
         new[p] \subseteq old[p] \ {id}, new[q] \subseteq old[q] \cup {id},
         \A r \in Place \ {p, q} : new[r] \subseteq old[r]
  PROVE  Apart(new)
BY DEF Apart

LEMMA NoneAdded ==
  ASSUME NEW old, NEW new, Apart(old), \A r \in Place : new[r] \subseteq old[r]
  PROVE  Apart(new)
BY DEF Apart

LEMMA Places ==
  /\ \A f \in Flusher : In[f] = Range(flush[f].batch) /\ f \in Place
  /\ In["ahead"] = published + 1 .. MaxFrame /\ In["wire"] = Ids(wire)
  /\ In["hand"] = (IF step = "write" THEN {msg.id} ELSE {}) /\ In["buf"] = Range(buf)
  /\ In["stored"] = {f \in Frame : stored[f] > 0} /\ In["refused"] = refused
  /\ {"ahead", "wire", "hand", "buf", "stored", "refused"} \cap Flusher = {}
BY DEF In, Place, Flusher

\* The same, of the next state.
LEMMA NextPlaces ==
  /\ \A f \in Flusher : In'[f] = Range(flush'[f].batch)
  /\ In'["ahead"] = published' + 1 .. MaxFrame /\ In'["wire"] = Ids(wire')
  /\ In'["hand"] = (IF step' = "write" THEN {msg'.id} ELSE {}) /\ In'["buf"] = Range(buf')
  /\ In'["stored"] = {f \in Frame : stored'[f] > 0} /\ In'["refused"] = refused'
BY DEF In, Place, Flusher

LEMMA RowAdded ==
  ASSUME NEW s \in Seq(Frame), NEW e \in Frame, IsInjective(s), e \notin Range(s)
  PROVE  IsInjective(Append(s, e)) /\ Range(Append(s, e)) = Range(s) \cup {e}
<1> DEFINE t == Append(s, e)
           n == Len(s) + 1
<1>1. DOMAIN s = 1 .. Len(s) /\ Len(s) \in Nat
  BY LenProperties
<1>2. DOMAIN t = 1 .. n /\ t[n] = e /\ \A i \in 1 .. Len(s) : t[i] = s[i]
  <2>1. t \in Seq(Frame) /\ Len(t) = n /\ t[n] = e /\ \A i \in 1 .. Len(s) : t[i] = s[i]
    BY AppendProperties
  <2> QED
    BY <2>1, LenProperties
<1>3. \A i \in DOMAIN t : i = n \/ i \in DOMAIN s
  BY <1>1, <1>2
<1>4. n \in DOMAIN t /\ n \notin DOMAIN s /\ DOMAIN s \subseteq DOMAIN t
  BY <1>1, <1>2
<1> HIDE DEF t, n
<1>5. IsInjective(t)
  BY <1>1, <1>2, <1>3, <1>4 DEF IsInjective, Range
<1>6. Range(t) = Range(s) \cup {e}
  BY <1>1, <1>2, <1>3, <1>4 DEF Range
<1> QED
  BY <1>5, <1>6 DEF t

LEMMA RowTaken ==
  ASSUME NEW s \in Seq(Frame), s # << >>, IsInjective(s)
  PROVE  /\ Head(s) \in Range(s) /\ IsInjective(Tail(s))
         /\ Range(Tail(s)) = Range(s) \ {Head(s)}
<1> DEFINE t == Tail(s)
           h == Head(s)
<1>1. DOMAIN s = 1 .. Len(s) /\ Len(s) \in Nat \ {0} /\ h = s[1]
  BY LenProperties, EmptySeq
<1>2. DOMAIN t = 1 .. Len(s) - 1 /\ \A i \in 1 .. Len(s) - 1 : t[i] = s[i + 1]
  <2>1. t \in Seq(Frame) /\ Len(t) = Len(s) - 1 /\ \A i \in 1 .. Len(t) : t[i] = s[i + 1]
    BY HeadTailProperties
  <2> QED
    BY <2>1, LenProperties
<1> HIDE DEF t, h
<1>3. \A i \in DOMAIN t : i + 1 \in DOMAIN s /\ i + 1 # 1 /\ t[i] = s[i + 1]
  BY <1>1, <1>2
<1>4. \A i \in DOMAIN s : i = 1 \/ (i - 1 \in DOMAIN t /\ t[i - 1] = s[i])
  BY <1>1, <1>2
<1>5. IsInjective(t)
  <2> SUFFICES ASSUME NEW i \in DOMAIN t, NEW j \in DOMAIN t, t[i] = t[j] PROVE i = j
    BY DEF IsInjective
  <2>1. i + 1 = j + 1
    BY <1>3 DEF IsInjective
  <2> QED
    BY <1>1, <1>2, <2>1
<1>6. 1 \in DOMAIN s
  BY <1>1
<1>7. \A i \in DOMAIN t : t[i] # h
  BY <1>1, <1>3, <1>6 DEF IsInjective
<1>8. Range(t) = Range(s) \ {h}
  BY <1>1, <1>3, <1>4, <1>7 DEF Range
<1> QED
  BY <1>1, <1>5, <1>6, <1>8 DEF t, h, Range

LEMMA MessageAdded ==
  ASSUME NEW w \in Seq(Message), NEW m \in Message, IdsDiffer(w), m.id \notin Ids(w)
  PROVE  IdsDiffer(Append(w, m)) /\ Ids(Append(w, m)) = Ids(w) \cup {m.id}
<1> DEFINE t == Append(w, m)
           n == Len(w) + 1
<1>1. DOMAIN w = 1 .. Len(w) /\ Len(w) \in Nat
  BY LenProperties
<1>2. DOMAIN t = 1 .. n /\ t[n] = m /\ \A i \in 1 .. Len(w) : t[i] = w[i]
  <2>1. t \in Seq(Message) /\ Len(t) = n /\ t[n] = m /\ \A i \in 1 .. Len(w) : t[i] = w[i]
    BY AppendProperties
  <2> QED
    BY <2>1, LenProperties
<1>3. \A i \in DOMAIN t : i = n \/ i \in DOMAIN w
  BY <1>1, <1>2
<1>4. n \in DOMAIN t /\ n \notin DOMAIN w /\ DOMAIN w \subseteq DOMAIN t
  BY <1>1, <1>2
<1> HIDE DEF t, n
<1>5. IdsDiffer(t)
  BY <1>1, <1>2, <1>3, <1>4 DEF IdsDiffer, Ids
<1>6. Ids(t) = Ids(w) \cup {m.id}
  BY <1>1, <1>2, <1>3, <1>4 DEF Ids
<1> QED
  BY <1>5, <1>6 DEF t

LEMMA MessageTaken ==
  ASSUME NEW w \in Seq(Message), w # << >>, IdsDiffer(w)
  PROVE  /\ Head(w).id \in Ids(w) /\ IdsDiffer(Tail(w))
         /\ Ids(Tail(w)) = Ids(w) \ {Head(w).id}
<1> DEFINE t == Tail(w)
           h == Head(w)
<1>1. DOMAIN w = 1 .. Len(w) /\ Len(w) \in Nat \ {0} /\ h = w[1]
  BY LenProperties, EmptySeq
<1>2. DOMAIN t = 1 .. Len(w) - 1 /\ \A i \in 1 .. Len(w) - 1 : t[i] = w[i + 1]
  <2>1. t \in Seq(Message) /\ Len(t) = Len(w) - 1 /\ \A i \in 1 .. Len(t) : t[i] = w[i + 1]
    BY HeadTailProperties
  <2> QED
    BY <2>1, LenProperties
<1> HIDE DEF t, h
<1>3. \A i \in DOMAIN t : i + 1 \in DOMAIN w /\ i + 1 # 1 /\ t[i] = w[i + 1]
  BY <1>1, <1>2
<1>4. \A i \in DOMAIN w : i = 1 \/ (i - 1 \in DOMAIN t /\ t[i - 1] = w[i])
  BY <1>1, <1>2
<1>5. IdsDiffer(t)
  <2> SUFFICES ASSUME NEW i \in DOMAIN t, NEW j \in DOMAIN t, t[i].id = t[j].id PROVE i = j
    BY DEF IdsDiffer
  <2>1. i + 1 = j + 1
    BY <1>3 DEF IdsDiffer
  <2> QED
    BY <1>1, <1>2, <2>1
<1>6. 1 \in DOMAIN w
  BY <1>1
<1>7. \A i \in DOMAIN t : t[i].id # h.id
  BY <1>1, <1>3, <1>6 DEF IdsDiffer
<1>8. Ids(t) = Ids(w) \ {h.id}
  BY <1>1, <1>3, <1>4, <1>7 DEF Ids
<1> QED
  BY <1>1, <1>5, <1>6, <1>8 DEF t, h, Ids

LEMMA DeliveryStutters ==
  ASSUME DeliveryInvariant, UNCHANGED <<published, wire, step, msg, buf, flush, stored, refused>>
  PROVE  DeliveryInvariant'
<1>1. \A p \in Place : In'[p] \subseteq In[p]
  BY Places, NextPlaces DEF Place
<1> QED
  BY <1>1, NoneAdded DEF DeliveryInvariant

LEMMA PublishDelivers ==
  ASSUME IngestTypeOK, published \in 0 .. MaxFrame, DeliveryInvariant, published < MaxFrame, published' = published + 1,
         NEW m \in Message, m.id = published + 1, ToWorker(m), UNCHANGED <<step, msg, buf, flush, stored, refused>>
  PROVE  DeliveryInvariant'
<1> DEFINE id == published + 1
<1>1. MaxFrame \in Nat
  BY IngestAssumption
<1>2. id \in In["ahead"] /\ In'["ahead"] = In["ahead"] \ {id}
  BY <1>1, Places, NextPlaces
<1>3. id \notin In["wire"]
  BY <1>2 DEF DeliveryInvariant, Apart, Place
<1>4. IdsDiffer(wire') /\ In'["wire"] \subseteq In["wire"] \cup {id}
  <2>1. wire \in Seq(Message) /\ IdsDiffer(wire) /\ m.id \notin Ids(wire)
    BY <1>3, Places DEF IngestTypeOK, DeliveryInvariant
  <2>2. CASE wire' = wire
    BY <2>1, <2>2, Places, NextPlaces
  <2>3. CASE wire' = Append(wire, m)
    BY <2>1, <2>3, MessageAdded, Places, NextPlaces
  <2> QED
    BY <2>2, <2>3 DEF ToWorker
<1>5. \A p \in Place \ {"ahead", "wire"} : In'[p] \subseteq In[p]
  BY Places, NextPlaces DEF Place
<1>6. Apart(In')
  <2> HIDE DEF id
  <2>1. Apart(In) /\ "ahead" \in Place /\ "wire" \in Place
    BY DEF DeliveryInvariant, Place
  <2> QED
    BY <1>2, <1>4, <1>5, <2>1, Moved
<1> QED
  BY <1>4, <1>6 DEF DeliveryInvariant

LEMMA HandlerDelivers ==
  ASSUME IngestTypeOK, DeliveryInvariant, Handle \/ WriteRow \/ Republish, published' = published
  PROVE  DeliveryInvariant'
<1>1. /\ Apart(In) /\ IdsDiffer(wire) /\ IsInjective(buf) /\ \A f \in Flusher : IsInjective(flush[f].batch)
      /\ \A f \in Frame : stored[f] =< 1
  BY DEF DeliveryInvariant
<1>2. CASE Handle
  <2> DEFINE id == Head(wire).id
  <2>1. wire \in Seq(Message) /\ wire # << >> /\ wire' = Tail(wire) /\ step = "idle"
    BY <1>2 DEF Handle, IngestTypeOK
  <2>2. id \in Ids(wire) /\ IdsDiffer(wire') /\ Ids(wire') = Ids(wire) \ {id}
    BY <1>1, <2>1, MessageTaken
  <2>3. UNCHANGED <<buf, flush, stored, refused>> /\ (step' = "write" => msg' = Head(wire))
    BY <1>2 DEF Handle
  <2>4. id \in In["wire"] /\ In'["wire"] = In["wire"] \ {id} /\ In'["hand"] \subseteq In["hand"] \cup {id}
    BY <2>2, <2>3, Places, NextPlaces
  <2>5. \A p \in Place \ {"wire", "hand"} : In'[p] \subseteq In[p]
    BY <2>3, Places, NextPlaces DEF Place
  <2>6. Apart(In')
    <3> HIDE DEF id
    <3>1. "wire" \in Place /\ "hand" \in Place
      BY DEF Place
    <3> QED
      BY <1>1, <2>4, <2>5, <3>1, Moved
  <2> QED
    BY <1>1, <2>2, <2>3, <2>6 DEF DeliveryInvariant
<1>3. CASE WriteRow
  <2> DEFINE id == msg.id
  <2>1. step = "write" /\ step' = "publish" /\ buf' \in {buf, Append(buf, id)}
        /\ UNCHANGED <<wire, msg, flush, stored, refused>>
    BY <1>3 DEF WriteRow
  <2>2. id \in Frame /\ buf \in Seq(Frame)
    BY <2>1 DEF IngestTypeOK, Message
  <2>3. id \in In["hand"] /\ In'["hand"] = {}
    BY <2>1, Places, NextPlaces
  <2>4. id \notin In["buf"]
    BY <1>1, <2>3 DEF Apart, Place
  <2>5. IsInjective(buf') /\ In'["buf"] \subseteq In["buf"] \cup {id}
    <3>1. CASE buf' = buf
      BY <1>1, <3>1, Places, NextPlaces
    <3>2. CASE buf' = Append(buf, id)
      <4>1. id \notin Range(buf)
        BY <2>4, Places
      <4> QED
        BY <1>1, <2>2, <3>2, <4>1, RowAdded, Places, NextPlaces
    <3> QED
      BY <2>1, <3>1, <3>2
  <2>6. \A p \in Place \ {"hand", "buf"} : In'[p] \subseteq In[p]
    BY <2>1, Places, NextPlaces DEF Place
  <2>7. Apart(In')
    <3> HIDE DEF id
    <3>1. "hand" \in Place /\ "buf" \in Place /\ In'["hand"] \subseteq In["hand"] \ {id}
      BY <2>3 DEF Place
    <3> QED
      BY <1>1, <2>3, <2>5, <2>6, <3>1, Moved
  <2> QED
    BY <1>1, <2>1, <2>5, <2>7 DEF DeliveryInvariant
<1>4. CASE Republish
  <2>1. step = "publish" /\ step' = "idle" /\ UNCHANGED <<wire, buf, flush, stored, refused>>
    BY <1>4 DEF Republish
  <2>2. \A p \in Place : In'[p] \subseteq In[p]
    BY <2>1, Places, NextPlaces DEF Place
  <2> QED
    BY <1>1, <2>1, <2>2, NoneAdded DEF DeliveryInvariant
<1> QED
  BY <1>2, <1>3, <1>4

LEMMA GoneDelivers ==
  ASSUME IngestTypeOK, DeliveryInvariant, Gone, published' = published
  PROVE  DeliveryInvariant'
<1>1. wire' = << >> /\ step' = "idle" /\ buf' = << >> /\ flush' = AtRest /\ UNCHANGED <<stored, refused>>
  BY DEF Gone
<1>2. \A f \in Flusher : flush'[f].batch = << >>
  BY <1>1 DEF AtRest
<1>3. Range(<< >>) = {} /\ Ids(<< >>) = {} /\ IsInjective(<< >>) /\ IdsDiffer(<< >>)
  BY DEF Range, Ids, IsInjective, IdsDiffer
<1>4. \A p \in Place : In'[p] \subseteq In[p]
  BY <1>1, <1>2, <1>3, Places, NextPlaces DEF Place
<1> QED
  BY <1>1, <1>2, <1>3, <1>4, NoneAdded DEF DeliveryInvariant

\* A step of a caller of Flush() that leaves its batch or forgets it.
LEMMA BatchKept ==
  ASSUME IngestTypeOK, DeliveryInvariant, NEW f \in Flusher, NEW to \in Caller, to.batch \in {flush[f].batch, << >>},
         Flushed(f, to), UNCHANGED <<published, wire, step, msg, buf, stored, refused>>
  PROVE  DeliveryInvariant'
<1>1. \A g \in Flusher : flush'[g] = IF g = f THEN to ELSE flush[g]
  BY DEF Flushed, IngestTypeOK
<1>2. Range(<< >>) = {} /\ IsInjective(<< >>)
  BY DEF Range, IsInjective
<1>3. \A g \in Flusher : Range(flush'[g].batch) \subseteq Range(flush[g].batch) /\ IsInjective(flush'[g].batch)
  BY <1>1, <1>2 DEF DeliveryInvariant
<1>4. \A p \in Place : In'[p] \subseteq In[p]
  BY <1>3, Places, NextPlaces DEF Place
<1> QED
  BY <1>3, <1>4, NoneAdded DEF DeliveryInvariant, IdsDiffer, IsInjective

LEMMA FlushDelivers ==
  ASSUME IngestTypeOK, DeliveryInvariant, NEW f \in Flusher, UNCHANGED <<published, wire, step, msg>>,
         Drain(f) \/ EndBatch(f) \/ \E ok \in BOOLEAN : InsertRow(f, ok)
  PROVE  DeliveryInvariant'
<1> DEFINE c == flush[f]
<1>1. /\ Apart(In) /\ IdsDiffer(wire) /\ IsInjective(buf) /\ \A g \in Flusher : IsInjective(flush[g].batch)
      /\ \A g \in Frame : stored[g] =< 1
  BY DEF DeliveryInvariant
<1>2. c \in Caller /\ c.batch \in Seq(Frame) /\ buf \in Seq(Frame) /\ f \in Place
  BY DEF IngestTypeOK, Caller, Place
<1>3. CASE Drain(f)
  <2>1. CASE ~ (Len(c.batch) = BatchSize) /\ buf # << >>
    <3> DEFINE id == Head(buf)
               to == [c EXCEPT !.batch = Append(@, id)]
    <3>1. Flushed(f, to) /\ buf' = Tail(buf) /\ UNCHANGED <<stored, refused>>
      BY <1>3, <2>1 DEF Drain
    <3>2. to.batch = Append(c.batch, id)
      BY <1>2 DEF Caller
    <3> HIDE DEF to
    <3>3. \A g \in Flusher : flush'[g] = IF g = f THEN to ELSE flush[g]
      BY <3>1 DEF Flushed, IngestTypeOK
    <3>4. id \in Range(buf) /\ IsInjective(buf') /\ Range(buf') = Range(buf) \ {id} /\ id \in Frame
      BY <1>1, <1>2, <2>1, <3>1, RowTaken, TailIn
    <3> HIDE DEF id
    <3>5. id \in In["buf"] /\ In'["buf"] \subseteq In["buf"] \ {id}
      BY <3>4, Places, NextPlaces
    <3>6. id \notin In[f]
      BY <1>1, <1>2, <3>5 DEF Apart, Place, Flusher
    <3>7. IsInjective(to.batch) /\ Range(to.batch) = In[f] \cup {id}
      <4>1. id \notin Range(c.batch)
        BY <3>6, Places
      <4> QED
        BY <1>1, <1>2, <3>2, <3>4, <4>1, RowAdded, Places
    <3>8. In'[f] \subseteq In[f] \cup {id}
      BY <3>3, <3>7, NextPlaces
    <3>9. \A p \in Place \ {"buf", f} : In'[p] \subseteq In[p]
      BY <3>1, <3>3, Places, NextPlaces DEF Place
    <3>10. Apart(In')
      <4>1. "buf" \in Place
        BY DEF Place
      <4> QED
        BY <1>1, <1>2, <3>5, <3>8, <3>9, <4>1, Moved
    <3>11. \A g \in Flusher : IsInjective(flush'[g].batch)
      BY <1>1, <3>3, <3>7
    <3> QED
      BY <1>1, <3>1, <3>4, <3>10, <3>11 DEF DeliveryInvariant
  <2>2. CASE Len(c.batch) = BatchSize \/ buf = << >>
    <3> DEFINE to == [c EXCEPT !.pc = "write", !.last = ~ (Len(c.batch) = BatchSize)]
    <3>1. to \in Caller /\ to.batch = c.batch
      BY <1>2 DEF Caller
    <3>2. Flushed(f, to) /\ UNCHANGED <<buf, stored, refused>>
      BY <1>3, <2>2 DEF Drain
    <3> HIDE DEF to
    <3> QED
      BY <3>1, <3>2, BatchKept
  <2> QED
    BY <2>1, <2>2
<1>4. CASE EndBatch(f)
  <2> DEFINE to == IF c.last \/ c.failed THEN AtRest[f] ELSE [c EXCEPT !.pc = "drain"]
  <2>1. AtRest[f] \in Caller /\ AtRest[f].batch = << >>
    BY AtRestTypes DEF AtRest
  <2>2. [c EXCEPT !.pc = "drain"] \in Caller /\ [c EXCEPT !.pc = "drain"].batch = c.batch
    BY <1>2 DEF Caller
  <2>3. to \in Caller /\ to.batch \in {c.batch, << >>}
    BY <2>1, <2>2
  <2>4. Flushed(f, to) /\ UNCHANGED <<buf, stored, refused>>
    BY <1>4 DEF EndBatch
  <2> HIDE DEF to
  <2> QED
    BY <2>3, <2>4, BatchKept
<1>5. ASSUME NEW ok \in BOOLEAN, InsertRow(f, ok) PROVE DeliveryInvariant'
  <2> DEFINE id == Head(c.batch)
             to == [c EXCEPT !.batch = Tail(@), !.failed = @ \/ ~ ok]
             q  == IF ok THEN "stored" ELSE "refused"
  <2>1. c.batch # << >> /\ Flushed(f, to) /\ buf' = buf
        /\ stored' = (IF ok THEN [stored EXCEPT ![id] = @ + 1] ELSE stored)
        /\ refused' = (IF ok THEN refused ELSE refused \cup {id})
    BY <1>5 DEF InsertRow
  <2>2. to.batch = Tail(c.batch)
    BY <1>2 DEF Caller
  <2> HIDE DEF to
  <2>3. \A g \in Flusher : flush'[g] = IF g = f THEN to ELSE flush[g]
    BY <2>1 DEF Flushed, IngestTypeOK
  <2>4. id \in Range(c.batch) /\ IsInjective(to.batch) /\ Range(to.batch) = Range(c.batch) \ {id} /\ id \in Frame
    BY <1>1, <1>2, <2>1, <2>2, RowTaken, TailIn
  <2> HIDE DEF id
  <2>5. id \in In[f] /\ In'[f] \subseteq In[f] \ {id}
    BY <2>3, <2>4, Places, NextPlaces
  <2>6. stored \in [Frame -> Nat] /\ stored[id] = 0
    <3>1. id \notin In["stored"] /\ stored \in [Frame -> Nat]
      BY <1>1, <1>2, <2>5 DEF Apart, Place, Flusher, IngestTypeOK
    <3> QED
      BY <2>4, <3>1, Places
  <2>7. In'["stored"] \subseteq In["stored"] \cup (IF ok THEN {id} ELSE {}) /\ \A g \in Frame : stored'[g] =< 1
    BY <1>1, <2>1, <2>4, <2>6, Places, NextPlaces
  <2>8. In'["refused"] \subseteq In["refused"] \cup (IF ok THEN {} ELSE {id})
    BY <2>1, Places, NextPlaces
  <2>9. q \in Place /\ In'[q] \subseteq In[q] \cup {id}
    BY <2>7, <2>8 DEF Place
  <2>10. \A p \in Place \ {f, q} : In'[p] \subseteq In[p]
    BY <2>1, <2>3, <2>7, <2>8, Places, NextPlaces DEF Place
  <2>11. Apart(In')
    <3> HIDE DEF q
    <3> QED
      BY <1>1, <1>2, <2>5, <2>9, <2>10, Moved
  <2>12. \A g \in Flusher : IsInjective(flush'[g].batch)
    BY <1>1, <2>3, <2>4
  <2> QED
    BY <1>1, <2>1, <2>7, <2>11, <2>12 DEF DeliveryInvariant
<1> QED
  BY <1>3, <1>4, <1>5

-----------------------------------------------------------------------------
(* Types: presence.                                                         *)

LEMMA PresenceStutters ==
  ASSUME PresenceTypeOK, UNCHANGED presenceVars
  PROVE  PresenceTypeOK'
BY DEF PresenceTypeOK, presenceVars

LEMMA SessionTypes ==
  ASSUME PresenceTypeOK, NEW d \in Device, ConnectMqtt(d) \/ Drop(d) \/ WillFires(d) \/ Leave(d) \/ Heartbeat(d)
  PROVE  PresenceTypeOK'
<1>1. beat \in [Device -> 0 .. HeartbeatEvery] /\ 0 \in 0 .. HeartbeatEvery
  BY PresenceAssumption DEF PresenceTypeOK
<1>2. beat' \in [Device -> 0 .. HeartbeatEvery]
  BY <1>1 DEF ConnectMqtt, Drop, WillFires, Leave, Heartbeat
<1>3. {conn', will'} \subseteq [Device -> BOOLEAN] /\ retained' \in [Device -> {"online", "offline", "none"}]
  <2>1. conn \in [Device -> BOOLEAN] /\ will \in [Device -> BOOLEAN] /\ retained \in [Device -> {"online", "offline", "none"}]
    BY DEF PresenceTypeOK
  <2> QED
    BY <2>1 DEF ConnectMqtt, Drop, WillFires, Leave, Heartbeat
<1>4. UNCHANGED <<active, age, flipped, swept, view, untold>>
  BY DEF ConnectMqtt, Drop, WillFires, Leave, Heartbeat
<1> QED
  BY <1>2, <1>3, <1>4 DEF PresenceTypeOK

LEMMA TickTypes ==
  ASSUME PresenceTypeOK, PassTick
  PROVE  PresenceTypeOK'
<1>1. beat \in [Device -> 0 .. HeartbeatEvery] /\ age \in [Device -> Never .. StaleAfter + 1]
      /\ HeartbeatEvery \in Nat /\ StaleAfter \in Nat /\ Never = -1
  BY PresenceAssumption DEF PresenceTypeOK, Never
<1>2. beat' \in [Device -> 0 .. HeartbeatEvery]
  BY <1>1 DEF PassTick
<1>3. age' \in [Device -> Never .. StaleAfter + 1]
  BY <1>1 DEF PassTick
<1> QED
  BY <1>2, <1>3 DEF PassTick, PresenceTypeOK

LEMMA StatusTypes ==
  ASSUME PresenceTypeOK, NEW d \in Device, NEW online \in BOOLEAN,
         ApplyStatus(d, online) \/ StatusUnheard(d, online) \/ (Broadcast(d, online) /\ flipped' \subseteq flipped)
  PROVE  PresenceTypeOK'
<1>1. active \in [Device -> BOOLEAN] /\ age \in [Device -> Never .. StaleAfter + 1] /\ 0 \in Never .. StaleAfter + 1
      /\ view \in [Device -> {"online", "offline", "unknown"}] /\ untold \subseteq Device
  BY PresenceAssumption DEF PresenceTypeOK, Never
<1>2. CASE ApplyStatus(d, online) \/ StatusUnheard(d, online)
  <2>1. active' \in [Device -> BOOLEAN] /\ age' \in [Device -> Never .. StaleAfter + 1]
    BY <1>1, <1>2 DEF ApplyStatus, StatusUnheard
  <2>2. untold' \subseteq Device
    BY <1>1, <1>2 DEF ApplyStatus, StatusUnheard
  <2> QED
    BY <1>2, <2>1, <2>2 DEF ApplyStatus, StatusUnheard, PresenceTypeOK
<1>3. CASE Broadcast(d, online) /\ flipped' \subseteq flipped
  <2>1. view' \in [Device -> {"online", "offline", "unknown"}]
    BY <1>1, <1>3 DEF Broadcast
  <2> QED
    BY <1>3, <2>1 DEF Broadcast, PresenceTypeOK
<1> QED
  BY <1>2, <1>3

LEMMA SweepTypes ==
  ASSUME PresenceTypeOK, MarkStaleOffline \/ AnnounceOffline \/ SweepFails \/ PresenceLost
  PROVE  PresenceTypeOK'
<1>1. CASE MarkStaleOffline
  <2>1. active' \in [Device -> BOOLEAN] /\ flipped' \subseteq Device
    <3>1. active \in [Device -> BOOLEAN]
      BY DEF PresenceTypeOK
    <3> QED
      BY <1>1, <3>1 DEF MarkStaleOffline, Stale
  <2> QED
    BY <1>1, <2>1 DEF MarkStaleOffline, PresenceTypeOK
<1>2. CASE AnnounceOffline
  <2>1. PICK d \in flipped : flipped' = flipped \ {d} /\ Broadcast(d, FALSE)
    BY <1>2 DEF AnnounceOffline
  <2>2. d \in Device
    BY <2>1 DEF PresenceTypeOK
  <2> QED
    BY <2>1, <2>2, StatusTypes
<1>3. CASE PresenceLost
  BY <1>3 DEF PresenceLost, PresenceTypeOK, All
<1>4. CASE SweepFails
  BY <1>4 DEF SweepFails, PresenceTypeOK
<1> QED
  BY <1>1, <1>2, <1>3, <1>4

-----------------------------------------------------------------------------
(* Types: the API server.                                                   *)

ApiMessage == LiveMessage \cup StatusMessage

LEMMA Spent ==
  ASSUME budget \in Scenario,
         NEW kind \in {"frames", "live", "outage", "signal", "worker", "pause", "db", "api", "link", "edit", "drop", "leave"},
         Spend(kind)
  PROVE  budget' \in Scenario
BY DEF Spend, Scenario

LEMMA WorksTypes ==
  ASSUME budget \in Scenario, NEW kind \in {"outage", "db"}, NEW ok \in BOOLEAN, Works(kind, ok)
  PROVE  budget' \in Scenario
BY Spent DEF Works

LEMMA InboxTypes ==
  ASSUME inbox \in Seq(ApiMessage), NEW messages \in Seq(ApiMessage), ToApi(messages)
  PROVE  inbox' \in Seq(ApiMessage)
BY ConcatProperties DEF ToApi

LEMMA StatusIn ==
  ASSUME NEW d \in Device, NEW online \in BOOLEAN
  PROVE  Status(d, online) \in StatusMessage /\ Status(d, online) \in ApiMessage /\ <<Status(d, online)>> \in Seq(ApiMessage)
BY DEF Status, StatusMessage, ApiMessage

LEMMA LiveIn ==
  ASSUME NEW m, m.device \in Device, m.data \in Reading
  PROVE  <<Live(m)>> \in Seq(ApiMessage)
BY DEF Live, LiveMessage, ApiMessage

\* The retained messages, one of each device that has published one.
LEMMA RetainedIn == RetainedMessages \in Seq(ApiMessage)
<1> DEFINE known == {d \in Device : retained[d] # "none"}
           n == Cardinality(known)
           order == SetToSeq(known)
<1>1. n \in Nat /\ ExistsBijection(1 .. n, known)
  <2>1. known \subseteq Device /\ IsFiniteSet(Device)
    BY FleetAssumption
  <2> HIDE DEF known
  <2>2. IsFiniteSet(known)
    BY <2>1, FS_Subset
  <2> QED
    BY <2>2, FS_CardinalityType
<1>2. \E f \in [1 .. n -> known] : IsInjective(f)
  BY <1>1 DEF ExistsBijection, Bijection, Injection
<1>3. order \in [1 .. n -> known]
  BY <1>2 DEF SetToSeq
<1>4. known \subseteq Device
  OBVIOUS
<1>5. RetainedMessages = [i \in 1 .. n |-> Status(order[i], retained[order[i]] = "online")]
  BY DEF RetainedMessages
<1> HIDE DEF n, order, known
<1>6. ASSUME NEW i \in 1 .. n PROVE Status(order[i], retained[order[i]] = "online") \in ApiMessage
  <2>1. order[i] \in Device
    BY <1>3, <1>4
  <2> DEFINE online == (retained[order[i]] = "online")
  <2>2. online \in BOOLEAN
    OBVIOUS
  <2> HIDE DEF online
  <2>3. Status(order[i], online) \in ApiMessage
    BY <2>1, <2>2, StatusIn
  <2> QED
    BY <2>3 DEF online
<1>7. [i \in 1 .. n |-> Status(order[i], retained[order[i]] = "online")] \in [1 .. n -> ApiMessage]
  BY <1>6
<1> QED
  BY <1>1, <1>5, <1>7, SeqDef

LEMMA ServerParts ==
  ServerTypeOK <=>
    /\ published \in 0 .. MaxFrame /\ apiUp \in BOOLEAN /\ linked \in BOOLEAN /\ (linked => apiUp)
    /\ inbox \in Seq(ApiMessage) /\ router \in {"idle", "evaluate", "announce"}
    /\ router = "evaluate" => subject \in LiveMessage
    /\ router = "announce" => subject \in StatusMessage
    /\ budget \in Scenario
BY DEF ServerTypeOK, ApiMessage

-----------------------------------------------------------------------------
(* The steps of the backend.                                                *)

LEMMA IngestApart ==
  ASSUME BackendInvariant, UNCHANGED ingestVars, published' = published
  PROVE  IngestTypeOK' /\ DeliveryInvariant'
BY IngestStutters, DeliveryStutters DEF BackendInvariant, TypeOK, ingestVars, process

LEMMA AlertsApart ==
  ASSUME BackendInvariant, UNCHANGED alertsVars
  PROVE  AlertsTypeOK' /\ AlertsInvariant'
BY AlertsInvariantStutters DEF BackendInvariant, AlertsInvariant

LEMMA PresenceApart ==
  ASSUME BackendInvariant, UNCHANGED presenceVars
  PROVE  PresenceTypeOK'
BY PresenceStutters DEF BackendInvariant, TypeOK

LEMMA ServerApart ==
  ASSUME ServerTypeOK, UNCHANGED <<published, apiUp, linked, router, subject>>,
         inbox' \in Seq(ApiMessage), budget' \in Scenario
  PROVE  ServerTypeOK'
BY DEF ServerTypeOK, ApiMessage

LEMMA PublishTelemetryStep ==
  ASSUME BackendInvariant, PublishTelemetry
  PROVE  BackendInvariant'
<1>1. IngestTypeOK /\ ServerTypeOK /\ DeliveryInvariant /\ budget \in Scenario /\ published \in 0 .. MaxFrame
  BY DEF BackendInvariant, TypeOK, ServerTypeOK
<1>2. PICK d \in Device, data \in budget.data : ToWorker([id |-> published + 1, device |-> d, data |-> data])
  BY DEF PublishTelemetry
<1>3. published < MaxFrame /\ published' = published + 1 /\ Spend("frames")
      /\ UNCHANGED <<process, worker, maint, stored, refused, alertsVars, presenceVars, apiVars>>
  BY DEF PublishTelemetry
<1> DEFINE m == [id |-> published + 1, device |-> d, data |-> data]
<1>4. m \in Message /\ m.id = published + 1
  <2>1. data \in Reading
    BY <1>1 DEF Scenario
  <2>2. published + 1 \in Frame /\ MaxFrame \in Nat
    BY <1>1, <1>3, IngestAssumption DEF Frame
  <2> QED
    BY <2>1, <2>2 DEF Message
<1>5. ToWorker(m)
  BY <1>2
<1> HIDE DEF m
<1>6. IngestTypeOK' /\ DeliveryInvariant'
  BY <1>1, <1>3, <1>4, <1>5, WireTypes, PublishDelivers DEF process
<1>7. AlertsInvariant' /\ AlertsTypeOK' /\ PresenceTypeOK'
  BY <1>3, AlertsApart, PresenceApart
<1>8. ServerTypeOK'
  <2>1. published' \in 0 .. MaxFrame
    BY <1>1, <1>3, IngestAssumption
  <2>2. budget' \in Scenario
    BY <1>1, <1>3, Spent
  <2> QED
    BY <1>1, <1>3, <2>1, <2>2 DEF ServerTypeOK, apiVars
<1> QED
  BY <1>6, <1>7, <1>8 DEF BackendInvariant, TypeOK

LEMMA PublishLiveStep ==
  ASSUME BackendInvariant, PublishLive
  PROVE  BackendInvariant'
<1>1. ServerTypeOK /\ budget \in Scenario /\ inbox \in Seq(ApiMessage)
  BY ServerParts DEF BackendInvariant, TypeOK
<1>2. PICK d \in Device, data \in budget.data : ToApi(<<Live([device |-> d, data |-> data])>>)
  BY DEF PublishLive
<1>3. Spend("live") /\ UNCHANGED <<ingestVars, alertsVars, presenceVars, published, apiUp, linked, router, subject>>
  BY DEF PublishLive
<1>4. inbox' \in Seq(ApiMessage)
  <2> DEFINE m == [device |-> d, data |-> data]
  <2>1. m.device \in Device /\ m.data \in Reading
    BY <1>1 DEF Scenario
  <2>2. ToApi(<<Live(m)>>)
    BY <1>2
  <2> HIDE DEF m
  <2> QED
    BY <1>1, <2>1, <2>2, LiveIn, InboxTypes
<1>5. budget' \in Scenario
  BY <1>1, <1>3, Spent
<1> QED
  BY <1>1, <1>3, <1>4, <1>5, IngestApart, AlertsApart, PresenceApart, ServerApart DEF BackendInvariant, TypeOK

LEMMA SessionSteps ==
  ASSUME BackendInvariant, DeviceConnects \/ SessionBreaks \/ SessionEnds \/ LastWill \/ Beat \/ Tick
  PROVE  BackendInvariant'
<1>1. ServerTypeOK /\ budget \in Scenario /\ inbox \in Seq(ApiMessage) /\ PresenceTypeOK
  BY ServerParts DEF BackendInvariant, TypeOK
<1>2. UNCHANGED <<ingestVars, alertsVars, published, apiUp, linked, router, subject>>
  BY DEF DeviceConnects, SessionBreaks, SessionEnds, LastWill, Beat, Tick, apiVars
<1>3. budget' \in Scenario
  BY <1>1, Spent DEF DeviceConnects, SessionBreaks, SessionEnds, LastWill, Beat, Tick
<1>4. PresenceTypeOK'
  BY <1>1, SessionTypes, TickTypes DEF DeviceConnects, SessionBreaks, SessionEnds, LastWill, Beat, Tick
<1>5. inbox' \in Seq(ApiMessage)
  <2>1. CASE DeviceConnects
    <3>1. PICK d \in Device : ToApi(ConnectMessages(d))
      BY <2>1 DEF DeviceConnects
    <3>2. ConnectMessages(d) \in Seq(ApiMessage)
      <4>1. Status(d, FALSE) \in ApiMessage /\ Status(d, TRUE) \in ApiMessage
        BY StatusIn
      <4>2. \A a, b \in ApiMessage : <<a, b>> \in Seq(ApiMessage) /\ <<b>> \in Seq(ApiMessage)
        OBVIOUS
      <4> QED
        BY <4>1, <4>2 DEF ConnectMessages
    <3> QED
      BY <1>1, <3>1, <3>2, InboxTypes
  <2>2. CASE LastWill
    <3>1. PICK d \in Device : ToApi(<<Status(d, FALSE)>>)
      BY <2>2 DEF LastWill
    <3> QED
      BY <1>1, <3>1, StatusIn, InboxTypes
  <2>3. CASE Beat
    <3>1. PICK d \in Device : ToApi(<<Status(d, TRUE)>>)
      BY <2>3 DEF Beat
    <3> QED
      BY <1>1, <3>1, StatusIn, InboxTypes
  <2>4. CASE SessionBreaks \/ SessionEnds \/ Tick
    BY <1>1, <2>4 DEF SessionBreaks, SessionEnds, Tick, apiVars
  <2> QED
    BY <2>1, <2>2, <2>3, <2>4
<1> QED
  BY <1>1, <1>2, <1>3, <1>4, <1>5, IngestApart, AlertsApart, ServerApart DEF BackendInvariant, TypeOK

LEMMA HandlerStep ==
  ASSUME BackendInvariant, Handler
  PROVE  BackendInvariant'
<1>1. ServerTypeOK /\ budget \in Scenario /\ inbox \in Seq(ApiMessage) /\ IngestTypeOK /\ DeliveryInvariant
  BY ServerParts DEF BackendInvariant, TypeOK
<1>2. UNCHANGED <<alertsVars, presenceVars, published, apiUp, linked, router, subject, budget>>
      /\ (Handle \/ WriteRow \/ Republish)
  BY DEF Handler
<1>3. IngestTypeOK' /\ DeliveryInvariant'
  BY <1>1, <1>2, HandlerTypes, HandlerDelivers
<1>4. inbox' \in Seq(ApiMessage)
  <2>1. CASE UNCHANGED inbox
    BY <1>1, <2>1
  <2>2. CASE Republish /\ ToApi(<<Live(msg)>>)
    <3>1. msg \in Message
      BY <1>1, <2>2 DEF Republish, IngestTypeOK
    <3>2. msg.device \in Device /\ msg.data \in Reading
      BY <3>1 DEF Message
    <3> QED
      BY <1>1, <2>2, <3>2, LiveIn, InboxTypes
  <2> QED
    BY <2>1, <2>2 DEF Handler
<1> QED
  BY <1>1, <1>2, <1>3, <1>4, AlertsApart, PresenceApart, ServerApart DEF BackendInvariant, TypeOK

LEMMA WorkerStep ==
  ASSUME BackendInvariant, WorkerRuns \/ WorkerFaults \/ \E f \in Flusher : FlushStep(f)
  PROVE  BackendInvariant'
<1>1. ServerTypeOK /\ budget \in Scenario /\ inbox \in Seq(ApiMessage) /\ IngestTypeOK /\ DeliveryInvariant
  BY ServerParts DEF BackendInvariant, TypeOK
<1>2. UNCHANGED <<alertsVars, presenceVars, published, apiVars>>
  BY DEF WorkerRuns, WorkerFaults, FlushStep
<1>3. IngestTypeOK' /\ DeliveryInvariant' /\ budget' \in Scenario
  <2>1. CASE WorkerRuns
    <3>1. WorkerSteps /\ budget' = budget
      BY <2>1 DEF WorkerRuns
    <3>2. DeliveryInvariant'
      <4>1. CASE WorkerConnects \/ WorkerSubscribes
        BY <1>1, <1>2, <4>1, DeliveryStutters DEF WorkerConnects, WorkerSubscribes, process
      <4>2. CASE StartFlush
        <5> DEFINE to == [flush["loop"] EXCEPT !.pc = "drain"]
        <5>1. to \in Caller /\ to.batch = flush["loop"].batch /\ "loop" \in Flusher
          BY <1>1 DEF IngestTypeOK, Caller, Flusher
        <5>2. Flushed("loop", to) /\ UNCHANGED <<wire, step, msg, buf, stored, refused>>
          BY <4>2 DEF StartFlush
        <5> HIDE DEF to
        <5> QED
          BY <1>1, <1>2, <5>1, <5>2, BatchKept
      <4>3. CASE Exit
        BY <1>1, <1>2, <4>3, GoneDelivers DEF Exit
      <4> QED
        BY <3>1, <4>1, <4>2, <4>3 DEF WorkerSteps
    <3> QED
      BY <1>1, <3>1, <3>2, WorkerTypes
  <2>2. CASE WorkerFaults
    <3>1. (Signal \/ WorkerCrash \/ TogglePause) /\ (Spend("signal") \/ Spend("worker") \/ Spend("pause"))
      BY <2>2 DEF WorkerFaults
    <3>2. DeliveryInvariant'
      <4>1. CASE TogglePause
        BY <1>1, <1>2, <4>1, DeliveryStutters DEF TogglePause, process
      <4>2. CASE Signal
        <5> DEFINE to == [flush["main"] EXCEPT !.pc = "drain"]
        <5>1. to \in Caller /\ to.batch = flush["main"].batch /\ "main" \in Flusher
          BY <1>1 DEF IngestTypeOK, Caller, Flusher
        <5>2. Flushed("main", to) /\ UNCHANGED <<wire, step, msg, buf, stored, refused>>
          BY <4>2 DEF Signal
        <5> HIDE DEF to
        <5> QED
          BY <1>1, <1>2, <5>1, <5>2, BatchKept
      <4>3. CASE WorkerCrash
        BY <1>1, <1>2, <4>3, GoneDelivers DEF WorkerCrash
      <4> QED
        BY <3>1, <4>1, <4>2, <4>3
    <3>3. budget' \in Scenario
      BY <1>1, <3>1, Spent
    <3> QED
      BY <1>1, <3>1, <3>2, <3>3, WorkerTypes
  <2>3. ASSUME NEW f \in Flusher, FlushStep(f) PROVE IngestTypeOK' /\ DeliveryInvariant' /\ budget' \in Scenario
    <3>1. UNCHANGED <<worker, wire, step, msg, seen, maint>>
          /\ (Drain(f) \/ EndBatch(f) \/ \E ok \in BOOLEAN : InsertRow(f, ok))
      BY <2>3 DEF FlushStep
    <3>2. budget' \in Scenario
      BY <1>1, <2>3, WorksTypes DEF FlushStep
    <3> QED
      BY <1>1, <1>2, <3>1, <3>2, FlushTypes, FlushDelivers
  <2> QED
    BY <2>1, <2>2, <2>3
<1> QED
  BY <1>1, <1>2, <1>3, AlertsApart, PresenceApart, ServerApart DEF BackendInvariant, TypeOK, apiVars

LEMMA LinkSteps ==
  ASSUME BackendInvariant, ApiStarts \/ ApiLinks \/ ApiUnlinks
  PROVE  BackendInvariant'
<1>1. ServerTypeOK /\ budget \in Scenario /\ inbox \in Seq(ApiMessage) /\ PresenceTypeOK
  BY ServerParts DEF BackendInvariant, TypeOK
<1>2. UNCHANGED <<ingestVars, alertsVars, presenceVars, published, router, subject>>
  BY DEF ApiStarts, ApiLinks, ApiUnlinks
<1>3. budget' \in Scenario
  BY <1>1, Spent DEF ApiStarts, ApiLinks, ApiUnlinks
<1>4. apiUp' \in BOOLEAN /\ linked' \in BOOLEAN /\ (linked' => apiUp')
  BY <1>1 DEF ApiStarts, ApiLinks, ApiUnlinks, ServerTypeOK
<1>5. inbox' \in Seq(ApiMessage)
  <2>1. CASE ApiStarts
    BY <1>1, <2>1 DEF ApiStarts
  <2>2. CASE ApiLinks
    <3>1. inbox' = inbox \o RetainedMessages
      BY <2>2 DEF ApiLinks
    <3> QED
      BY <1>1, <3>1, RetainedIn, ConcatProperties
  <2>3. CASE ApiUnlinks
    BY <2>3 DEF ApiUnlinks
  <2> QED
    BY <2>1, <2>2, <2>3
<1>6. ServerTypeOK'
  BY <1>1, <1>2, <1>3, <1>4, <1>5 DEF ServerTypeOK, ApiMessage
<1> QED
  BY <1>2, <1>6, IngestApart, AlertsApart, PresenceApart DEF BackendInvariant, TypeOK

LEMMA CrashStep ==
  ASSUME BackendInvariant, ApiCrashes
  PROVE  BackendInvariant'
<1>1. ServerTypeOK /\ budget \in Scenario /\ PresenceTypeOK /\ AlertsInvariant
  BY DEF BackendInvariant, TypeOK, ServerTypeOK
<1>2. /\ Spend("api") /\ apiUp' = FALSE /\ linked' = FALSE /\ inbox' = << >> /\ router' = "idle"
      /\ AlertsLost /\ PresenceLost /\ UNCHANGED <<ingestVars, published>>
  BY DEF ApiCrashes, RouterIdle
<1>3. AlertsInvariant' /\ AlertsTypeOK' /\ PresenceTypeOK'
  BY <1>1, <1>2, AlertsLostPreserves, SweepTypes DEF AlertsInvariant
<1>4. ServerTypeOK'
  <2>1. budget' \in Scenario
    BY <1>1, <1>2, Spent
  <2>2. published' \in 0 .. MaxFrame
    BY <1>1, <1>2 DEF ServerTypeOK
  <2>3. << >> \in Seq(LiveMessage \cup StatusMessage)
    OBVIOUS
  <2>4. inbox' \in Seq(LiveMessage \cup StatusMessage)
    BY <1>2, <2>3
  <2>5. apiUp' \in BOOLEAN /\ linked' \in BOOLEAN /\ (linked' => apiUp')
    BY <1>2
  <2>6. router' = "idle" /\ "idle" # "evaluate" /\ "idle" # "announce"
    BY <1>2
  <2> QED
    BY <2>1, <2>2, <2>4, <2>5, <2>6 DEF ServerTypeOK
<1> QED
  BY <1>2, <1>3, <1>4, IngestApart DEF BackendInvariant, TypeOK

\* The message at the head of the inbox.
LEMMA HeadOfInbox ==
  ASSUME ServerTypeOK, inbox # << >>
  PROVE  /\ Head(inbox) \in ApiMessage /\ Tail(inbox) \in Seq(ApiMessage)
         /\ Head(inbox).kind = "live" => Head(inbox) \in LiveMessage
         /\ Head(inbox).kind = "status" => Head(inbox) \in StatusMessage
<1>1. inbox \in Seq(ApiMessage)
  BY ServerParts
<1>2. Head(inbox) \in ApiMessage /\ Tail(inbox) \in Seq(ApiMessage)
  BY <1>1, TailIn
<1> QED
  BY <1>2 DEF ApiMessage, LiveMessage, StatusMessage

LEMMA LiveSteps ==
  ASSUME BackendInvariant, TakeLive \/ Evaluate
  PROVE  BackendInvariant'
<1>1. ServerTypeOK /\ budget \in Scenario /\ inbox \in Seq(ApiMessage) /\ AlertsInvariant
  BY ServerParts DEF BackendInvariant, TypeOK
<1>2. UNCHANGED <<ingestVars, presenceVars, published, apiUp, linked>>
  BY DEF TakeLive, Evaluate
<1>3. CASE TakeLive
  <2>1. AlertsInvariant' /\ AlertsTypeOK'
    BY <1>1, <1>3, RulesPreserve DEF TakeLive, AlertsInvariant
  <2>2. subject' \in LiveMessage /\ router' = "evaluate" /\ inbox' \in Seq(ApiMessage) /\ budget' = budget
    BY <1>1, <1>3, HeadOfInbox DEF TakeLive
  <2>3. ServerTypeOK'
    BY <1>1, <1>2, <2>2 DEF ServerTypeOK, ApiMessage
  <2> QED
    BY <1>2, <2>1, <2>3, IngestApart, PresenceApart DEF BackendInvariant, TypeOK
<1>4. CASE Evaluate
  <2>1. router = "evaluate" /\ inbox' = inbox /\ subject \in LiveMessage
    BY <1>1, <1>4 DEF Evaluate, ServerTypeOK
  <2>2. CASE \E o \in Outcome : /\ EvaluateRule(subject.device, Enrich(subject.data), o) \/ Enqueue(o = "failed")
                                /\ Works("db", o = "done")
                                /\ UNCHANGED <<router, subject>>
    <3>1. PICK o \in Outcome : /\ EvaluateRule(subject.device, Enrich(subject.data), o) \/ Enqueue(o = "failed")
                               /\ Works("db", o = "done")
                               /\ UNCHANGED <<router, subject>>
      BY <2>2
    <3>2. AlertsInvariant'
      <4> DEFINE d == subject.device
                 enriched == Enrich(subject.data)
                 broken == (o = "failed")
      <4>1. d \in Device
        BY <2>1 DEF LiveMessage
      <4>2. EvaluateRule(d, enriched, o) \/ Enqueue(broken)
        BY <3>1
      <4> HIDE DEF d, enriched, broken
      <4> QED
        BY <1>1, <4>1, <4>2, EvaluatePreserves, EnqueuePreserves
    <3>3. budget' \in Scenario
      <4> DEFINE ok == (o = "done")
      <4>1. ok \in BOOLEAN /\ Works("db", ok)
        BY <3>1
      <4> HIDE DEF ok
      <4> QED
        BY <1>1, <4>1, WorksTypes
    <3>4. ServerTypeOK'
      BY <1>1, <1>2, <2>1, <3>1, <3>3 DEF ServerTypeOK
    <3> QED
      BY <1>2, <3>2, <3>4, IngestApart, PresenceApart DEF BackendInvariant, TypeOK, AlertsInvariant
  <2>3. CASE RouterIdle /\ UNCHANGED <<alertsVars, budget>>
    <3>1. ServerTypeOK'
      BY <1>1, <1>2, <2>1, <2>3 DEF ServerTypeOK, RouterIdle
    <3> QED
      BY <1>2, <2>3, <3>1, IngestApart, AlertsApart, PresenceApart DEF BackendInvariant, TypeOK
  <2> QED
    BY <1>4, <2>2, <2>3 DEF Evaluate
<1> QED
  BY <1>3, <1>4

LEMMA StatusSteps ==
  ASSUME BackendInvariant, TakeStatus \/ Announce
  PROVE  BackendInvariant'
<1>1. ServerTypeOK /\ budget \in Scenario /\ inbox \in Seq(ApiMessage) /\ PresenceTypeOK
  BY ServerParts DEF BackendInvariant, TypeOK
<1>2. UNCHANGED <<ingestVars, alertsVars, published, apiUp, linked>>
  BY DEF TakeStatus, Announce
<1>3. CASE TakeStatus
  <2> DEFINE m == Head(inbox)
  <2>1. m \in StatusMessage /\ inbox' \in Seq(ApiMessage) /\ router = "idle"
    BY <1>1, <1>3, HeadOfInbox DEF TakeStatus
  <2>2. \/ ApplyStatus(m.device, m.online) /\ router' = "announce" /\ subject' = m /\ UNCHANGED budget
        \/ Spend("db") /\ UNCHANGED <<router, subject>> /\ (UNCHANGED presenceVars \/ StatusUnheard(m.device, m.online))
    BY <1>3 DEF TakeStatus
  <2> HIDE DEF m
  <2>3. m.device \in Device /\ m.online \in BOOLEAN
    BY <2>1 DEF StatusMessage
  <2>4. PresenceTypeOK'
    BY <1>1, <2>2, <2>3, StatusTypes, PresenceStutters
  <2>5. budget' \in Scenario
    BY <1>1, <2>2, Spent
  <2>6. ServerTypeOK'
    BY <1>1, <1>2, <2>1, <2>2, <2>5 DEF ServerTypeOK, ApiMessage
  <2> QED
    BY <1>2, <2>4, <2>6, IngestApart, AlertsApart DEF BackendInvariant, TypeOK
<1>4. CASE Announce
  <2>1. /\ router = "announce" /\ router' = "idle" /\ UNCHANGED <<inbox, budget, flipped>>
        /\ Broadcast(subject.device, subject.online)
    BY <1>4 DEF Announce, RouterIdle
  <2>2. subject.device \in Device /\ subject.online \in BOOLEAN
    BY <1>1, <2>1 DEF ServerTypeOK, StatusMessage
  <2>3. PresenceTypeOK'
    BY <1>1, <2>1, <2>2, StatusTypes
  <2>4. ServerTypeOK'
    BY <1>1, <1>2, <2>1 DEF ServerTypeOK
  <2> QED
    BY <1>2, <2>3, <2>4, IngestApart, AlertsApart DEF BackendInvariant, TypeOK
<1> QED
  BY <1>3, <1>4

LEMMA QueueSteps ==
  ASSUME BackendInvariant, MailStep \/ SweepStep \/ EditRules
  PROVE  BackendInvariant'
<1>1. ServerTypeOK /\ budget \in Scenario /\ inbox \in Seq(ApiMessage) /\ PresenceTypeOK /\ AlertsInvariant
  BY ServerParts DEF BackendInvariant, TypeOK
<1>2. UNCHANGED <<ingestVars, published, apiVars>>
  BY DEF MailStep, SweepStep, EditRules
<1>3. budget' \in Scenario
  BY <1>1, Spent, WorksTypes DEF MailStep, SweepStep, EditRules
<1>4. AlertsInvariant' /\ AlertsTypeOK'
  <2>1. CASE MailStep
    <3>1. DrainBatch \/ \E ok \in BOOLEAN : StartSend(ok) \/ EndSend(ok)
      BY <2>1 DEF MailStep
    <3> QED
      BY <1>1, <3>1, MailStepPreserves DEF AlertsInvariant
  <2>2. CASE SweepStep
    BY <2>2, AlertsApart DEF SweepStep
  <2>3. CASE EditRules
    BY <1>1, <2>3, RulesPreserve DEF EditRules, AlertsInvariant
  <2> QED
    BY <2>1, <2>2, <2>3
<1>5. PresenceTypeOK'
  <2>1. CASE MailStep \/ EditRules
    BY <2>1, PresenceApart DEF MailStep, EditRules
  <2>2. CASE SweepStep
    BY <1>1, <2>2, SweepTypes DEF SweepStep
  <2> QED
    BY <2>1, <2>2
<1> QED
  BY <1>1, <1>2, <1>3, <1>4, <1>5, IngestApart, ServerApart DEF BackendInvariant, TypeOK, apiVars

LEMMA Stutters ==
  ASSUME BackendInvariant, UNCHANGED vars
  PROVE  BackendInvariant'
<1>1. ServerTypeOK /\ budget \in Scenario /\ inbox \in Seq(ApiMessage)
  BY ServerParts DEF BackendInvariant, TypeOK
<1>2. UNCHANGED <<ingestVars, alertsVars, presenceVars, published, apiVars, budget>>
  BY DEF vars
<1> QED
  BY <1>1, <1>2, IngestApart, AlertsApart, PresenceApart, ServerApart DEF BackendInvariant, TypeOK, apiVars

-----------------------------------------------------------------------------

LEMMA BackendInit == Init => BackendInvariant
<1> SUFFICES ASSUME Init PROVE BackendInvariant
  OBVIOUS
<1>1. IngestInit /\ AlertsInit /\ PresenceInit(budget.new) /\ budget \in Scenario
  BY BackendAssumption DEF Init
<1>2. IngestTypeOK
  <2>1. << >> \in Seq(Message) /\ << >> \in Seq(Frame) /\ Len(<< >>) = 0 /\ BufCap \in Nat
    BY IngestAssumption
  <2>2. stored \in [Frame -> Nat] /\ refused \subseteq Frame /\ maint \in BOOLEAN /\ seen \in BOOLEAN
    BY <1>1 DEF IngestInit
  <2>3. wire \in Seq(Message) /\ buf \in Seq(Frame) /\ Len(buf) =< BufCap /\ step = "idle" /\ worker = "up"
    BY <1>1, <2>1 DEF IngestInit
  <2>4. flush \in [Flusher -> Caller] /\ \A f \in Flusher : Len(flush[f].batch) =< BatchSize
    BY <1>1, AtRestTypes DEF IngestInit
  <2> QED
    BY <2>2, <2>3, <2>4 DEF IngestTypeOK
<1>3. AlertsTypeOK
  <2>1. << >> \in Seq(Event) /\ << >> \in Seq(MailRow) /\ Len(<< >>) = 0 /\ DOMAIN << >> = {}
    OBVIOUS
  <2> QED
    BY <1>1, <2>1, AlertsAssumption DEF AlertsInit, AlertsTypeOK
<1>4. PresenceTypeOK
  <2>1. StaleAfter \in Nat /\ HeartbeatEvery \in Nat /\ Never = -1
    BY PresenceAssumption DEF Never
  <2>2. 0 \in Never .. StaleAfter + 1 /\ Never \in Never .. StaleAfter + 1 /\ 0 \in 0 .. HeartbeatEvery
    BY <2>1
  <2>3. /\ conn \in [Device -> BOOLEAN] /\ retained \in [Device -> {"online", "offline", "none"}]
        /\ age \in [Device -> Never .. StaleAfter + 1] /\ view \in [Device -> {"online", "offline", "unknown"}]
    <3>1. CASE budget.new
      BY <1>1, <2>2, <3>1 DEF PresenceInit, All
    <3>2. CASE ~ budget.new
      BY <1>1, <2>2, <3>2 DEF PresenceInit, All
    <3> QED
      BY <3>1, <3>2
  <2>4. /\ will \in [Device -> BOOLEAN] /\ active \in [Device -> BOOLEAN] /\ beat \in [Device -> 0 .. HeartbeatEvery]
        /\ flipped \cup untold \subseteq Device /\ swept \in BOOLEAN
    BY <1>1, <2>2 DEF PresenceInit, All
  <2> QED
    BY <2>3, <2>4 DEF PresenceTypeOK
<1>5. ServerTypeOK
  BY <1>1, IngestAssumption DEF Init, ServerTypeOK
<1>6. AlertsInvariant
  <2>1. Carried
    BY <1>1, AlertsAssumption DEF AlertsInit, Carried, NoMail
  <2>2. Queued = {}
    BY <1>1 DEF AlertsInit, Queued
  <2>3. Draining /\ AllCounted /\ RowsHonest
    BY <1>1, <2>2 DEF AlertsInit, Draining, AllCounted, RowsHonest
  <2> QED
    BY <1>3, <2>1, <2>3 DEF AlertsInvariant
<1>7. DeliveryInvariant
  <2>1. Range(<< >>) = {} /\ Ids(<< >>) = {} /\ IsInjective(<< >>) /\ IdsDiffer(<< >>)
    BY DEF Range, Ids, IsInjective, IdsDiffer
  <2>2. \A f \in Flusher : flush[f].batch = << >>
    BY <1>1 DEF IngestInit, AtRest
  <2>3. wire = << >> /\ buf = << >> /\ step = "idle" /\ refused = {} /\ \A f \in Frame : stored[f] = 0
    BY <1>1 DEF IngestInit
  <2>4. \A p \in Place \ {"ahead"} : In[p] = {}
    BY <2>1, <2>2, <2>3, Places DEF Place
  <2>5. Apart(In)
    BY <2>4 DEF Apart
  <2> QED
    BY <2>1, <2>2, <2>3, <2>5 DEF DeliveryInvariant
<1> QED
  BY <1>2, <1>3, <1>4, <1>5, <1>6, <1>7 DEF BackendInvariant, TypeOK

LEMMA BackendNext == BackendInvariant /\ [Next]_vars => BackendInvariant'
<1> SUFFICES ASSUME BackendInvariant, [Next]_vars PROVE BackendInvariant'
  OBVIOUS
<1>1. CASE PublishTelemetry \/ PublishLive
  BY <1>1, PublishTelemetryStep, PublishLiveStep
<1>2. CASE DeviceConnects \/ SessionBreaks \/ SessionEnds \/ LastWill \/ Beat \/ Tick
  BY <1>2, SessionSteps
<1>3. CASE Handler \/ WorkerRuns \/ WorkerFaults \/ \E f \in Flusher : FlushStep(f)
  BY <1>3, HandlerStep, WorkerStep
<1>4. CASE ApiStarts \/ ApiLinks \/ ApiUnlinks \/ ApiCrashes
  BY <1>4, LinkSteps, CrashStep
<1>5. CASE Router \/ MailStep \/ SweepStep \/ EditRules
  BY <1>5, LiveSteps, StatusSteps, QueueSteps DEF Router
<1>6. CASE UNCHANGED vars
  BY <1>6, Stutters
<1> QED
  BY <1>1, <1>2, <1>3, <1>4, <1>5, <1>6 DEF Next

LEMMA BackendInvariantHolds == Spec => []BackendInvariant
BY BackendInit, BackendNext, PTL DEF Spec

\* Every variable of worker, server, devices and broker keeps its type, whatever fails.
THEOREM BackendTypeCorrect == Spec => []TypeOK
<1>1. BackendInvariant => TypeOK
  BY DEF BackendInvariant
<1> QED
  BY <1>1, BackendInvariantHolds, PTL

\* No telemetry message becomes two rows, or a row after it was refused (store.go, ingest.go).
THEOREM RowsInsertedOnce == Spec => []InsertedOnce
<1>1. BackendInvariant => InsertedOnce
  <2> SUFFICES ASSUME BackendInvariant, NEW f \in Frame PROVE stored[f] =< 1 /\ (f \in refused => stored[f] = 0)
    BY DEF InsertedOnce
  <2>1. stored[f] \in Nat /\ stored[f] =< 1 /\ Apart(In)
    BY DEF BackendInvariant, TypeOK, IngestTypeOK, DeliveryInvariant
  <2>2. In["stored"] \cap In["refused"] = {}
    BY <2>1 DEF Apart, Place
  <2>3. f \in refused => ~ (stored[f] > 0)
    BY <2>2, Places
  <2> QED
    BY <2>1, <2>3
<1> QED
  BY <1>1, BackendInvariantHolds, PTL

\* The alarm of every event is accounted for (alerts.go, email.go).
THEOREM AlarmsAreAccounted == Spec => []AlarmsAccounted
<1>1. BackendInvariant => AlarmsAccounted
  BY AccountsFollow DEF BackendInvariant
<1> QED
  BY <1>1, BackendInvariantHolds, PTL
=============================================================================
