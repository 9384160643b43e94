------------------------------- MODULE Ingest -------------------------------
(***************************************************************************)
(* The ingest worker: cmd/ingest/main.go, the pipeline of ingest.go and    *)
(* enricher.go, the batch writer of store.go and the flag of               *)
(* maintenance.go.  The firmware publishes telemetry at QoS 0, so that the *)
(* broker hands it over at QoS 0, whatever the subscription asks for: what *)
(* arrives while the worker is away is lost.                               *)
(***************************************************************************)
EXTENDS Fleet, Integers, Sequences, FiniteSets, FiniteSetsExt

CONSTANTS
  MaxFrame,   \* telemetry messages of a behaviour
  Reading,    \* the "data" maps of the messages: functions from field names to integers
  BufCap,     \* rows the buffer of the batch writer holds: 10000
  BatchSize   \* rows of a batch: 1000

ASSUME IngestAssumption ==
  /\ MaxFrame \in Nat /\ BufCap \in Nat \ {0} /\ BatchSize \in Nat \ {0}
  /\ \A data \in Reading : \A key \in DOMAIN data : data[key] \in Int

VARIABLES
  worker,    \* "down", "connected" and not yet subscribed, "up", or "stopping" after a signal
  wire,      \* messages the broker has sent to the worker
  step, msg, \* the handler of telemetry/#: where it is, and its message
  maint,     \* maintenance_mode.enabled in Postgres
  seen,      \* the worker's copy of it
  buf,       \* bw.buf
  flush,     \* the two callers of Flush()
  stored,    \* history: how often each message was inserted into device_telemetry
  refused    \* history: the messages whose INSERT failed

process    == <<step, msg, seen, buf, flush>>
ingestVars == <<worker, wire, process, maint, stored, refused>>

Frame   == 1 .. MaxFrame
Message == [id : Frame, device : Device, data : Reading]
Flusher == {"loop", "main"}
Caller  == [pc : {"idle", "drain", "write"}, batch : Seq(Frame), last : BOOLEAN, failed : BOOLEAN]

IngestTypeOK ==
  /\ worker \in {"down", "connected", "up", "stopping"}
  /\ wire \in Seq(Message) /\ step \in {"idle", "write", "publish"}
  /\ step # "idle" => msg \in Message
  /\ maint \in BOOLEAN /\ seen \in BOOLEAN
  /\ buf \in Seq(Frame) /\ Len(buf) =< BufCap
  /\ flush \in [Flusher -> Caller]
  /\ \A f \in Flusher : Len(flush[f].batch) =< BatchSize
  /\ stored \in [Frame -> Nat] /\ refused \subseteq Frame

-----------------------------------------------------------------------------
(* Enrich(), which is called without groups: every channel counts as battery. *)

PowerKeys == {"ch0_P", "ch1_P", "ch2_P", "ch3_P"}
SocKeys   == {"soc_pct0", "soc_pct1", "soc_pct2", "soc_pct3"}

GetField(data, key) == IF key \in DOMAIN data THEN data[key] ELSE 0

Soc(data) == {data[key] : key \in SocKeys \cap DOMAIN data}

Enrich(data) ==
  LET battery == MapThenSumSet(LAMBDA key : GetField(data, key), PowerKeys)
  IN  [pv_power |-> 0, dc_load_power |-> 0,
       battery_power |-> battery, inverter_power |-> - battery,
       min_soc_pct |-> Min({100} \cup Soc(data)), max_soc_pct |-> Max({0} \cup Soc(data)),
       fields |-> data]

-----------------------------------------------------------------------------
(* The process.                                                             *)

AtRest == [f \in Flusher |-> [pc |-> "idle", batch |-> << >>, last |-> FALSE, failed |-> FALSE]]

IngestInit ==
  /\ worker = "up" /\ wire = << >>
  /\ step = "idle" /\ msg = 0 /\ maint = FALSE /\ seen = FALSE
  /\ buf = << >> /\ flush = AtRest
  /\ stored = [f \in Frame |-> 0] /\ refused = {}

\* Connect(), with NewMaintenanceMode() reading the flag before the subscription.
WorkerConnects ==
  /\ worker = "down" /\ worker' = "connected" /\ seen' = maint
  /\ UNCHANGED <<wire, step, msg, maint, buf, flush, stored, refused>>

WorkerSubscribes ==
  /\ worker = "connected" /\ worker' = "up"
  /\ UNCHANGED <<wire, process, maint, stored, refused>>

\* Without a handler for the topic, as between Connect() and Subscribe(), the client
\* drops what the persistent session of the broker sends it.
ToWorker(m) == wire' = IF worker \in {"up", "stopping"} THEN Append(wire, m) ELSE wire

Gone ==
  /\ worker' = "down" /\ wire' = << >>
  /\ step' = "idle" /\ msg' = 0 /\ buf' = << >> /\ flush' = AtRest
  /\ UNCHANGED <<seen, maint, stored, refused>>

WorkerCrash == worker # "down" /\ Gone

TogglePause == maint' = ~ maint /\ UNCHANGED <<worker, wire, process, stored, refused>>

-----------------------------------------------------------------------------
(* One message: the handler, Process() and Write().                         *)

\* IsEnabled() reads the flag again when its copy is 30 s old.  A message that does not
\* parse, or whose device is not resolved, ends here.
Handle ==
  /\ worker \in {"up", "stopping"} /\ step = "idle" /\ wire # << >>
  /\ wire' = Tail(wire) /\ seen' \in {seen, maint}
  /\ \/ ~ seen' /\ step' = "write" /\ msg' = Head(wire)
     \/ UNCHANGED <<step, msg>>
  /\ UNCHANGED <<worker, maint, buf, flush, stored, refused>>

\* Mutant: the row is appended, full or not.
WriteRowUnbounded ==
  /\ step = "write" /\ step' = "publish"
  /\ buf' = Append(buf, msg.id)
  /\ UNCHANGED <<worker, wire, msg, seen, maint, flush, stored, refused>>

\* Write(): a row that finds the buffer full is dropped, and the caller is not told.
WriteRow ==
  /\ step = "write" /\ step' = "publish"
  /\ buf' = IF Len(buf) < BufCap THEN Append(buf, msg.id) ELSE buf
  /\ UNCHANGED <<worker, wire, msg, seen, maint, flush, stored, refused>>

Republish ==
  /\ step = "publish" /\ step' = "idle" /\ msg' = 0
  /\ UNCHANGED <<worker, wire, seen, maint, buf, flush, stored, refused>>

-----------------------------------------------------------------------------
(* Flush(), of FlushLoop() every 30 s and of main() after the signal.        *)

Flushed(f, to) == flush' = [flush EXCEPT ![f] = to]

StartFlush ==
  /\ worker \in {"up", "stopping"} /\ flush["loop"].pc = "idle" /\ buf # << >>
  /\ Flushed("loop", [flush["loop"] EXCEPT !.pc = "drain"])
  /\ UNCHANGED <<worker, wire, step, msg, seen, maint, buf, stored, refused>>

Signal ==
  /\ worker = "up" /\ worker' = "stopping"
  /\ Flushed("main", [flush["main"] EXCEPT !.pc = "drain"])
  /\ UNCHANGED <<wire, step, msg, seen, maint, buf, stored, refused>>

\* Mutant: an empty buffer ends the flush, and the rows drained so far are forgotten.
DrainFullBatches(f) ==
  /\ flush[f].pc = "drain"
  /\ LET full == Len(flush[f].batch) = BatchSize
     IN  IF ~ full /\ buf # << >>
         THEN /\ buf' = Tail(buf)
              /\ Flushed(f, [flush[f] EXCEPT !.batch = Append(@, Head(buf))])
         ELSE /\ Flushed(f, IF full THEN [flush[f] EXCEPT !.pc = "write"] ELSE AtRest[f])
              /\ UNCHANGED buf
  /\ UNCHANGED <<worker, wire, step, msg, seen, maint, stored, refused>>

\* Mutant: two callers that drain at the same time are handed the same row.
DrainUnlocked(f) ==
  /\ flush[f].pc = "drain"
  /\ LET full == Len(flush[f].batch) = BatchSize
     IN  IF ~ full /\ buf # << >>
         THEN /\ buf' = IF \A g \in Flusher : flush[g].pc = "drain" THEN buf ELSE Tail(buf)
              /\ Flushed(f, [flush[f] EXCEPT !.batch = Append(@, Head(buf))])
         ELSE /\ Flushed(f, [flush[f] EXCEPT !.pc = "write", !.last = ~ full])
              /\ UNCHANGED buf
  /\ UNCHANGED <<worker, wire, step, msg, seen, maint, stored, refused>>

\* A row from the channel; a full batch, or what there was, goes to flushBatch().
Drain(f) ==
  /\ flush[f].pc = "drain"
  /\ LET full == Len(flush[f].batch) = BatchSize
     IN  IF ~ full /\ buf # << >>
         THEN /\ buf' = Tail(buf)
              /\ Flushed(f, [flush[f] EXCEPT !.batch = Append(@, Head(buf))])
         ELSE /\ Flushed(f, [flush[f] EXCEPT !.pc = "write", !.last = ~ full])
              /\ UNCHANGED buf
  /\ UNCHANGED <<worker, wire, step, msg, seen, maint, stored, refused>>

\* store.Write(): one INSERT, and a row that is refused is gone.
InsertRow(f, ok) ==
  /\ flush[f].pc = "write" /\ flush[f].batch # << >>
  /\ LET id == Head(flush[f].batch)
     IN  /\ stored'  = IF ok THEN [stored EXCEPT ![id] = @ + 1] ELSE stored
         /\ refused' = IF ok THEN refused ELSE refused \cup {id}
  /\ Flushed(f, [flush[f] EXCEPT !.batch = Tail(@), !.failed = @ \/ ~ ok])
  /\ UNCHANGED <<worker, wire, step, msg, seen, maint, buf>>

\* Flush() stops at an empty buffer and at the first batch with a failure.
EndBatch(f) ==
  /\ flush[f].pc = "write" /\ flush[f].batch = << >>
  /\ Flushed(f, IF flush[f].last \/ flush[f].failed THEN AtRest[f] ELSE [flush[f] EXCEPT !.pc = "drain"])
  /\ UNCHANGED <<worker, wire, step, msg, seen, maint, buf, stored, refused>>

\* main() returns after its own flush, whatever the handler and FlushLoop() hold.
Exit == worker = "stopping" /\ flush["main"].pc = "idle" /\ Gone

-----------------------------------------------------------------------------

\* No message becomes two rows and none is inserted after it was refused, whatever the two
\* callers of Flush(), batches that fail half-way and restarts do (flushBatch(), store.Write()).
InsertedOnce == \A f \in Frame : stored[f] =< 1 /\ (f \in refused => stored[f] = 0)

\* Rows accepted into the buffer are neither forgotten nor held for ever: each comes to
\* be inserted or refused by ClickHouse, unless the process ends first (FlushLoop(),
\* Flush() and flushBatch(), two of them at once after the signal).
RowsReachStore ==
  \A f \in Frame :
    (\E i \in DOMAIN buf : buf[i] = f) ~> (stored[f] > 0 \/ f \in refused \/ worker = "down")
=============================================================================
