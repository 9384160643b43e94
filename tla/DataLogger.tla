----------------------------- MODULE DataLogger -----------------------------
(***************************************************************************)
(* src/data_logger.cpp: the ring of base and delta entries that the sensor *)
(* task fills, its spill to the SD card while the network is down, the     *)
(* batch of CSV rows, and the file of telemetry lines whose publication    *)
(* failed, which the network task writes, reads back and removes.          *)
(* log_sample() is three steps of the sensor task: the part that ends with *)
(* the lock, the flush to the card, the CSV row.  The card may be taken    *)
(* out and put back between any two steps.                                 *)
(***************************************************************************)
EXTENDS Naturals, Sequences

CONSTANTS
  MaxSample,    \* samples that are logged: 1 .. MaxSample; later ones are not followed
  RingSize,     \* entries the ring holds (16 KB; an entry is 27 or 29 bytes)
  OverflowMax,  \* entries of the overflow file from which on it is wiped: 1 MB
  TelemetryMax  \* the same of the telemetry file, in lines

ASSUME LoggerAssumption ==
  /\ MaxSample \in Nat /\ RingSize \in Nat \ {0}
  /\ OverflowMax \in Nat \ {0} /\ TelemetryMax \in Nat \ {0}

Sample == 1 .. MaxSample
Line   == 0 .. MaxSample   \* the line of a snapshot; 0: one that is not followed
Entry  == [at : Sample, base : BOOLEAN, whole : BOOLEAN]   \* only in the file may one not be whole
Closed == [open |-> FALSE, rest |-> << >>]

VARIABLES
  link,        \* WiFi.status() == WL_CONNECTED
  logStep,     \* where the sensor task is in log_sample()
  now,         \* samples taken so far
  haveBase,    \* have_base
  ring,        \* the entries between tail and head
  pending,     \* g_sd_flush_buf, up to g_pending_sd_flush_len
  flushing,    \* the console is in the loop of 'flush log'
  csvRows,     \* rows in g_csv_line_buf; the buffer holds two
  card,        \* the card is in its slot
  sdTried,     \* g_sd_initialized
  sdPresent,   \* g_sd_present
  overflow,    \* /log_overflow.bin
  telemetry,   \* /telemetry_overflow.jsonl; a file without lines does not exist
  reader,      \* g_telem_overflow_file: the lines it has yet to give
  dropped,     \* history: an entry was discarded
  cuts         \* history: how many appends to the overflow file were cut short

sd     == <<sdTried, sdPresent>>
logger == <<logStep, now, haveBase, ring, pending, csvRows, cuts>>
files  == <<overflow, telemetry, reader>>
logVars == <<link, logger, flushing, card, sd, files, dropped>>

LogTypeOK ==
  /\ link \in BOOLEAN /\ logStep \in {"sample", "flush", "row"} /\ now \in 0 .. MaxSample
  /\ haveBase \in BOOLEAN /\ ring \in Seq(Entry) /\ Len(ring) =< RingSize
  /\ pending \in Seq(Entry) /\ flushing \in BOOLEAN /\ csvRows \in Nat
  /\ card \in BOOLEAN /\ sdTried \in BOOLEAN /\ sdPresent \in BOOLEAN
  /\ overflow \in Seq(Entry) /\ telemetry \in Seq(Line) /\ Len(telemetry) =< TelemetryMax
  /\ reader \in [open : BOOLEAN, rest : Seq(Line)] /\ dropped \in BOOLEAN /\ cuts \in Nat

\* SD.begin(): it finds a card that is in its slot, and may not notice that one is gone.
Begins == IF card THEN {TRUE} ELSE BOOLEAN

\* init_sd(), which answers whether the card can be used.
InitSd(up) ==
  /\ up \in (IF sdTried THEN {sdPresent} ELSE Begins)
  /\ sdTried' = TRUE /\ sdPresent' = up

\* sd_reset()
SdReset == sdTried' = FALSE /\ sdPresent' = FALSE

\* The first boot, with a card or not: init_data_logger() and the static data.
LogInit ==
  /\ link = FALSE
  /\ logStep = "sample" /\ now = 0 /\ haveBase = FALSE /\ ring = << >> /\ pending = << >>
  /\ flushing = FALSE /\ csvRows = 0 /\ reader = Closed
  /\ sdTried = TRUE /\ sdPresent \in Begins
  /\ overflow = << >> /\ telemetry = << >> /\ dropped = FALSE /\ cuts = 0

Full == Len(overflow) >= OverflowMax

\* What of the pending entries an append may leave that fails or does not come to its end: the
\* first n, of which the last may be torn.
Part(n, torn) == [k \in 1 .. n |-> [pending[k] EXCEPT !.whole = ~ (torn /\ k = n)]]

\* The sensor task has a file to append to.
Appending == logStep = "flush" /\ pending # << >> /\ card /\ (sdTried => sdPresent)

\* An append that ends early; a file at its limit was removed before, or could not be looked at.
\* Before a reset nothing follows the gap but a base; else the entries are lost to those after them.
CutAppend(n, lost) ==
  /\ Appending /\ cuts' = cuts + 1
  /\ \E torn \in BOOLEAN, kept \in {overflow} \cup (IF Full THEN {<< >>} ELSE {}) :
        /\ n < Len(pending) \/ torn
        /\ overflow' = kept \o Part(n, torn)
        /\ dropped' = (dropped \/ lost \/ kept # overflow)

\* What a reset leaves: the card and its files, one of them perhaps in the middle of an append.
\* What was in RAM is discarded, but the next sample is a base.
LogReset ==
  /\ logStep' = "sample" /\ haveBase' = FALSE /\ ring' = << >> /\ pending' = << >>
  /\ flushing' = FALSE /\ csvRows' = 0 /\ reader' = Closed
  /\ sdTried' = TRUE /\ sdPresent' \in Begins /\ link' = FALSE
  /\ \/ UNCHANGED <<overflow, dropped, cuts>>
     \/ \E n \in 0 .. Len(pending) : CutAppend(n, FALSE)
  /\ UNCHANGED <<now, card, telemetry>>

\* The entry of the next sample: a base if there is none yet, or if the sample is far from its
\* predecessor in value or in time.
MakeEntry(far) == [at |-> now + 1, base |-> ~ haveBase \/ far, whole |-> TRUE]

\* Mutant: the copy is flushed but the ring is kept.
SpillKeeping(e) ==
  \E up \in BOOLEAN :
     /\ IF link THEN up = FALSE /\ UNCHANGED sd ELSE InitSd(up)
     /\ pending' = IF up THEN ring ELSE << >>
     /\ ring' = Append(Tail(ring), e)
     /\ dropped' = (dropped \/ ~ up)

\* A full ring is emptied, towards the card if the network is down and there is a card.
Spill(e) ==
  \E up \in BOOLEAN :
     /\ IF link THEN up = FALSE /\ UNCHANGED sd ELSE InitSd(up)
     /\ pending' = IF up THEN ring ELSE << >>
     /\ ring' = <<e>>
     /\ dropped' = (dropped \/ ~ up)

\* can_fit(): one place always stays free.
CanFit == Len(ring) < RingSize

\* log_sample(), to the end of the critical section.
LogSample(far) ==
  /\ logStep = "sample"
  /\ IF CanFit
     THEN ring' = Append(ring, MakeEntry(far)) /\ UNCHANGED <<pending, sd, dropped>>
     ELSE Spill(MakeEntry(far))
  /\ now' = now + 1 /\ haveBase' = TRUE /\ logStep' = "flush"
  /\ UNCHANGED <<link, flushing, csvRows, cuts, card, files>>

\* Mutant: the file is opened to be written from its start.
FlushWrite ==
  /\ overflow' = pending
  /\ dropped' = (dropped \/ Full)

\* The file is removed at its limit, and then appended to.
FlushAppend ==
  /\ overflow' = (IF Full THEN << >> ELSE overflow) \o pending
  /\ dropped' = (dropped \/ Full)

\* flush_buffer_to_sd(), when there is something to flush and the card does its part.
FlushToSd ==
  /\ logStep = "flush" /\ logStep' = "row" /\ pending' = << >>
  /\ \/ pending = << >> /\ UNCHANGED <<sd, overflow, dropped>>
     \/ /\ pending # << >> /\ card /\ InitSd(TRUE)
        /\ FlushAppend
     \/ /\ pending # << >> /\ InitSd(FALSE)
        /\ dropped' = TRUE /\ UNCHANGED overflow
     \/ /\ pending # << >> /\ ~ card /\ (sdTried => sdPresent)
        /\ SdReset /\ dropped' = TRUE /\ UNCHANGED overflow
  /\ UNCHANGED <<link, now, haveBase, ring, flushing, csvRows, cuts, card, telemetry, reader>>

\* The same when the card has a fault, is full or is pulled out meanwhile.  A write that takes
\* anything at all is a success; if the file does not open, or takes nothing, the card is reset.
FlushFails ==
  /\ logStep' = "row" /\ pending' = << >>
  /\ \E n \in 0 .. Len(pending) :
        CutAppend(n, TRUE) /\ IF n = 0 THEN SdReset ELSE InitSd(TRUE)
  /\ UNCHANGED <<link, now, haveBase, ring, flushing, csvRows, card, telemetry, reader>>

\* sd_write_csv_row(): a row more, and all of them to the card if they fill half of the buffer or
\* the interval has passed.  If the file does not open the rows stay, and so does their number.
WriteRow ==
  /\ logStep = "row" /\ logStep' = "sample"
  /\ \/ ~ sdPresent /\ UNCHANGED <<csvRows, sd>>
     \/ sdPresent /\ csvRows = 0 /\ csvRows' = 1 /\ UNCHANGED sd
     \/ sdPresent /\ card /\ csvRows' = 0 /\ UNCHANGED sd
     \/ sdPresent /\ ~ card /\ csvRows' = csvRows + 1 /\ SdReset
  /\ UNCHANGED <<link, now, haveBase, ring, pending, flushing, cuts, card, files, dropped>>
\* A card that is in its slot may refuse to open the file, too.
RowFails ==
  /\ logStep = "row" /\ logStep' = "sample" /\ sdPresent
  /\ csvRows' = csvRows + 1 /\ SdReset
  /\ UNCHANGED <<link, now, haveBase, ring, pending, flushing, cuts, card, files, dropped>>

\* 'flush log' of the console: batches of log_pop_batch(), until one is empty.
FlushLog ==
  /\ ~ flushing /\ flushing' = TRUE
  /\ UNCHANGED <<link, logger, card, sd, files, dropped>>
\* pop_ring(): the oldest entry goes, for good.
PopRing == ring # << >> /\ ring' = Tail(ring) /\ dropped' = TRUE
PopBatch ==
  /\ flushing
  /\ \/ ring = << >> /\ flushing' = FALSE /\ UNCHANGED <<ring, dropped>>
     \/ PopRing /\ UNCHANGED flushing
  /\ UNCHANGED <<link, logStep, now, haveBase, pending, csvRows, cuts, card, sd, files>>

\* The card is taken out, which ends the file handle, and put back.
CardOut ==
  /\ card /\ card' = FALSE /\ reader' = [reader EXCEPT !.rest = << >>]
  /\ UNCHANGED <<link, logger, flushing, sd, overflow, telemetry, dropped>>
CardIn ==
  /\ ~ card /\ card' = TRUE
  /\ UNCHANGED <<link, logger, flushing, sd, files, dropped>>

-----------------------------------------------------------------------------
(* What the network task calls.                                             *)

\* log_has_overflow_file(): init_sd() and a look.
HasOverflowFile == \E up \in BOOLEAN : InitSd(up)

\* Mutant: one line too late.
TelemetryFullLate == Len(telemetry) > TelemetryMax

TelemetryFull == Len(telemetry) >= TelemetryMax

\* save_telemetry_overflow().  A file at its limit is removed; an open handle may still give what
\* it had to give.
SaveTelemetry(p) ==
  \/ /\ card /\ InitSd(TRUE)
     /\ telemetry' = Append(IF TelemetryFull THEN << >> ELSE telemetry, p)
     /\ reader' \in {reader} \cup (IF TelemetryFull THEN {[reader EXCEPT !.rest = << >>]} ELSE {})
  \/ /\ \E up \in BOOLEAN : (up => ~ card) /\ InitSd(up)
     /\ UNCHANGED <<telemetry, reader>>

\* The lines that drain_telemetry_overflow() has to give: it opens the file if it has not.
ToRead == IF reader.open THEN reader.rest ELSE telemetry

\* Nothing was read, or the last line was.
AtEnd == Len(ToRead) =< 1

\* Mutant: at the end the file is closed and kept.
CloseFileKeeping == reader' = Closed /\ UNCHANGED telemetry

\* At the end the file is removed, with whatever was appended since it was opened.
CloseFile == reader' = Closed /\ telemetry' = << >>

\* drain_telemetry_overflow(): one line, or none.
DrainTelemetry(line) ==
  IF ~ card \/ telemetry = << >>
  THEN line = << >> /\ UNCHANGED <<telemetry, reader>>
  ELSE /\ line = IF ToRead = << >> THEN << >> ELSE <<Head(ToRead)>>
       /\ IF AtEnd THEN CloseFile
          ELSE reader' = [open |-> TRUE, rest |-> Tail(ToRead)] /\ UNCHANGED telemetry

-----------------------------------------------------------------------------
(* Properties.                                                              *)

\* All that the logger holds, from the oldest.
Held == overflow \o pending \o ring

\* No entry is held twice or out of order, whatever was torn.  None is torn unless an append was
\* cut by the card or by a reset.  And unless entries were discarded, by a full ring without a
\* card, by a failed append, with a file at its limit or by hand, each delta comes right after the
\* sample it was taken against: a reset, even one in the middle of an append, breaks no chain.
LogDecodes ==
  \A k \in DOMAIN Held :
     /\ k > 1 => Held[k - 1].at < Held[k].at
     /\ ~ Held[k].whole => cuts > 0
     /\ ~ Held[k].base => \/ dropped
                          \/ k > 1 /\ Held[k - 1].at = Held[k].at - 1

\* An entry leaves the logger for one of these reasons only.  What is in the file: the file is at
\* its limit when there is more to append.  What is not: the network is up and the ring full,
\* the card turns out to be unusable, an append is cut, the console pops it, or a reset.
LogKept ==
  [][\A k \in DOMAIN Held :
        \/ \E j \in DOMAIN Held' : Held'[j] = Held[k]
        \/ k =< Len(overflow) /\ pending # << >> /\ Full
        \/ k > Len(overflow) /\ \/ link /\ Len(ring) = RingSize
                                \/ ~ sdPresent' \/ cuts' > cuts
                                \/ flushing \/ haveBase' = FALSE]_logVars
=============================================================================
