# Power monitor: TLA+ models, checks and proofs

The repository holds the firmware of an ESP32 power monitor that also switches loads
(`src/`, `include/`), a Go backend (`backend/`), a dashboard (`ui/`) and a host simulator
(`sim/`). This directory holds models of its core logic, the TLC runs that check them on small
instances, and proofs of the properties that matter most for every instance. Paths and line
numbers below are relative to the repository.

1. [The system](#1-the-system)
2. [The modules](#2-the-modules)
3. [What the runs show](#3-what-the-runs-show)
4. [What is proved](#4-what-is-proved)
5. [Where code and documents disagree](#5-where-code-and-documents-disagree)
6. [What is not modelled, and the plan](#6-what-is-not-modelled-and-the-plan)
7. [How to run it](#7-how-to-run-it)

## 1. The system

### The tasks of the device

| task | started at | what it does |
|---|---|---|
| sensor | `src/main.cpp:190` | once a second: read the INA3221 and pod channels, evaluate the rules of the switches, update counters, log a sample, confirm new firmware once |
| network | `src/connectivity_manager.cpp` | WiFi state machine, MQTT publish and drain, command poll every 5 s, OTA |
| loop (console) | `src/main.cpp:999` | assemble lines from the UART and run them |
| BLE | `src/ble_provisioner.cpp` | provisioning and settings, each command a JSON document |
| UI, display | `src/ui_manager.cpp`, `src/display_manager.cpp` | buttons and pages |

They share RAM and the NVS key-value store. Most of what they share is protected by no lock:
`include/switch_controller.h:98-112` says so for the switches, and rests on single words being
written atomically and on collisions being rare.

### Components, their state, and what makes them correct

| component | state | hard behaviour | correct when |
|---|---|---|---|
| switch controller (`switch_controller.cpp`) | `switch_states[]`, `switch_auto_enabled`; NVS `sw_ch_N`, `sw_rule_N`, `sw_auto`; GPIO and PCF8574 outputs | five tasks, no lock; a blocking publish between two halves of a trip; `millis()` wraps; resets; expander writes that fail | a rule switches only after its delay; a pulse ends; a pulsed switch returns to its rule; NVS, mirror and output end up equal; a condition that lasts trips and one that clears resets |
| command queue (`commands.go`, `check_settings_commands`) | table `device_commands`; the answer of the poll under way | three HTTP exchanges, each may be lost; resets; bounds on the answer and on a poll | no command runs twice; a status is true; polls do not overtake each other; small batches conclude |
| BLE provisioning and settings (`ble_provisioner.cpp`, `settings_manager.cpp`) | PIN, count of wrong PINs and settings in NVS; rate limit, queue of 4 commands | cool-off over resets; several puts per command; the stack is taken down for TLS | wrong PINs are spaced; an answer says what was stored; who knows the PIN gets in |
| console (`main.cpp:234-915`) | `line`, `len`, the UART's buffer | the bytes of a line arrive in pieces; one long chain of prefixes | each line runs, once, as documented |
| boot, safe mode (`main.cpp`, `device_identity.cpp`) | crash counter and clean flag in NVS | restarts of seven places; a reset during boot | what is counted is what crashed, up to boots cut short |
| OTA (`ota_client.cpp`, `ota.go`) | state machine, two partitions, release table | nine error paths; a stall; roll-back by the bootloader | whatever boots is whole; a download ends and leaves nothing behind; versions do not go down but by roll-back |
| counters and batteries (`coulomb_counter.cpp`, `cycle_counter.cpp`, `battery_*.cpp`) | RAM copy and NVS copy per channel; profiles, bindings | late load outside the lock; copies saved after the lock; crashes; safe mode | no cycle is counted that was not travelled; a crash loses little; configuration lasts |
| data logger (`data_logger.cpp`) | ring of base and delta entries, pending flush, overflow file, CSV rows, telemetry file | eviction of a base under its deltas; a card that is taken out, fills up or fails in the middle of a write | the log can be decoded and loses entries only for known reasons |
| connectivity (`connectivity_manager.cpp`, `core_shared.cpp`) | WiFi state, MQTT session, life of the BLE stack, queue of 16 snapshots | back-off, one blocking step a tick, edges of the link | no reading is published twice; the backlog drains; without a link there is BLE |
| ingest (`ingest.go`, `enricher.go`, `store.go`, `maintenance.go`) | buffer, two flushers, cached flag | store outages, shutdown, crash | an accepted row is inserted or refused |
| alerts and mails (`alerts.go`, `email.go`) | cached rules, streaks, alarm rows, mail rows | restarts, failed statements, edited rules | an alarm gives one mail |
| presence (`status.go`, `mqttauth.go`) | `is_active`, `last_seen_at`; retained message, last will | wills after new sessions, the sweep, reconnects | what dashboards show settles on what is so |
| sessions (`auth.go`, `refreshtokens.go`) | table of refresh tokens | concurrent rotations | one token gives one successor |

`PROJECT.json` lists every component, the ones left out with the reason, and under "hazards" what is hard to
test in this code, at its line, with the properties that would catch it going wrong.

### How they interact

The sensor task calls `evaluate_switches()`, the counters and `log_sample()`, and queues a snapshot for the
network task. The console, the network task, the BLE task and the UI task call the manual operations of the switch controller,
directly, in their own context. The backend never calls the device: the device polls, takes what the answer holds, applies each
command through `apply_settings_command()`, and posts each outcome. The network task owns WiFi and MQTT, publishes
snapshots, saves what it could not publish to the card, takes the BLE stack down when the link is up and starts it again when the link is
lost. The broker passes telemetry to the ingest worker and status messages and live rows to the API, which runs rules
and mails. The console's `test all switches` waits in its task for the sensor task to end the pulse it started: the only place
where one task waits for another.

## 2. The modules

| module | models | extends or uses |
|---|---|---|
| `SwitchRules` | the pure half of the switch controller: conditions, hysteresis, latches, schedule, combination | |
| `SwitchController` | the tasks on the switch controller | `SwitchRules` |
| `SwitchControllerProofs` | theorems about it | |
| `CommandService` | what the queue promises: each command offered, run at most once, concluded with its outcome | |
| `CommandQueue` | backend handlers, device poll and the network between them; implements `CommandService` | `CommandService` (INSTANCE) |
| `CommandQueueProofs` | theorems about it, the refinement included | |
| `SettingsCommands` | the two command tables of `ble_provisioner.cpp`: what each command checks, stores, needs and how it ends | |
| `BleProvisioner` | BLE callbacks, queue, PIN check, rate limit, the puts of a command, reset, stack up and down | `SettingsCommands` |
| `BleProvisionerProofs` | theorems about it, and what they need of the tables | |
| `SerialCli` | the line buffer and the whole chain of branches | |
| `SerialCliProofs` | theorems about it | |
| `Firmware` | boot, crash counter, OTA client, release table, bootloader | |
| `FirmwareProofs` | theorems about it | |
| `BatteryCounters` | coulomb and cycle counter of a channel, profiles, bindings, under sensor task and clients | |
| `BatteryCountersProofs` | theorems about it | |
| `DataLogger` | ring, flush, overflow file, CSV rows, telemetry file, card | |
| `Uplink` | network task, WiFi, MQTT, BLE stack, sensor queue, composed with the logger | `DataLogger` |
| `UplinkProofs` | theorems about it, those of the logger included | |
| `Fleet` | the devices and messages the backend modules share | |
| `Ingest`, `Alerts`, `Presence` | the three parts of the backend | `Fleet` |
| `Backend` | broker, API router and worker, composing the three | all four |
| `BackendProofs` | theorems about it, those of its parts included | |
| `MC...` | values of the constants for the runs | |

`PROJECT.json` maps each definition to its lines. A definition whose comment begins with "Mutant:" is a
plausible mistake in the definition after it; no specification uses it.

### SwitchController

*State.* `chan`, `rule`, `nvAuto` are the NVS rows, which survive `Reboot`; `auto` and `st` are
`switch_auto_enabled` and `switch_states[]`; `pin` is what an output really drives, which differs from `st` whenever
the two writes of a trip are apart or an expander write failed. `now` is `millis()`
modulo `TimeMod`; `lag` counts from the start of the latest pass. `pc` and `fr` are the place
and the locals of each task. `ev` is what a pass read when it began (the code passes `now` and the snapshot
down). `run` is history: no action reads it.

*Steps.* The code takes no lock, so a call is a sequence of steps. A step writes one
thing that the tasks share; reads belong to the step of the next write, except where a value is read long
before it is used, in which case the read is a step (`CheckAuto`, `EvalRule`) or the value is kept in
`fr`. The order of the writes is that of the code: `switch_set()` output, mirror, row (`SetPin`, `SetMirror`,
`SetSave`); a trip mirror, output, row (`Decide`, `Drive`, `PersistChannel`); `switch_pulse()` set, flag,
deadline; `set_switch` row, rule.

*Time.* `Tick` is enabled while `lag < MaxLag`. The sensor task runs every second, its HTTP calls
time out and the watchdog resets a task that hangs: a pass late by half the range of `millis()` (24 days) does not
happen, and `ControllerAssumption` says just that (`MaxDelay + MaxLag < HalfMod`). The signed
difference of `switch_controller.cpp:540` is `Elapsed`.

*Abstractions.*
- Readings and thresholds are integers in a unit coarser than the comparison epsilons. The sensor's snapshot is any member
  of `Snapshots`; a schedule is the set of hours its mask holds; the SOC is part of the snapshot.
- One `PulseTime` for all pulses (the console passes 1000 and 3000 ms).
- `was_energized` is left out: it equals `energized` whenever it is read.
- `publish_switch_state()` changes nothing on the device and is left out; that it blocks is why other
  tasks run between the steps around it.
- Each expander bit is an output of its own (that `pcf8574at.cpp` shares one shadow byte is a
  listed hazard). A write to it may fail; a boot may find its outputs high.
- Adding a switch at run time, changing its type or pin, and the defaults of a first boot are left out. An NVS row
  is read and written whole, as the header assumes.
- Clients obey the header's threading model, which allows any task to make any call: `switch_set_auto()` has no
  caller that can be reached today (section 5), and is modelled as the header offers it. `nvAuto` may be TRUE at the
  first boot: earlier firmware may have stored it.

### CommandQueue

`row` is the table; `older` and `times` are history. An HTTP exchange is two steps, its arrival at the backend and the
return of the answer, so a loss between the two leaves rows claimed that nobody runs: `PollLost`
covers it, as it covers a cut or late answer and a reset. `StrayClaim` is a claim whose answer reaches nobody
who runs commands: a repeated request, or the owner's own (`GetPendingCommands` accepts a user token). `ReadBody` is
the body buffer of 2048 bytes: a command takes `Size[c]` of it, and an answer that is longer is cut, does not parse and is lost, however few its commands are; `SkipCommand` the failed allocation. A report may arrive twice, because `backend_post()` sends again when its answer is lost. The effect of a
command is its outcome: what it does inside the device belongs to the other modules. `Refused` is the set of
commands that fail. A result posted by the owner by hand is left out: it may say anything.

`CommandService` keeps of all that three variables: what each command's user can see, and how often it ran. The
refinement mapping of `CommandQueue` (`Service`) forgets polls, reports and statuses under way.

### SettingsCommands and BleProvisioner

A command is a name, a PIN, an old PIN, a value, whether its arguments pass the handler's checks, and the fields it has
values for. A table entry is the list of NVS keys the handler writes, in order; of these, those it leaves alone when the command has no value for them
(`leaves`: the Supabase settings, counts that do not grow, strings over BLE, which are null then, a topic of the backend, a calibration of an unknown type), while every other is
written with the handler's default (`ValueOf`); the values it refuses a command without; the keys its answer
needs; whether it checks first; whether the keys are those of two shapes of the command; and how it ends (answer, restart, stack torn down). So some seventy branches are one
mechanism: a command comes off the queue under the rate limit (`Receive`) or from the backend (`Claim`), its PIN and arguments are
checked (`Refuse`, `Begin`), it stores a key at a time (`SaveKey`) and answers (`Finish`). Any put may not be taken by the store (`puts`), that of the count of wrong PINs included (`CountFails`);
only those of the profiles and of a binding change the answer (`Heeded`), and `refused` is history. That `putString()` stores nothing for a null string is the library's. The three `clear()` calls of a factory reset are one step that is taken. What is still
to store is a set of positions of that list, the first of which is next. The calibrations are one part of both tables, as their setters in `sensor_manager.cpp` are; that a scan of the bus rewrites the list of sensors is not followed. The NimBLE host task may queue a command, the client may leave and power may fail between any
two. Times are ticks since an event, counted up to the largest delay they are compared with; `quiet` is history: how long the device
has run since a wrong PIN was counted.

### SerialCli

The text of a line is one token, and so is each terminator, because the code looks at what has
arrived by now: `RunLine` skips the terminators in the receive buffer, and one that arrives later is stored as the
first byte of the next line. `Chain` is the chain of branches in the order of the source, each with the forms its
`sscanf` accepts; the first that matches wins. What a branch does afterwards, a restart of the device included, is left to the modules of the parts it calls: the lines after a `reboot` are read on. `LinesRunAsTyped` compares it with the help text of the console.

### Firmware

Two partitions, what otadata says of each, and the bootloader's rule for a pending image. `loop_ota_client()` is one action per state
and outcome; `ota` is its static state with the connection, the update handle and the hash as flags. `Reset` is any reset and may come at
any step, a boot included: `CountBoot` and `ClearFlag` are the two puts of `init_device_identity()`, and each of them, like that of a mark, may fail unnoticed (`Put`).
`marked` and `unmarked` are history: restarts that called `mark_clean_shutdown()`, and boots that none preceded; `slips` counts the boots cut
before their second put and the puts that failed. NVS survives; `FactoryReset` erases it, and the console's is a `FactoryReset` followed by a `Reboot`.

### BatteryCounters

One channel in whole units of charge, which are also units of the state of charge and of cycles. `g_battery_mux` makes single
assignments atomic; the model steps where the lock is released: a load from NVS and its store in the cache, a copy taken
under the lock and its save after it; and, as the coulomb counter has no lock, a reading and its sum, the argument of a save and its put. Every put
may be refused (`Outcomes`, `fails`), and `opens` says whether the battery namespaces open at all, which decides over those of cycles, profiles and bindings. `travel` is
history: how far the state of charge has moved; so are `missed`, periodic saves refused in a row, and `raced`, a reset of the counter that crossed a store or a save or was itself refused, until a save is stored.

### DataLogger and Uplink

A sample is its number and an entry says whether it is a base or a delta, and whether it is whole; the file is a sequence of entries. `log_sample()` is three
steps: what happens under the lock, the flush to the card, the CSV row. A card may be out while the driver still believes in
it (`sdPresent`), and `SD.begin()` may not notice. A card in its slot may have a fault or be full (`CardFails`): the file does not open, takes nothing, or takes a beginning of what was
to be appended, which the code counts as success; the last entry of it may be torn, and a reset in the middle of an append leaves the same (`CutAppend`). `cuts` counts these as history.
The telemetry file is written whole or, without a card, not at all: of its lines nothing is said that a torn one could break but that it is read once. `Uplink` cuts a pass of the network task where it blocks. Left out: the deferred Supabase
requests, the validity of the NTP epoch, `publish_log_batch()` (no caller), lines longer than the buffer, the HTTP transports.

### Ingest, Alerts, Presence, Backend

A message is the "data" map of a frame. The worker's handler, its flush loop and `main`'s final flush are separate actors, and so are the
API's router, the mail loop and the sweep. The statements these make (a row's INSERT, the alarm's INSERT and UPDATE, the mail's INSERT and its UPDATEs, the status UPDATE, the sweep) may each fail,
and those whose reply decides what follows may also commit with the reply lost (`Outcome`, `StatusUnheard`, `SweepFails`); a query that fails does nothing and is repeated. For ClickHouse an INSERT that times out counts as not stored, which is an assumption on the store. MQTT is QoS 0 both ways, because the firmware's
client publishes so. Assumed: a handler, a broadcast and a sweep end within the 15 s tick (a WebSocket write has no deadline:
`websocket.go:153`, a hazard); live rows come from a worker that is not followed, on a budget of their own; the owner
of a device has an address and wants mail; `next_attempt_at` is abstracted to "later". `stored`, `refused`, `marred`, `outs` and `untold` are history: how often a
message was inserted, which INSERT failed, the events whose alarm met a crash or a failed statement on its way (an UPDATE to 'sending' that fails alone does no harm and is not among them), how often
SMTP took a mail, and the devices whose row changed by a statement whose reply was cut. Devices start as connected and known, or as new rows that nobody has seen.

## 3. What the runs show

Every passing run is exhaustive within its bounds, which are named constants given in each `.cfg`. Runs of a device or of the backend start
from a *scenario*, a record saying how much of each thing may happen: all scenarios of a run are checked, each alone, so that
every kind of fault meets every part of the protocol without multiplying the kinds.

| run | question | answer |
|---|---|---|
| `SwitchSensorAlone` | four rules of every kind, three snapshots, late passes, the wrap of the clock, a reset at any step: does a rule wait for its delay, and does a finished evaluation leave output, mirror and row equal? | yes |
| `SwitchClients` | a client that switches OFF and pulses at any step of a pass, on an expander whose writes may fail: do the timers of the rule stay exact? | yes |
| `SwitchTestAll` | `test all switches` on two switches: does each pulse end and its flag come down? | yes |
| `SwitchSchedule` | a switch whose row and rule are rewritten, and whose auto-trip may be turned off, during passes: once nothing is rewritten any more, does it follow its schedule while auto-trip is on? | yes |
| `SwitchOverload` | the default rule under a permanent overload: does it trip? | no (section 5) |
| `Commands` | bursts, losses, resets, failed allocations, stray claims: at most once, true statuses, order between polls, small batches conclude, and the queue implements `CommandService`? | yes |
| `CliLines` | any line ending, bytes in any pieces: does the buffer hold, and, with one-byte endings, does each documented line do what the help says? | yes, but for lines that are shadowed (section 5) |
| `FirmwareUpdate` | updates with releases that do not fit, WiFi outages, restarts, crashes at any step of a boot too, puts that fail: only whole images boot, handles are kept exactly as long as needed, crashes are counted, a download ends? | yes |
| `Battery` | counters, profiles and bindings under sensor task, client, resets, safe mode, refused writes, namespaces that do not open | yes |
| `Uplink` | outages of access point and broker, credentials, card, resets: log, telemetry file, BLE | yes |
| `Ble` | wrong PINs, bad arguments, PIN changes, remote commands, resets, stack down and up | yes |
| `Backend` | outages of store and database, restarts, broken sessions, edited rules | yes |

### The properties

- `TimersExact`: `condition_active` and `condition_start_ms` say exactly since when the evaluations of a rule
  have agreed. The history `run` counts this independently of the code's clock arithmetic: by ticks, without
  wrap. A client that restarted a timer, a stale start, a wrap gone wrong would break it.
- `RuleFlipsAreSustained` (action property): the engine decides to trip only if each evaluation over the trip delay
  found the condition met, and to reset only if each over the reset delay found it clear.
- `EvaluationSettles`: with no client, a switch the engine is done with has row, mirror and output equal, after any reset.
- `PulseFlagClears`, `PulseEnds`: a pulse ends, and its switch goes back to the rule.
- `ScheduleFollows`: once auto-trip is on, clients are quiet and the window stays open (shut), the output comes to stay ON (OFF).
- `AtMostOnce`, `ResultIsTrue`, `OldCommandsStayOld`, `SmallBatchesConclude`, `ImplementsService`: the promises of section 1, and that together they are all a user can see.
- `LinesRunAsTyped`: the effects of the lines typed are those the help text promises, in that order.
- `BootsWholeImage`: the running partition, the one that boots next and the one a roll-back would take are whole.
- `DownloadHoldsItsHandles`: connection, update handle and hash are held exactly in the states that need them.
- `CountsUnmarkedBoots`: the crash count is the number of boots that no `mark_clean_shutdown()` preceded, and safe mode follows it, up to one for each boot that was
  itself cut before both its puts were made and each put that failed: exact without those, and never further off than they are many.
- `OnlyRollbackDowngrades`, `DownloadEnds`: as named.
- `CyclesAreTravel`: cycles counted, in RAM and in flash, with the open session, never exceed what the state of charge moved.
- `ChargeLossBounded`: a crash loses no more than was integrated since the last save that was stored: one interval, and one more for each save refused since. Left out are the
  time of a reset of the counter, what one left that crossed the store or save of a sum or whose write was refused, up to the next save that is stored (`raced`), and safe mode.
- `ConfigurationDurable`: once a blob's version key is in flash, what was configured with success is what the next boot reads, whatever is refused before and after. `FlashFollowsRam`: where the
  battery namespaces open, after the last command, crash and refusal the copies agree for good.
- `LogDecodes`: what the logger holds is in order, nothing is torn unless an append was cut, and each delta follows its base unless entries were discarded; a reset, in the middle of an append too, breaks no chain.
  `LogKept`: what is in the file goes only with the whole file at its limit; what is not, for one of the listed reasons only, among them an append that is cut.
- `ReplayOnce`, `TelemetryDrains`, `LossReopensBle`: no reading twice; the telemetry file is emptied again and again; BLE comes back with a lost link.
- `GuessesSpaced`: a PIN is compared, with wrong ones on record, only after the device has run for the whole cool-off. `AnswersAreTrue`: "ok" means
  that all the handler writes, values and defaults, is stored, but for puts the store did not take, and nothing else changed; an error means nothing stored. `OwnerGetsIn`: an eager client that knows the PIN is served for ever.
- `InsertedOnce`: no message becomes two rows, nor one after its INSERT was refused, though two callers of `Flush()` drain one buffer.
- `AlarmsAccounted`: unless a crash or a failed statement met it, the alarm of every event of a rule with mails is at hand or in exactly one row of
  `email_queue`, which SMTP took once if it says 'sent' and else never, and which says 'sending' only while it is sent. The event of a rule without mails has none.
- `RowsReachStore`: a buffered row comes to be inserted or refused, unless the worker ends. `AlarmMailedOnce`: one mail, taken once or given up, for every alarm that no crash or failed statement
  met. `PresenceSettles`: a device that is gone comes to be inactive, unless it was never heard of, and is not shown online, unless the reply of the statement that changed its row was cut; one whose session holds comes to be active and shown so.

### Bounds

*Switches.* Delays of 1 and 2 ticks, `PulseTime` 1, `MaxLag` 1: a tick is the second between two passes, so conditions come and go
within a delay, at its end and after it. `TimeMod` is 6, 8 or 10, the least that `ControllerAssumption` allows or
little more, so that the clock wraps within a few passes. One client is enough for each race of a
client with the sensor task, of which there is one. Races of two clients, and calls and edits combined, are reached only by
the proofs. `SwitchTestAll` has two switches because its property is about the order in which they are handled.

*Commands.* Four commands, two a poll, a body of four units, two faults. The commands take 1, 1, 2 and 3 of it: a batch that fits, one of three that the loop cuts,
and two, within the limit of a poll, whose answer is too long.
*CliLines.* Two lines of every kind and a buffer of one token, which a stray terminator fills: it can meet the line before, the line after and the empty buffer.
*FirmwareUpdate.* Three versions, two chunks, a grace of one tick, three resets, a crash limit of three and one put that fails: enough for an update, its roll-back, a second offer, safe mode, and a boot cut after a mark.
*Battery.* A battery of two units, a save interval of two ticks, three profile slots of which one is built in, one client: a flip in each direction, a save between any two, saves refused twice in a row or before a reset, a
deletion that lowers the number of slots. Changes of configuration are refused in any number. *Uplink.* A ring of two entries, an overflow file of three, a telemetry file of two, up to seven samples, two faults of the card: each limit is passed at
least once, and an append is cut at every entry. *Ble.* A queue of two, a rate limit of two, three as largest count of wrong PINs, two PINs, and a cool-off that reaches its cap; commands with all, some and none of their values, both shapes, and up to two puts that are not taken.
*Backend.* One device (devices share nothing but the buffer), two rules, three frames, a buffer and a batch of two, the timeouts as 4 and 3 ticks.

### Fairness

Every `FairSpec` has weak fairness on the steps of tasks, handlers and goroutines that can run (FreeRTOS and the Go runtime run what is ready, and no step waits
without a limit) and on time. Faults, resets, edits, users and clients are not fair, and their number is bounded. Beyond that: `SwitchController` has it on each call that has
*begun*; `CommandQueue` on the poll, the backend and the delivery of what is sent; `Uplink` on the radio noticing a reachable access point and on the end of a session without a link;
`Backend` on the last will of a broken session, the heartbeat, and the restart and reconnect of the API. `Firmware` has strong fairness on `NoData` and `Verify`, because
WiFi, on which both depend, may come and go for ever: the download's timeout runs on while it is away. `BleProvisioner` has it on the owner's client, which connects and writes again and again, as
`OwnerGetsIn` supposes. `CliLines` checks safety alone.

Deadlock is checked in the switch and command runs; in the others the budgets of a scenario run out and the system stops (`CHECK_DEADLOCK FALSE`).

## 4. What is proved

TLAPS checks these for every value of the constants that the assumptions allow.

| theorem | statement |
|---|---|
| `TypeCorrect` | `Spec => []TypeOK` |
| `TimersCorrect` | `Spec => []TimersExact` |
| `FlipsSustained` | `Spec => RuleFlipsAreSustained` |
| `SensorSettles` | `Client = {} => (Spec => EvaluationSettles)` |
| `QueueTypeCorrect` | `Spec => []TypeOK` |
| `CommandsRunOnce` | `Spec => []AtMostOnce` |
| `ReportsAreTrue` | `Spec => []ResultIsTrue` |
| `PollsInOrder` | `Spec => OldCommandsStayOld` |
| `QueueImplementsService` | `Spec => ImplementsService`, that is `Service!Spec` |
| `FirmwareTypeCorrect` | `Spec => []TypeOK` |
| `CrashesAreCounted` | `Spec => []CountsUnmarkedBoots` |
| `HandlesAreHeld` | `Spec => []DownloadHoldsItsHandles` |
| `ImagesAreWhole` | `Spec => []BootsWholeImage` |
| `DowngradesAreRollbacks` | `Spec => OnlyRollbackDowngrades` |
| `BatteryTypeCorrect` | `Spec => []TypeOK` |
| `CyclesTravelled` | `Spec => []CyclesAreTravel` |
| `CrashLosesLittle` | `Spec => []ChargeLossBounded` |
| `ConfigurationLasts` | `Spec => []ConfigurationDurable` |
| `UplinkTypeCorrect` | `Spec => []TypeOK` |
| `LogIsDecodable` | `Spec => []LogDecodes` |
| `EntriesAreKept` | `Spec => LogKept` |
| `ReplayedOnce` | `Spec => []ReplayOnce` |
| `BleTypeCorrect` | `Spec => []TypeOK` |
| `GuessesAreSpaced` | `Spec => GuessesSpaced` |
| `AnswersTrue` | `Spec => AnswersAreTrue` |
| `CliTypeCorrect` | `Spec => []TypeOK` |
| `LinesRun` | `(\A l \in Lines : <<l, Dispatch(<<l>>)>> \in Help) => (Spec => []LinesRunAsTyped)` |
| `BackendTypeCorrect` | `Spec => []TypeOK` |
| `RowsInsertedOnce` | `Spec => []InsertedOnce` |
| `AlarmsAreAccounted` | `Spec => []AlarmsAccounted` |

*Assumptions.* `ControllerAssumption`: at least one switch, rules with delays of at most `MaxDelay`, at most four conditions
and no latch set, and an even clock range with `MaxDelay + MaxLag` and `PulseTime + MaxLag` below
its half. In the firmware `MaxDelay` is 2^16 ms and the half range 2^31 ms. `QueueAssumption` and `FirmwareAssumption` only type the
constants (versions and chunks are at least one), and so do `UplinkAssumption`, `LoggerAssumption` and `BleAssumption`, the budgets of a scenario
included. `BatteryAssumption` says besides that the readings are finitely many (a register has 16 bits), so that there is a largest one, that there
is a built-in profile and a slot for each, and that an interval is at least a tick. `CliAssumption`: no line is a terminator. `LinesRun` has the one hypothesis that a line alone in the buffer
is dispatched to what its help says: that is a table compared with a table, which the run `CliLines` does; the theorem carries it to lines in any
number, order and pieces. For the backend, `FleetAssumption` says that devices are finitely many (rows of a table), and `IngestAssumption`, `AlertsAssumption`,
`PresenceAssumption` and `BackendAssumption` type messages, rules, timeouts and budgets: a rule row carries its own id, and the key for "any device" is no device.

*The argument for the timers.* The inductive invariant is `TypeOK /\ TimersExact`. Both are needed: `TypeOK` keeps readings of
the clock in range, keeps every task on locations of its own, and says that `switch_set()` returns to
one of four places, `"decide"` not among them. `TimersExact` has a clause for the step between an
evaluation and its noting (`Unnoted`): there the history is one step ahead. Steps that touch neither timer,
history nor the location `"decide"` are covered by two lemmas (`UntouchedKeeps`, `ElsewhereKeeps`), which is all but
five actions. Those five are proved apart: `Tick`, `BeginPass`, `EvalRule`, `Decide`, `Reboot`. The clock arithmetic is in
`LaterLater` and `ElapsedLater`: as long as an interval stays below half the range, advancing the clock advances the
signed difference, whether it wraps or not. `FlipsSustained` then follows in one step: the guard of a trip, the exactness of its timer, and
that no delay exceeds `MaxDelay`.

*The argument for the sensor task alone.* Nobody else then writes a switch, so `Settled` is inductive: output and mirror differ only between the two
writes of a trip or of the end of a pulse, where the value under way is known; the row in hand is the one in NVS; and mirror and row agree once the row is
saved. A reset rebuilds all three from the row. With a client each of these clauses fails (hazard at `switch_controller.cpp:582`).

*The argument for the queue.* `TypeOK /\ QueueInvariant` is inductive. `AtMostOnce` alone is not: it needs that a command in
the answer is claimed and has not run; `ResultIsTrue` needs that results under way are those of the one run of their
command; the order needs that what was claimed after a command still in the answer is neither in the answer nor has run.

*The argument for the refinement.* Under that invariant the stage of a command is a function of its row, its count of runs and whether the
answer holds it (`StageIs`), and each action of the queue moves a set of commands to one stage: a claim is `Take`, because a poll begins with
no answer under way; a lost answer, a cut body, a skipped or a fifth command is `Lose` of the commands dropped (`Drops`);
a poll, a loss of a report or a late duplicate moves nothing (`Stutters`).

*The argument for the firmware.* `FirmwareInvariant` adds three parts to the type invariant and the handles. `Accounting`: the counter is the number of unmarked boots up to `slips`; before the first put the
boot under way is still to be added, unless the flag is set; and a flag that disagrees with the history of marks has cost a slip already, which is why the boot that believes it may be wrong by one more.
Each put, failed or not, and each reset keeps that (`CountStep`, `FlagStep`, `ResetCounts`). `Booted`: the running partition is whole, and while it is on probation the
other one is whole and off probation, which `BootsWholeImage` needs at the next reset. `Loaded`: a download runs only off probation and for a
newer version, the other partition holds what was written of it, and is selected only once `esp_ota_end()` has found it whole and until
the restart. A reset turns `Loaded` into `Booted`; every other step of the client touches only the other partition (`ClientStep`). A version
goes down only through a boot, and a boot out of probation is the one boot that does not keep or raise it.

*The argument for the counters.* `BatteryInvariant` has four parts beside the types and the three properties. `Copies`: no copy of a state, on its way
from flash or to it, holds more cycles than were travelled, and while a session is open the state of charge in the cache is the one last seen; so a late
install may set the counter back but never ahead. `Integration`: unless a reset crossed, the sum about to be stored is the counter with one reading, and counter and flash differ by no more than
`Most` times `Credit`, the readings since the last save that was stored; a refused save moves its interval from `age` to `missed`, which `Credit` does not notice. `Bindings` and `Slots`: the blob
holds the table as long as its last write succeeded and its version key is in flash or, for the bindings, about to be, and the count of slots is one past the largest in use. `PopulatedBy` and `Most` are choices; that there
is something to choose is proved once, by well-foundedness of strict inclusion of finite sets (`FS_StrictSubsetOrderingWellFounded`), in place of an induction.

*The argument for the logger and the uplink.* `LogInvariant` speaks of card, flush buffer and ring as the one sequence `Held`: in order, nothing newer than the last
sample, each delta right after its predecessor unless something was discarded, and then the last one is the last sample. Each step appends
to it, drops at its front, moves the borders between the three or leaves a beginning of the middle one (`MiddleShortened`), and one lemma for each of these shapes keeps the invariant.
`Untorn` adds that buffer and ring are whole, and the file too as long as no append was cut.
`LinesInvariant` says where a line that may still be published can be: in what is to be read of the telemetry file, in hand, in the snapshot of
the pass, in the queue. The four are disjoint and hold no published line until a reset. The file is not what is counted but `ToRead`: what lies
behind an open reader was appended late, and goes with the file.

*The argument for BLE.* `GuessesSpaced` needs that the time since the last wrong PIN as the device counts it never exceeds the time that passed (`Guesses`): a reset
makes the first smaller. `AnswersAreTrue` needs `Stage`: NVS is what it was when the command was taken up, except for the keys of the positions already
done and taken, and those have the command's value or the default; a put whose result is heeded is the only one of its command. That is preserved for any list of keys, repeated ones included; of the two tables the proof uses only what
`Proper` says, which is proved of each of their parts.

*The argument for the console.* `Assembly`: buffer, receive buffer and wire together spell, byte for byte, the lines that have not run, and each line
that ran did what it does alone. It holds for one-byte endings; with CR LF the LF of a line that ran may still be on its way (section 5). Typing the
effects takes no more of the chain than that its branches have at most five arguments.

*The argument for the backend.* `DeliveryInvariant` says where a message can be: still to be published, on the wire, in the handler, in the buffer, in the
batch of one of the two flushers, inserted, or refused. The eight places are disjoint, and no place holds a message twice. Each step of the worker takes one message from
one place to another or drops it, and a crash or the end of the process empties the five that are memory (`Moved`, `RowTaken`, `RowAdded`, `MessageTaken`);
so a row can be inserted once only, and never after it was refused. That one row is taken by one flusher is what the channel of `store.go` gives and what the mutant of the
run takes away. `AlarmsAccounted` is not inductive alone. `Carried` adds that an alarm at hand is of a rule with mails and the only one of its event: `EvaluateRule` begins with
nothing at hand, and the partial unique index lets `fire()` insert only where no event is firing. `Draining` adds that what the mail loop took and has not begun
is still 'queued', which keeps a row from being sent while another is, that the row at hand has not ended, and that a queued row has an attempt left, from which alone the number of attempts stays within three.
`RowsHonest` says of each row that it tells truly what SMTP did, or that its alarm is `marred`, and `AllCounted` counts the rows of an event; together they are `AlarmsAccounted` (`AccountsFollow`).
A crash moves the alarm at hand and that of the row being sent to `marred`, a failed Enqueue the former, a failed UPDATE at the end of a mail the latter, and an INSERT whose reply is lost the new event.

*Model-checked only.* The liveness properties (`PulseEnds`, `PulseFlagClears`, `ScheduleFollows`, `SmallBatchesConclude`, `DownloadEnds`,
`FlashFollowsRam`, `TelemetryDrains`, `LossReopensBle`, `OwnerGetsIn`, `RowsReachStore`, `AlarmMailedOnce`, `PresenceSettles`), which are out of the
prover's reach. All safety properties of the passing runs are proved, `LinesRunAsTyped` under its hypothesis and `EvaluationSettles` without clients. In turn the type invariants of `CommandQueue` and `Firmware` are proved and no run repeats them. The hypothesis of `LinesRun` is evaluated for the lines of the run.
No module declares a RECURSIVE operator.

## 5. Where code and documents disagree

With a run that shows it (`PROJECT.json`, "findings"):

- **A lasting overload does not trip** (`SwitchOverload`). `docs/SWITCHES.md:79` promises a trip once a threshold is exceeded for
  longer than the delay. A condition that held is latched, and a latched condition is evaluated with the *reset* comparison, whose
  result is used as if it were the condition: under a steady overload it is true and false in turn.
  A schedule has no latch, which is why `ScheduleFollows` holds.

Without a run. Most are behaviours of the models above, met because a stronger property failed; the property that is checked says what holds nevertheless.

*Switches (`switch_controller.cpp`).*
- 547: a manual OFF between mirror and output of a trip leaves mirror OFF and output ON for good, since the reset branch looks at the mirror.
- 661-662: a pulse started between the OFF and the cleared flag of the previous one loses its flag and
  is never ended, against the comment at 654-656. Reached by `test switch N` repeated within a pulse; `test all switches`
  waits, and `PulseEnds` holds of it.
- 473-475: the pulse flag is read before the rule and used after; a pulse that starts in between is overridden by the rule,
  against the comment at 473-474.
- 645-646: the flag of a pulse is visible before its deadline; a pass in between ends the pulse at once, against 639-643.
- 468: the auto flag is read once a pass, so an evaluation under way energizes a switch after
  `switch_set_auto(false)` has turned it off, against 592-596.
- `pcf8574at.cpp:42`: two tasks read, change and write the byte of the expander; one of two outputs may be lost.

*Remote commands.*
- `connectivity_manager.cpp:1701-1702` says a burst drains over several ticks; the fifth command of an answer was claimed with the others and is never run.
- 1675-1697: two to four commands whose payloads together exceed the 2047-byte body (one may have 1023, 1711) are claimed, fail to parse and are lost, with no fault and no burst. `SmallBatchesConclude` leaves such batches out by their length.
- 1750-1751 speaks of a result that is always reported; it is posted once (1760).
- A reboot or factory reset from the network or the UI does not call `mark_clean_shutdown()`: five of them put the device in safe mode.
- `ble_provisioner.cpp:1155-1157`: `set_switch` for the indices 4 to 7 looks up default pins that are four.

*BLE and settings.*
- 42-43: ten commands a window; a slow command resets the count (206), so the limit is on bursts only.
- `set_pin` compares `old_pin` without cool-off or count; the commands for updates ask for no PIN; PIN 0 cannot be configured.
- 110-112: every error echoes its command; those of `check_pin()` do not. `get_status` with a wrong PIN answers twice.
- 907-963: the second branches for `get_battery_profile` and `get_battery` cannot be reached.
- The queue of commands survives a disconnect and the stack's teardown (1564-1587).
- A power loss between two puts leaves half of a command's keys; nothing marks it.
- `settings_manager.cpp:20-21` and all that follow it: nobody looks at the result of a put; "saved" is answered of what the store did not take.
- 1091: a partial update is to be safe; a remote `set_mqtt` without a port sets it to 1883 (1094), over BLE to 0 (231); `set_http` without a token clears it (1112) and without `enabled` enables it (236, 1113).
- `sensor_manager.cpp:622`: a calibration of an unknown type is stored nowhere and answered with "calibration_saved".
- `settings_manager.cpp:528`: a factory reset wipes "every NVS namespace we own", but not that of the OTA client.

*Console (`main.cpp`).*
- 254: the branch for `switch` and `relay` takes `switch auto on|off` (`docs/SWITCHES.md:90`), `switch status` and `switch rules N`, and their `relay` forms;
  422 takes `virtual_channel show`, for which there is a branch at 825.
- 243: says it skips the LF of CR LF; a LF that arrives later is stored as `line[0]`, and the line after it
  matches no branch. An empty line does the same. `LinesRunAsTyped` is therefore about one-byte endings.
- 907: the branch for unknown commands tests `len`, which is 0 by then.

*Boot and updates.*
- `main.cpp:223`: `ota_confirm_valid()` is called once, before the grace period it waits for is over, unless set-up takes 60 s: new
  firmware is rolled back at the next reset and offered again. Until then `esp_ota_begin()` refuses a further update.
- `device_identity.cpp:83-84`: the count and the flag are two puts: a reset between or before them leaves the mark of a planned restart for the next boot, whose crash is then not counted; nobody looks at the result of either, nor at that of the mark (123).
- Safe mode is for good: nothing calls `reset_crash_count()`, and the task that would run the console is deleted (951), against 941. The first boot of all counts as a crash.
- In safe mode the counters start from zero and overwrite NVS after five minutes.

*Counters.*
- `cycle_counter.cpp:18-21` sums the two legs of a discharge that is interrupted; the code starts the session anew at every flip (192-196).
- `battery_nvs.h:15-16`: the two namespaces have 16 and 18 characters where NVS takes 15, so on the ESP32 `begin()` fails and nothing of cycles, profiles and bindings is stored: bindings and
  profiles are answered with an error, cycles start again at every boot, and the `begin()` of the factory reset fails likewise. The runs have both cases (`opens`).
- `battery_profile.cpp:64`: the version key has 16 characters, one too many even where the namespace opens: a profile set or deleted with success is then not read at the next boot (97). The version key of the bindings
  fits, but a refusal of it (`battery_state.cpp:79`, 89) is not part of the answer. Hence the condition of `ConfigurationDurable`.
- `coulomb_counter.cpp:43-45` and `cycle_counter.cpp:107` do not look whether a save was stored, and wait a whole interval for the next.
- A late load (134, 222, 279) overwrites what was counted meanwhile; a reset between reading and sum of the coulomb counter (39) is lost, one between argument and put (43) comes back at the next boot.
- `battery_lock.h:17` allows no NVS under the lock; the `persist_*_locked()` functions write it there.
- The migration of old state blobs asks for a length that the loader has already refused.

*Data logger and uplink.*
- `data_logger.cpp:123-124`: all I/O is outside the lock; `init_sd()` (498) and a log line (516) are inside it.
- 122: a write after a removal mounts the card again; that is tried once, and after one failure the card stays unused until a reboot.
- 274-309: when the CSV file does not open, the rows stay in the buffer, and so does their length, with nothing to bound it if that repeats.
- 708-712: lines appended to the telemetry file after its reader was opened are removed with it; after the card was taken out and put back the file is removed unread.
- The overflow file begins with a delta when the entry before it was discarded.
- 119-122: write errors drop data; a write that is cut short counts as success (354), so that the file has a torn entry in its middle, behind which nothing says where the next one begins.
- `connectivity_manager.cpp:729-735`: a link that is lost in the tick in which it came up leaves BLE down; after an automatic reconnect BLE is not taken down again.
- `g_deferred_relay_idx` (1739) has one slot.

*Backend.*
- `mqttauth.go:45`, `middleware.go:99` and `ota.go:65` accept active devices only; `is_active` is set by nothing but a status message over MQTT, and cleared by the last will and by the sweep. With the broker's authentication on, a device
  that was once offline cannot connect again.
- `mqttauth.go:62` grants `telemetry/<key>/#`; the firmware publishes to `telemetry/<type>/<key>` (`connectivity_manager.cpp:1196`).
- `cmd/ingest/main.go:59-63`: at-least-once delivery; the firmware publishes at QoS 0, and what arrives between connect and subscribe is dropped.
- 90-92: the maintenance flag takes effect at once; it is cached for 30 s. 101-103: it lets operators drain backlogs; frames are dropped.
- 117 and 134: the context of `FlushLoop` is never cancelled; `main`'s flush runs beside the loop's and the process exits while the loop's batch is under way. Rows after that flush are lost.
- `store.go:26-27`: an outage is absorbed; a batch whose inserts fail is consumed. 102-103: or when the buffer reaches a batch; only the ticker flushes.
- `alerts.go`: a rule that is disabled, or a device that falls silent, while firing stays firing; a missing field counts as 0; a restart forgets the streaks; a crash between
  the row (279) and its mail (295) loses the mail. `email.go:69-70`: mails left 'sending' are recovered; nothing reads that status.
- `email.go:108`, `138`, `164`: the errors of the three UPDATEs are ignored: a row whose last one failed says 'sending' for ever, or, if the first one failed too, 'queued', and is mailed again. `alerts.go:282-286`: an INSERT that committed and whose reply is lost makes an alarm without a mail, and the conflict keeps later ones from being mailed.
- `status.go:19-21`: shorter than the publish interval; 60 s is longer than the heartbeat's 45 s. 152-154: a failed sweep is retried on the next tick; once the UPDATE has committed, rows that are cut are never announced, as their devices are no longer active. 134: a device never seen stays active, as its row begins.
- `refreshtokens.go:127`: rotation reads and marks a token in two statements, so two at once both succeed.
- `websocket.go:153`: several goroutines write to a connection, without a deadline.

## 6. What is not modelled, and the plan

- *Sensors, pods, displays, buttons, encodings, event log:* numeric input and output with little state that spans steps. The event log is a ring that tasks
  write without a lock; nothing acts upon it.
- *Sessions, OAuth, CRUD, billing, licences, export, retention, search:* SQL statements behind HTTP handlers. Rotation of refresh tokens spans two, as said above; a model would restate that.
- *Dashboard, simulator, nanopb:* presentation, a host build, a vendored library.
- *Parts of modelled components:* adding a switch at run time, its type and pin, first-boot defaults; Ah totals, voltage, state of health, blob migrations and the energy counter, which has the shape of the coulomb counter;
  `cycle_counter_put()` and `log_publish_batch()`, which have no callers; pruning of CSV files; the HTTP and Supabase transports; the API's maintenance middleware.

Next, in this order: the keys that a scan of the bus writes; a switch engine whose evaluation is one step, implemented by `SwitchController` without clients; the promise of the ingest path (a message is pending, then inserted, refused or lost) as an abstract specification that `Backend` implements; the expander's shared byte.

## 7. How to run it

    tlc -workers 2 -config SwitchSensorAlone.cfg MCSwitchController.tla
    tlc -workers 2 -config Commands.cfg MCCommandQueue.tla
    tlc -workers 2 -config CliLines.cfg MCSerialCli.tla
    tlc -workers 2 -config FirmwareUpdate.cfg MCFirmware.tla
    tlc -workers 2 -config Battery.cfg MCBatteryCounters.tla
    tlc -workers 2 -config Uplink.cfg MCUplink.tla
    tlc -workers 2 -config Ble.cfg MCBleProvisioner.tla
    tlc -workers 2 -config Backend.cfg MCBackend.tla
    tlapm SwitchControllerProofs.tla
    tlapm CommandQueueProofs.tla
    tlapm FirmwareProofs.tla
    tlapm BatteryCountersProofs.tla
    tlapm UplinkProofs.tla
    tlapm BleProvisionerProofs.tla
    tlapm SerialCliProofs.tla
    tlapm BackendProofs.tla

`Backend`, `Uplink`, `Ble`, `FirmwareUpdate`, `Battery`, `SwitchClients`, `SwitchTestAll` and `SwitchSchedule` take one to three minutes with two workers (the largest, `Battery`, has 1,341,000 states), the other
runs less than one.
