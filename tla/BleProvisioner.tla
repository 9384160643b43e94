--------------------------- MODULE BleProvisioner ---------------------------
(***************************************************************************)
(* The front ends that change the device's settings: src/ble_provisioner   *)
(* .cpp for a BLE client, whose writes the NimBLE host task queues and the *)
(* network task runs, and for commands claimed from the backend, which the *)
(* same task applies.  A handler is cut before the PIN check and at every  *)
(* put into NVS: there the host task may run, time may pass, the client    *)
(* may leave and the device may lose power.  Ages are counted in ticks and *)
(* only up to the largest delay they are compared with.                    *)
(***************************************************************************)
EXTENDS SettingsCommands, Naturals

CONSTANTS
  QueueSize,    \* commands ble_cmd_queue holds: 4
  MaxCommands,  \* MAX_COMMANDS: 10
  Gap,          \* the ticks of 100 ms: a command after a shorter time is fast
  Window,       \* the ticks of RATE_WINDOW_MS
  Unit,         \* the ticks of a second, the unit of the cool-off
  MaxShift,     \* the largest doubling: 12
  MaxWait,      \* the ticks of an hour, the longest cool-off
  FailLimit,    \* the largest fail count: 65535
  MaxPin,       \* PINs are 1 .. MaxPin, 1 stands for the default of settings_load_ble_pin()
  OwnerCommand, \* what a client that knows the PIN asks for, again and again
  Scenarios     \* which commands are written, and how much of each thing may happen; Init takes one

Name     == DOMAIN BleTable \cup DOMAIN RemoteTable \cup {"no such command"}
Command  == [name : Name, pin : Nat, old : Nat, value : Nat, fine : BOOLEAN, fields : SUBSET Key]
Scenario == [menu : SUBSET Command, remoteMenu : SUBSET Command, writes : Nat, remote : Nat,
             leave : Nat, cycles : Nat, crash : Nat, puts : Nat]

ASSUME BleAssumption ==
  /\ \A n \in {QueueSize, MaxCommands, Gap, Window, Unit, MaxWait, FailLimit, MaxPin} : n \in Nat \ {0}
  /\ MaxShift \in Nat
  /\ OwnerCommand \in BleGated
  /\ Scenarios \subseteq Scenario

VARIABLES
  up,         \* ble_initialized
  connected,  \* bleClientConnected
  queue,      \* ble_cmd_queue, with what became of the writer
  running,    \* the command in hand, in a sequence of at most one
  todo,       \* what its handler has still to write: positions in its entry's saves
  config,     \* NVS: the value of each key, 0 for none; without one the PIN is the default
  fails,      \* NVS: ble_fail
  sinceFail,  \* ticks since ble_last_fail_ms, which is 0 at boot
  rateCount,  \* rate_cmd_count
  window,     \* ticks since rate_window_start
  sinceCmd,   \* ticks since rate_last_cmd
  answer,     \* what the last command was told: by whom it came, and how it ended
  before,     \* history: config when the command in hand was taken
  refused,    \* history: of the command in hand, the positions whose put the store did not take
  quiet,      \* history: ticks the device has run since a wrong PIN was counted
  budget

client  == <<up, connected>>
rate    == <<rateCount, window, sinceCmd>>
nvs     == <<config, fails>>
guesses == <<sinceFail, quiet>>
hand    == <<running, todo, before, answer, refused>>
vars    == <<client, queue, hand, nvs, guesses, rate, budget>>

Told    == {"none", "ok", "not_found", "refused", "unknown_cmd", "invalid_pin", "rate_limited"}

Lesser(a, b)  == IF a < b THEN a ELSE b
Pin           == config["pin"]  \* settings_load_ble_pin()
Empty         == [k \in Key |-> IF k = "pin" THEN 1 ELSE 0]
Spend(kind)   == budget[kind] > 0 /\ budget' = [budget EXCEPT ![kind] = @ - 1]

\* The wait after f wrong PINs.
CoolOff(f) == IF f = 0 THEN 0 ELSE Lesser(Unit * 2 ^ Lesser(f, MaxShift), MaxWait)

TypeOK ==
  /\ up \in BOOLEAN /\ connected \in BOOLEAN
  /\ connected => up
  /\ Len(queue) =< QueueSize /\ Len(running) =< 1
  /\ \A k \in DOMAIN queue : queue[k].here => connected
  /\ (running = << >> \/ running[1].step = "check") => todo = {}
  /\ config \in [Key -> Nat] /\ Pin \in 1 .. MaxPin
  /\ fails \in 0 .. FailLimit
  /\ sinceFail \in 0 .. MaxWait /\ quiet \in 0 .. MaxWait
  /\ rateCount \in 0 .. MaxCommands + 1 /\ window \in 0 .. Window /\ sinceCmd \in 0 .. Gap
  /\ answer.says \in Told

Init ==
  /\ budget \in Scenarios
  /\ up = TRUE /\ connected = FALSE
  /\ queue = << >> /\ running = << >> /\ todo = {}
  /\ config = Empty /\ fails = 0
  /\ sinceFail = 0 /\ quiet = MaxWait
  /\ rateCount = 0 /\ window = 0 /\ sinceCmd = Gap
  /\ before = Empty /\ refused = {} /\ answer = [owner |-> FALSE, says |-> "none"]

-----------------------------------------------------------------------------
(* The NimBLE host task.                                                    *)

\* Nobody is left to answer.
Orphaned(s) == [k \in DOMAIN s |-> [s[k] EXCEPT !.here = FALSE]]

OnConnect ==
  /\ up /\ ~connected
  /\ connected' = TRUE /\ window' = 0 /\ rateCount' = 0
  /\ UNCHANGED <<up, queue, hand, nvs, guesses, sinceCmd, budget>>

OnDisconnect ==
  /\ connected /\ Spend("leave")
  /\ connected' = FALSE
  /\ queue' = Orphaned(queue) /\ running' = Orphaned(running)
  /\ UNCHANGED <<up, todo, before, answer, refused, nvs, guesses, rate>>

\* A full queue takes no more: the client is told "server_busy" at once.
OnWrite(c, owner) ==
  /\ connected
  /\ Len(queue) < QueueSize
  /\ queue' = Append(queue, [cmd |-> c, owner |-> owner, remote |-> FALSE, here |-> TRUE, step |-> "check"])
  /\ UNCHANGED <<client, hand, nvs, guesses, rate>>

ClientWrites == \E c \in budget.menu : OnWrite(c, FALSE) /\ Spend("writes")

\* The owner's client: it knows the PIN, and writes again whenever it can.
OwnerWrites ==
  /\ OnWrite([name |-> OwnerCommand, pin |-> Pin, old |-> 0, value |-> 0, fine |-> TRUE, fields |-> {}], TRUE)
  /\ UNCHANGED budget

-----------------------------------------------------------------------------
(* The network task: what may run.                                          *)

Idle == running = << >>
Entries(r)  == IF r.remote THEN RemoteTable ELSE BleTable
Known(r)    == r.cmd.name \in DOMAIN Entries(r)
EntryOf(r)  == Entries(r)[r.cmd.name]
Gated(r)    == ~r.remote /\ r.cmd.name \in BleGated
Cooling     == fails > 0 /\ sinceFail < CoolOff(fails)

\* check_rate_limit(): a command within 100 ms of the last one counts, a slower one clears the count.
Counted == IF window >= Window THEN 1 ELSE rateCount + 1
Fast    == sinceCmd < Gap
TooFast == Fast /\ Counted > MaxCommands
CheckRateLimit ==
  /\ window' = IF window >= Window THEN 0 ELSE window
  /\ rateCount' = IF Fast THEN Lesser(Counted, MaxCommands + 1) ELSE 0
  /\ sinceCmd' = IF TooFast THEN sinceCmd ELSE 0

Answer(r, says) == answer' = [owner |-> r.owner, says |-> says]

\* loop_ble_provisioner() takes the next command; one in excess is refused unread.
Receive ==
  /\ up /\ Idle /\ queue # << >>
  /\ queue' = Tail(queue)
  /\ CheckRateLimit
  /\ before' = config /\ refused' = {}
  /\ IF TooFast THEN Answer(queue[1], "rate_limited") /\ running' = << >>
                ELSE running' = <<queue[1]>> /\ UNCHANGED answer
  /\ UNCHANGED <<client, todo, nvs, guesses, budget>>

\* check_settings_commands() calls apply_settings_command().
Claim ==
  /\ Idle /\ Spend("remote")
  /\ \E c \in budget.remoteMenu :
       running' = <<[cmd |-> c, owner |-> FALSE, remote |-> TRUE, here |-> FALSE, step |-> "check"]>>
  /\ before' = config /\ refused' = {}
  /\ UNCHANGED <<client, queue, todo, answer, nvs, guesses, rate>>

\* Mutant: any new PIN is taken.
PinMayBecomeAny(c) == c.old = Pin

\* set_pin: the old PIN must be right, the new one in range; a remote one carries the PIN as well.
PinMayChange(c) == c.old = Pin /\ c.value \in 1 .. MaxPin

\* check_pin() over BLE, supa_pin_ok() for the destructive commands of the backend.
PinRight(r) == Gated(r) \/ (r.remote /\ r.cmd.name \in RemoteGated) => r.cmd.pin = Pin

\* The refusal a command meets before anything of it is stored; "none" when it may run.
Verdict(r) ==
  IF ~Known(r) THEN "unknown_cmd"
  ELSE IF Gated(r) /\ Cooling THEN "rate_limited"
  ELSE IF ~PinRight(r) THEN "invalid_pin"
  ELSE IF /\ r.cmd.name = "set_pin" => PinMayChange(r.cmd)
          /\ EntryOf(r).asks \subseteq r.cmd.fields /\ (EntryOf(r).checks => r.cmd.fine) THEN "none"
  ELSE "refused"

\* settings_save_ble_fail_count(), the result of whose put nobody looks at.
CountFails(n) ==
  \/ fails' = n /\ UNCHANGED budget
  \/ n # fails /\ UNCHANGED fails /\ Spend("puts")

\* Mutant: an attempt during the cool-off starts it anew.
NotePinAnew(r) ==
  IF Gated(r) /\ Verdict(r) = "invalid_pin"
  THEN CountFails(Lesser(fails + 1, FailLimit)) /\ sinceFail' = 0 /\ quiet' = 0
  ELSE /\ CountFails(IF Gated(r) /\ Verdict(r) # "rate_limited" THEN 0 ELSE fails)
       /\ sinceFail' = IF Verdict(r) = "rate_limited" THEN 0 ELSE sinceFail
       /\ UNCHANGED quiet

\* check_pin(): a wrong PIN is counted in NVS, a right one clears the count.
NotePin(r) ==
  IF Gated(r) /\ Verdict(r) = "invalid_pin"
  THEN CountFails(Lesser(fails + 1, FailLimit)) /\ sinceFail' = 0 /\ quiet' = 0
  ELSE /\ CountFails(IF Gated(r) /\ Verdict(r) # "rate_limited" THEN 0 ELSE fails)
       /\ UNCHANGED guesses

Refuse ==
  /\ ~Idle /\ running[1].step = "check" /\ Verdict(running[1]) # "none"
  /\ NotePin(running[1])
  /\ Answer(running[1], Verdict(running[1]))
  /\ running' = << >>
  /\ UNCHANGED <<client, queue, todo, before, refused, config, rate>>

Begin ==
  /\ ~Idle /\ running[1].step = "check" /\ Verdict(running[1]) = "none"
  /\ NotePin(running[1])
  /\ running' = <<[running[1] EXCEPT !.step = "save"]>>
  /\ todo' = ToSave(EntryOf(running[1]), running[1].cmd)
  /\ UNCHANGED <<client, queue, before, answer, refused, config, rate>>

-----------------------------------------------------------------------------
(* The network task: what it does.                                          *)

KeyAt(r, k) == EntryOf(r).saves[k]

\* One put of a settings_save_*(), which the store may not take.
SaveKey ==
  /\ \E k \in todo :
       /\ \A j \in todo : k =< j
       /\ todo' = todo \ {k}
       /\ \/ /\ config' = [config EXCEPT ![KeyAt(running[1], k)] = ValueOf(running[1].cmd, KeyAt(running[1], k))]
             /\ UNCHANGED <<refused, budget>>
          \/ refused' = refused \cup {k} /\ Spend("puts") /\ UNCHANGED config
  /\ UNCHANGED <<client, queue, running, before, answer, fails, guesses, rate>>

\* settings_factory_reset() clears pm-settings and the battery namespaces, not pm-ota.
Erased == [k \in Key |-> IF k \in OtaKey THEN config[k] ELSE Empty[k]]

\* Mutant: a reset ends the cool-off.
BootCooled ==
  /\ up' = TRUE /\ connected' = FALSE
  /\ queue' = << >> /\ running' = << >> /\ todo' = {}
  /\ sinceFail' = MaxWait
  /\ rateCount' = 0 /\ window' = 0 /\ sinceCmd' = Gap
  /\ UNCHANGED <<before, refused, quiet>>

\* RAM after a reset; the command queue is created anew and BLE started again.
Boot ==
  /\ up' = TRUE /\ connected' = FALSE
  /\ queue' = << >> /\ running' = << >> /\ todo' = {}
  /\ sinceFail' = 0
  /\ rateCount' = 0 /\ window' = 0 /\ sinceCmd' = Gap
  /\ UNCHANGED <<before, refused, quiet>>

Outcome(r) ==
  IF \E k \in EntryOf(r).needs : config[k] = 0 THEN "not_found"
  ELSE IF \E k \in refused : Heeded(r.cmd, KeyAt(r, k)) THEN "refused" ELSE "ok"

\* Mutant: the answer is sent before the last put.
FinishingEarly(ends) == ~Idle /\ running[1].step = "save" /\ EntryOf(running[1]).ends \in ends

Finishing(ends) == ~Idle /\ running[1].step = "save" /\ todo = {} /\ EntryOf(running[1]).ends \in ends

Finish ==
  /\ Finishing({"answer"})
  /\ Answer(running[1], Outcome(running[1]))
  /\ running' = << >>
  /\ UNCHANGED <<client, queue, todo, before, refused, nvs, guesses, rate, budget>>

\* factory_reset over BLE: the settings go, the device runs on.
Erase ==
  /\ Finishing({"erase"})
  /\ config' = Erased /\ fails' = 0
  /\ Answer(running[1], "ok")
  /\ running' = << >>
  /\ UNCHANGED <<client, queue, todo, before, refused, guesses, rate, budget>>

\* reboot, and the factory_reset of the backend, which erases first.
Restart ==
  /\ Finishing({"restart", "crash", "eraseRestart"})
  /\ IF EntryOf(running[1]).ends = "eraseRestart" THEN config' = Erased /\ fails' = 0 ELSE UNCHANGED nvs
  /\ Answer(running[1], "ok")
  /\ Boot
  /\ UNCHANGED budget

-----------------------------------------------------------------------------
(* The stack, the power and the clock.                                      *)

\* WiFi has come up: deinit_ble_provisioner().  The queue of commands stays.
DeinitBle ==
  /\ up /\ Idle /\ Spend("cycles")
  /\ up' = FALSE /\ connected' = FALSE
  /\ queue' = Orphaned(queue)
  /\ UNCHANGED <<hand, nvs, guesses, rate>>

\* The link is lost, or the console says so: init_ble_provisioner() and start_ble_advertising().
InitBle ==
  /\ ~up /\ Idle
  /\ up' = TRUE
  /\ UNCHANGED <<connected, queue, hand, nvs, guesses, rate, budget>>

PowerLoss ==
  /\ Spend("crash") /\ Boot
  /\ answer' = [owner |-> FALSE, says |-> "none"]
  /\ UNCHANGED nvs

Tick ==
  /\ sinceFail' = Lesser(sinceFail + 1, MaxWait) /\ quiet' = Lesser(quiet + 1, MaxWait)
  /\ window' = Lesser(window + 1, Window) /\ sinceCmd' = Lesser(sinceCmd + 1, Gap)
  /\ UNCHANGED <<client, queue, hand, nvs, rateCount, budget>>

HostTask == OnConnect \/ OnDisconnect \/ ClientWrites \/ OwnerWrites
NetworkTask == Receive \/ Claim \/ Refuse \/ Begin \/ SaveKey \/ Finish \/ Erase \/ Restart
Next == HostTask \/ NetworkTask \/ DeinitBle \/ InitBle \/ PowerLoss \/ Tick

Spec == Init /\ [][Next]_vars

\* The network task runs on, time passes, and the owner's client connects and writes when it can.
FairSpec ==
  /\ Spec
  /\ WF_vars(Receive) /\ WF_vars(Refuse) /\ WF_vars(Begin) /\ WF_vars(SaveKey)
  /\ WF_vars(Finish) /\ WF_vars(Erase) /\ WF_vars(Restart)
  /\ WF_vars(Tick) /\ WF_vars(OnConnect) /\ WF_vars(OwnerWrites)

-----------------------------------------------------------------------------
(* Properties.                                                              *)

\* A PIN is compared while earlier wrong ones are on record only when the device has run for the
\* whole cool-off since the last of them, over however many resets (check_pin).
Compares == /\ ~Idle /\ running[1].step = "check" /\ Gated(running[1])
            /\ (running' # << >> /\ running'[1].step = "save")
                 \/ (running' = << >> /\ answer'.says \in {"invalid_pin", "refused"})
GuessesSpaced == [][Compares => quiet >= CoolOff(fails)]_vars

\* A command that is answered "ok" has by then stored all its handler writes for it, its values and
\* the handler's defaults, but for puts that the store did not take, and nothing else has changed
\* since it was taken up; one that is answered with an error has stored nothing.  For every handler
\* of both tables (handle_command, apply_settings_command).
Answered == ~Idle /\ running' = << >> /\ answer'.says # "none"
Taken(r, k) == \E j \in ToSave(EntryOf(r), r.cmd) \ refused : KeyAt(r, j) = k
AnswersAreTrue ==
  [][Answered =>
       IF answer'.says = "ok"
       THEN EntryOf(running[1]).ends = "answer" =>
              \A k \in Key : config'[k] = IF Taken(running[1], k) THEN ValueOf(running[1].cmd, k) ELSE before[k]
       ELSE config' = before]_vars

\* A client that knows the PIN is served again and again however eagerly it writes, after whatever
\* wrong PINs and resets there were, as long as BLE stays up: neither the cool-off nor the rate
\* limit starves it.
OwnerServed == answer.owner /\ answer.says = "ok"
OwnerGetsIn == <>[]up => []<>OwnerServed

=============================================================================
