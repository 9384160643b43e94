-------------------------- MODULE SwitchController --------------------------
(***************************************************************************)
(* src/switch_controller.cpp as the tasks that call it see it.  The sensor *)
(* task runs evaluate_switches() once a second: it ends the pulses that    *)
(* are due and, when auto-trip is on, runs each switch's rule.  The serial *)
(* console, the BLE task, the network task and the UI task (the clients)   *)
(* call switch_set(), switch_pulse(), switch_set_auto() and the set_switch *)
(* command at any moment.  No lock is taken, so every call is a sequence   *)
(* of steps, and a step writes one thing the tasks share: an output, a     *)
(* field of the runtime mirror, the auto flag or an NVS row.  The reads    *)
(* just before a write are part of its step.                               *)
(*                                                                         *)
(* was_energized equals energized whenever it is read, so the model keeps  *)
(* one of the two.  publish_switch_state() changes no state of the device; *)
(* it blocks its caller (50 ms and an HTTP request), which is why another  *)
(* task gets to run between the steps on either side of it.                *)
(***************************************************************************)
EXTENDS SwitchRules

CONSTANTS
  NumSwitches,  \* switch_count: switches 0 .. NumSwitches - 1 are configured
  Expander,     \* the switches of type SW_EXPANDER: an I2C write may fail
  Client,       \* the tasks that call the manual API
  Calls,        \* the calls they make: a subset of CallName
  Rules,        \* the rules set_switch may store, with no latch set
  Snapshots,    \* what a pass may read from the sensors
  PulseTime,    \* the duration of a pulse, in ticks
  MaxDelay,     \* no rule has a longer trip or reset delay (16 bits, in ms)
  TimeMod,      \* millis() wraps at TimeMod (2^32 ms)
  MaxLag,       \* the longest time between two passes of the sensor task
  MayReboot     \* whether a reset or a power loss may happen

Switch   == 0 .. NumSwitches - 1
Sensor   == "sensor"
Task     == Client \cup {Sensor}
CallName == {"on", "off", "pulse", "test_all", "auto_on", "auto_off", "edit"}
Clock    == 0 .. TimeMod - 1
HalfMod  == TimeMod \div 2

ASSUME ControllerAssumption ==
  /\ NumSwitches \in Nat \ {0}
  /\ Expander \subseteq Switch
  /\ Sensor \notin Client
  /\ Calls \subseteq CallName
  /\ Rules # {} /\ Snapshots # {}
  /\ Rules \subseteq Rule
  /\ \A r \in Rules : /\ r.trip_delay <= MaxDelay /\ r.reset_delay <= MaxDelay
                      /\ Len(r.conds) <= MaxConditions
                      /\ r.latched = Unlatched
  /\ MaxDelay \in Nat /\ PulseTime \in Nat /\ MaxLag \in Nat \ {0}
  /\ HalfMod \in Nat /\ TimeMod = 2 * HalfMod
  /\ MaxDelay + MaxLag < HalfMod /\ PulseTime + MaxLag < HalfMod
  /\ MayReboot \in BOOLEAN

VARIABLES
  now,     \* millis(), in ticks
  lag,     \* ticks since the sensor task's latest pass began
  auto,    \* switch_auto_enabled
  nvAuto,  \* NVS "sw_auto"
  chan,    \* NVS "sw_ch_N": [enabled, is_energized]
  rule,    \* NVS "sw_rule_N"
  st,      \* switch_states[N]
  pin,     \* what the output of switch N really drives
  pc,      \* where each task is; "idle" between two calls
  fr,      \* each task's locals: [sw, val, ch, rule, then], clear between two calls
  ev,      \* what evaluate_switches() read as its pass began: [now, snap]
  run      \* history: the latest evaluation of each switch and the age of the
           \* run of equal evaluations it ends, up to MaxDelay

vars == <<now, lag, auto, nvAuto, chan, rule, st, pin, pc, fr, ev, run>>

\* (int32_t)(a - b) for two readings of millis().
Elapsed(a, b) ==
  LET d == IF a >= b THEN a - b ELSE a - b + TimeMod
  IN  IF d < HalfMod THEN d ELSE d - TimeMod

\* Mutant: millis() never wraps.
LaterUnwrapped(t, d) == t + d

Later(t, d) == IF t + d < TimeMod THEN t + d ELSE t + d - TimeMod

Cap(n) == IF n > MaxDelay THEN MaxDelay ELSE n

IdleFrame == [sw |-> 0, val |-> FALSE,
              ch |-> [enabled |-> FALSE, is_energized |-> FALSE],
              rule |-> CHOOSE r \in Rules : TRUE, then |-> "idle"]

Goto(t, label) == pc' = [pc EXCEPT ![t] = label]

\* Fresh locals: for switch s, value v, and where to go on after switch_set().
Call(t, s, v, then) ==
  fr' = [fr EXCEPT ![t] = [IdleFrame EXCEPT !.sw = s, !.val = v, !.then = then]]

Return(t) == Goto(t, "idle") /\ fr' = [fr EXCEPT ![t] = IdleFrame]


\* set_switch_pin(): a failed expander write is only logged.
SetSwitchPin(s, v) ==
  \/ pin' = [pin EXCEPT ![s] = v]
  \/ s \in Expander /\ UNCHANGED pin

Mirror(s, v) == st' = [st EXCEPT ![s].energized = v]

-----------------------------------------------------------------------------
(* init_switches(): every output is driven OFF and the RAM state is clear, *)
(* whatever NVS says; NVS keeps is_energized and the latches.  The outputs *)
(* of an expander that does not answer stay as they were, and it powers on *)
(* with all of them high.                                                  *)

BootPins == {p \in [Switch -> BOOLEAN] : \A s \in Switch \ Expander : ~ p[s]}

RamState == [energized |-> FALSE, condition_active |-> FALSE, condition_start |-> 0,
             pulse_active |-> FALSE, pulse_off_at |-> 0]

ColdEval == [now |-> 0, snap |-> CHOOSE x \in Snapshots : TRUE]

FreshRun == [met |-> FALSE, age |-> 0]

Init ==
  /\ now = 0 /\ lag = 0
  /\ nvAuto \in BOOLEAN /\ auto = nvAuto
  /\ chan \in [Switch -> [enabled : BOOLEAN, is_energized : {FALSE}]]
  /\ rule \in [Switch -> Rules]
  /\ st = [s \in Switch |-> RamState]
  /\ pin \in BootPins
  /\ pc = [t \in Task |-> "idle"]
  /\ fr = [t \in Task |-> IdleFrame]
  /\ ev = ColdEval
  /\ run = [s \in Switch |-> FreshRun]

Reboot ==
  /\ MayReboot
  /\ now' = 0 /\ lag' = 0
  /\ auto' = nvAuto
  /\ st' = [s \in Switch |-> RamState]
  /\ pin' \in BootPins
  /\ pc' = [t \in Task |-> "idle"]
  /\ fr' = [t \in Task |-> IdleFrame]
  /\ ev' = ColdEval
  /\ run' = [s \in Switch |-> FreshRun]
  /\ UNCHANGED <<nvAuto, chan, rule>>

\* Time passes at any moment; the sensor task is at most MaxLag late (its HTTP
\* calls time out and the watchdog resets a task that hangs).
Tick ==
  /\ lag < MaxLag
  /\ lag' = lag + 1
  /\ now' = Later(now, 1)
  /\ UNCHANGED <<auto, nvAuto, chan, rule, st, pin, pc, fr, ev, run>>

-----------------------------------------------------------------------------
(* switch_set(), called by a client or by the pulse tick: load the row and *)
(* drive the output, update the mirror, then save the row it loaded.       *)

SetPin(t) ==
  /\ pc[t] = "set_pin"
  /\ SetSwitchPin(fr[t].sw, fr[t].val)
  /\ fr' = [fr EXCEPT ![t].ch = chan[fr[t].sw]]
  /\ Goto(t, "set_mirror")
  /\ UNCHANGED <<now, lag, auto, nvAuto, chan, rule, st, ev, run>>

SetMirror(t) ==
  /\ pc[t] = "set_mirror"
  /\ Mirror(fr[t].sw, fr[t].val)
  /\ Goto(t, "set_save")
  /\ UNCHANGED <<now, lag, auto, nvAuto, chan, rule, pin, fr, ev, run>>

SetSave(t) ==
  /\ pc[t] = "set_save"
  /\ chan' = [chan EXCEPT ![fr[t].sw] = [fr[t].ch EXCEPT !.is_energized = fr[t].val]]
  /\ IF fr[t].then = "idle" THEN Return(t) ELSE Goto(t, fr[t].then) /\ UNCHANGED fr
  /\ UNCHANGED <<now, lag, auto, nvAuto, rule, st, pin, ev, run>>

-----------------------------------------------------------------------------
(* The sensor task: evaluate_switches().                                   *)

BeginPass ==
  /\ pc[Sensor] = "idle"
  /\ \E x \in Snapshots : ev' = [now |-> now, snap |-> x]
  /\ run' = [s \in Switch |-> [run[s] EXCEPT !.age = Cap(@ + lag)]]
  /\ lag' = 0
  /\ Goto(Sensor, "tick")
  /\ Call(Sensor, 0, FALSE, "pulse_clear")
  /\ UNCHANGED <<now, auto, nvAuto, chan, rule, st, pin>>

PulseDue(s) == st[s].pulse_active /\ Elapsed(ev.now, st[s].pulse_off_at) >= 0

\* Mutant: the loop leaves the last switch out.
NextPulseButLast ==
  IF fr[Sensor].sw + 2 \in Switch
  THEN Goto(Sensor, "tick") /\ Call(Sensor, fr[Sensor].sw + 1, FALSE, "pulse_clear")
  ELSE Goto(Sensor, "auto") /\ UNCHANGED fr

\* switch_pulse_tick(): each switch in turn; then the auto flag is read, once.
NextPulse ==
  IF fr[Sensor].sw + 1 \in Switch
  THEN Goto(Sensor, "tick") /\ Call(Sensor, fr[Sensor].sw + 1, FALSE, "pulse_clear")
  ELSE Goto(Sensor, "auto") /\ UNCHANGED fr

\* Mutant: pulses end only while auto-trip is on.
PulseTickWhenAuto ==
  /\ pc[Sensor] = "tick"
  /\ IF auto /\ PulseDue(fr[Sensor].sw)
     THEN Goto(Sensor, "set_pin") /\ UNCHANGED fr
     ELSE NextPulse
  /\ UNCHANGED <<now, lag, auto, nvAuto, chan, rule, st, pin, ev, run>>

PulseTick ==
  /\ pc[Sensor] = "tick"
  /\ IF PulseDue(fr[Sensor].sw)
     THEN Goto(Sensor, "set_pin") /\ UNCHANGED fr
     ELSE NextPulse
  /\ UNCHANGED <<now, lag, auto, nvAuto, chan, rule, st, pin, ev, run>>

PulseClear ==
  /\ pc[Sensor] = "pulse_clear"
  /\ st' = [st EXCEPT ![fr[Sensor].sw].pulse_active = FALSE]
  /\ NextPulse
  /\ UNCHANGED <<now, lag, auto, nvAuto, chan, rule, pin, ev, run>>

CheckAuto ==
  /\ pc[Sensor] = "auto"
  /\ IF auto THEN Goto(Sensor, "eval") /\ Call(Sensor, 0, FALSE, "idle")
             ELSE Return(Sensor)
  /\ UNCHANGED <<now, lag, auto, nvAuto, chan, rule, st, pin, ev, run>>

NextSwitch ==
  IF fr[Sensor].sw + 1 \in Switch
  THEN Goto(Sensor, "eval") /\ Call(Sensor, fr[Sensor].sw + 1, FALSE, "idle")
  ELSE Return(Sensor)

\* A pulse owns its switch; a disabled switch or rule, and a rule whose channel
\* the snapshot lacks, are left alone.
Evaluable(s) ==
  /\ ~ st[s].pulse_active
  /\ chan[s].enabled /\ rule[s].enabled
  /\ rule[s].channel \in DOMAIN ev.snap.current

SkipSwitch ==
  /\ pc[Sensor] = "eval"
  /\ ~ Evaluable(fr[Sensor].sw)
  /\ NextSwitch
  /\ UNCHANGED <<now, lag, auto, nvAuto, chan, rule, st, pin, ev, run>>

EvalRule ==
  LET s == fr[Sensor].sw  met == ConditionMet(rule[s], ev.snap)
  IN  /\ pc[Sensor] = "eval"
      /\ Evaluable(s)
      /\ fr' = [fr EXCEPT ![Sensor] = [@ EXCEPT !.ch = chan[s], !.rule = rule[s],
                                               !.val = met]]
      /\ run' = [run EXCEPT ![s] = IF @.met = met THEN @ ELSE [met |-> met, age |-> 0]]
      /\ Goto(Sensor, "decide")
      /\ UNCHANGED <<now, lag, auto, nvAuto, chan, rule, st, pin, ev>>

\* Mutant: the start of the new run of equal evaluations is not noted.
StartTimerStale(s, met) ==
  /\ st[s].condition_active # met
  /\ st' = [st EXCEPT ![s].condition_active = met]
  /\ Goto(Sensor, "persist")

\* The combined condition, met, changed: the delay is counted from this pass.
StartTimer(s, met) ==
  /\ st[s].condition_active # met
  /\ st' = [st EXCEPT ![s].condition_active = met, ![s].condition_start = ev.now]
  /\ Goto(Sensor, "persist")

\* Mutant: the two delays are swapped.
DelaySwapped(met) == IF met THEN fr[Sensor].rule.reset_delay ELSE fr[Sensor].rule.trip_delay

Delay(met) == IF met THEN fr[Sensor].rule.trip_delay ELSE fr[Sensor].rule.reset_delay

\* Mutant: a condition that has just changed counts as one that lasts.
FlipDueUntimed(s, met) ==
  /\ st[s].energized # met
  /\ Elapsed(ev.now, st[s].condition_start) >= Delay(met)

FlipDue(s, met) ==
  /\ st[s].condition_active = met
  /\ st[s].energized # met
  /\ Elapsed(ev.now, st[s].condition_start) >= Delay(met)

\* TRIPPED or RESET: the mirror, then (publish_switch_state() in between) the output.
Flip(s, met) ==
  /\ FlipDue(s, met)
  /\ Mirror(s, met)
  /\ Goto(Sensor, "drive")

Hold(s, met) ==
  /\ st[s].condition_active = met
  /\ ~ FlipDue(s, met)
  /\ Goto(Sensor, "persist")
  /\ UNCHANGED st

Decide ==
  LET s == fr[Sensor].sw  met == fr[Sensor].val
  IN  /\ pc[Sensor] = "decide"
      /\ StartTimer(s, met) \/ Flip(s, met) \/ Hold(s, met)
      /\ UNCHANGED <<now, lag, auto, nvAuto, chan, rule, pin, fr, ev, run>>

Drive ==
  /\ pc[Sensor] = "drive"
  /\ SetSwitchPin(fr[Sensor].sw, fr[Sensor].val)
  /\ Goto(Sensor, "persist")
  /\ UNCHANGED <<now, lag, auto, nvAuto, chan, rule, st, fr, ev, run>>

\* Mutant: the row is saved as it was loaded.
PersistChannelAsLoaded ==
  LET s == fr[Sensor].sw  ch == fr[Sensor].ch
  IN  /\ pc[Sensor] = "persist"
      /\ chan' = IF ch.is_energized # st[s].energized THEN [chan EXCEPT ![s] = ch] ELSE chan
      /\ Goto(Sensor, "persist_rule")
      /\ UNCHANGED <<now, lag, auto, nvAuto, rule, st, pin, fr, ev, run>>

PersistChannel ==
  LET s == fr[Sensor].sw  ch == fr[Sensor].ch
  IN  /\ pc[Sensor] = "persist"
      /\ chan' = IF ch.is_energized # st[s].energized
                 THEN [chan EXCEPT ![s] = [ch EXCEPT !.is_energized = st[s].energized]]
                 ELSE chan
      /\ Goto(Sensor, "persist_rule")
      /\ UNCHANGED <<now, lag, auto, nvAuto, rule, st, pin, fr, ev, run>>

\* The rule as this pass latched it, saved only when it differs from the one loaded.
PersistRule ==
  LET old == fr[Sensor].rule  new == RuleAfter(old, ev.snap)
  IN  /\ pc[Sensor] = "persist_rule"
      /\ rule' = IF new # old THEN [rule EXCEPT ![fr[Sensor].sw] = new] ELSE rule
      /\ NextSwitch
      /\ UNCHANGED <<now, lag, auto, nvAuto, chan, st, pin, ev, run>>

SensorStep ==
  \/ BeginPass \/ PulseTick \/ PulseClear \/ CheckAuto
  \/ SkipSwitch \/ EvalRule \/ Decide \/ Drive \/ PersistChannel \/ PersistRule
  \/ SetPin(Sensor) \/ SetMirror(Sensor) \/ SetSave(Sensor)

-----------------------------------------------------------------------------
(* The clients.                                                            *)

\* switch N 0/1, set_relay with is_energized, the UI button.
CallSet(t) ==
  /\ pc[t] = "idle"
  /\ \E s \in Switch, name \in Calls \cap {"on", "off"} : Call(t, s, name = "on", "idle")
  /\ Goto(t, "set_pin")
  /\ UNCHANGED <<now, lag, auto, nvAuto, chan, rule, st, pin, ev, run>>

\* switch_pulse(), from "test switch N" and from "test all switches", which then
\* waits until the pulse is over.
CallPulse(t) ==
  /\ pc[t] = "idle"
  /\ \E s \in Switch, name \in Calls \cap {"pulse", "test_all"} :
        Call(t, s, TRUE, IF name = "pulse" THEN "pulse_flag" ELSE "pulse_flag_wait")
  /\ Goto(t, "set_pin")
  /\ UNCHANGED <<now, lag, auto, nvAuto, chan, rule, st, pin, ev, run>>

PulseFlag(t) ==
  /\ \/ pc[t] = "pulse_flag" /\ Goto(t, "pulse_deadline")
     \/ pc[t] = "pulse_flag_wait" /\ Goto(t, "pulse_deadline_wait")
  /\ st' = [st EXCEPT ![fr[t].sw].pulse_active = TRUE]
  /\ UNCHANGED <<now, lag, auto, nvAuto, chan, rule, pin, fr, ev, run>>

PulseDeadline(t) ==
  /\ \/ pc[t] = "pulse_deadline" /\ Return(t)
     \/ pc[t] = "pulse_deadline_wait" /\ Goto(t, "pulse_wait") /\ UNCHANGED fr
  /\ st' = [st EXCEPT ![fr[t].sw].pulse_off_at = Later(now, PulseTime)]
  /\ UNCHANGED <<now, lag, auto, nvAuto, chan, rule, pin, ev, run>>

PulseWait(t) ==
  /\ pc[t] = "pulse_wait"
  /\ ~ st[fr[t].sw].pulse_active
  /\ Return(t)
  /\ UNCHANGED <<now, lag, auto, nvAuto, chan, rule, st, pin, ev, run>>

\* switch_set_auto(): the flag, its NVS copy, and on "off" every energized switch
\* with an enabled rule is forced OFF.
CallAuto(t) ==
  /\ pc[t] = "idle"
  /\ \E name \in Calls \cap {"auto_on", "auto_off"} :
        /\ Call(t, 0, name = "auto_on", "idle")
        /\ auto' = (name = "auto_on")
  /\ Goto(t, "auto_save")
  /\ UNCHANGED <<now, lag, nvAuto, chan, rule, st, pin, ev, run>>

AutoSave(t) ==
  /\ pc[t] = "auto_save"
  /\ nvAuto' = fr[t].val
  /\ IF fr[t].val THEN Return(t) ELSE Goto(t, "force_pin") /\ UNCHANGED fr
  /\ UNCHANGED <<now, lag, auto, chan, rule, st, pin, ev, run>>

NextForced(t) ==
  IF fr[t].sw + 1 \in Switch
  THEN Goto(t, "force_pin") /\ Call(t, fr[t].sw + 1, FALSE, "idle")
  ELSE Return(t)

ForcePin(t) ==
  LET s == fr[t].sw
  IN  /\ pc[t] = "force_pin"
      /\ IF rule[s].enabled /\ st[s].energized
         THEN /\ SetSwitchPin(s, FALSE)
              /\ fr' = [fr EXCEPT ![t].ch = chan[s]]
              /\ Goto(t, "force_mirror")
         ELSE NextForced(t) /\ UNCHANGED pin
      /\ UNCHANGED <<now, lag, auto, nvAuto, chan, rule, st, ev, run>>

ForceMirror(t) ==
  /\ pc[t] = "force_mirror"
  /\ Mirror(fr[t].sw, FALSE)
  /\ Goto(t, "force_save")
  /\ UNCHANGED <<now, lag, auto, nvAuto, chan, rule, pin, fr, ev, run>>

ForceSave(t) ==
  /\ pc[t] = "force_save"
  /\ chan' = [chan EXCEPT ![fr[t].sw] = [fr[t].ch EXCEPT !.is_energized = FALSE]]
  /\ NextForced(t)
  /\ UNCHANGED <<now, lag, auto, nvAuto, rule, st, pin, ev, run>>

\* get_switch_state(): the pin number of an expander switch names a GPIO it is not
\* connected to, and a disabled switch counts as OFF.
ReadBack(s) ==
  IF ~ chan[s].enabled THEN {FALSE} ELSE IF s \in Expander THEN BOOLEAN ELSE {pin[s]}

\* The set_switch command: the BLE handler writes is_energized from the output it
\* reads back, the network handler leaves it FALSE; the rule row follows with every
\* latch clear.
CallEdit(t) ==
  /\ pc[t] = "idle"
  /\ "edit" \in Calls
  /\ \E s \in Switch, enable \in BOOLEAN : \E on \in {FALSE} \cup ReadBack(s) :
        /\ Call(t, s, FALSE, "idle")
        /\ chan' = [chan EXCEPT ![s] = [enabled |-> enable, is_energized |-> on]]
  /\ Goto(t, "edit_rule")
  /\ UNCHANGED <<now, lag, auto, nvAuto, rule, st, pin, ev, run>>

EditRule(t) ==
  /\ pc[t] = "edit_rule"
  /\ \E r \in Rules : rule' = [rule EXCEPT ![fr[t].sw] = r]
  /\ Return(t)
  /\ UNCHANGED <<now, lag, auto, nvAuto, chan, st, pin, ev, run>>

\* The steps of a call that has begun.
Continue(t) ==
  \/ SetPin(t) \/ SetMirror(t) \/ SetSave(t)
  \/ PulseFlag(t) \/ PulseDeadline(t) \/ PulseWait(t)
  \/ AutoSave(t) \/ ForcePin(t) \/ ForceMirror(t) \/ ForceSave(t)
  \/ EditRule(t)

ClientStep(t) ==
  \/ CallSet(t) \/ CallPulse(t) \/ CallAuto(t) \/ CallEdit(t)
  \/ Continue(t)

Next ==
  \/ Tick
  \/ SensorStep
  \/ \E t \in Client : ClientStep(t)
  \/ Reboot

Spec == Init /\ [][Next]_vars

\* The scheduler runs every task that is ready and time passes; nobody has to call
\* anything, and nothing has to crash.
FairSpec ==
  /\ Spec
  /\ WF_vars(Tick) /\ WF_vars(SensorStep)
  /\ \A t \in Client : WF_vars(Continue(t))

-----------------------------------------------------------------------------
(* Properties.                                                             *)

ChanRow == [enabled : BOOLEAN, is_energized : BOOLEAN]

\* A rule as NVS may hold it: one that set_switch stored, with any latches.
RuleRow == {WithLatches(r, l) : r \in Rules, l \in [1 .. MaxConditions -> BOOLEAN]}

SwitchState == [energized : BOOLEAN, condition_active : BOOLEAN,
                condition_start : Clock,
                pulse_active : BOOLEAN, pulse_off_at : Clock]

SetLabel    == {"set_pin", "set_mirror", "set_save"}
SensorLabel == {"idle", "tick", "pulse_clear", "auto", "eval", "decide", "drive",
                "persist", "persist_rule"}
ClientLabel == {"idle", "pulse_flag", "pulse_flag_wait", "pulse_deadline",
                "pulse_deadline_wait", "pulse_wait", "auto_save", "force_pin",
                "force_mirror", "force_save", "edit_rule"}
Label == SetLabel \cup SensorLabel \cup ClientLabel

\* Where switch_set() may return to.
ReturnLabel == {"idle", "pulse_clear", "pulse_flag", "pulse_flag_wait"}

Frame == [sw : Switch, val : BOOLEAN, ch : ChanRow, rule : RuleRow, then : ReturnLabel]

\* Every variable keeps its type: the locations of the two kinds of task do not
\* mix, and a row NVS holds is always one that was stored whole.
TypeOK ==
  /\ now \in Clock /\ lag \in 0 .. MaxLag
  /\ auto \in BOOLEAN /\ nvAuto \in BOOLEAN
  /\ chan \in [Switch -> ChanRow]
  /\ rule \in [Switch -> RuleRow]
  /\ st \in [Switch -> SwitchState]
  /\ pin \in [Switch -> BOOLEAN]
  /\ pc \in [Task -> Label]
  /\ fr \in [Task -> Frame]
  /\ ev \in [now : Clock, snap : Snapshots]
  /\ run \in [Switch -> [met : BOOLEAN, age : 0 .. MaxDelay]]

\* The pass under way has evaluated s and not yet noted that the result changed.
Unnoted(s) ==
  /\ pc[Sensor] = "decide" /\ fr[Sensor].sw = s
  /\ st[s].condition_active # run[s].met /\ run[s].age = 0

\* condition_active is the result of the latest evaluation and condition_start_ms the
\* pass that began the run of results equal to it, as long as that is no longer ago than
\* the longest delay: no call of a client and no late pass puts the timer of
\* evaluate_switches() wrong.
TimersExact ==
  /\ now = Later(ev.now, lag)
  /\ pc[Sensor] = "decide" => fr[Sensor].val = run[fr[Sensor].sw].met
  /\ \A s \in Switch :
        \/ Unnoted(s)
        \/ /\ st[s].condition_active = run[s].met
           /\ run[s].age < MaxDelay => Elapsed(ev.now, st[s].condition_start) = run[s].age

\* The rule engine decides to switch s.
RuleFlips(s) == pc[Sensor] = "decide" /\ pc'[Sensor] = "drive" /\ fr[Sensor].sw = s

\* evaluate_switches() energizes a switch only when each of its evaluations over at
\* least the last trip_delay found the condition met, and de-energizes it only when
\* each one over at least the last reset_delay found it clear: whatever the clients
\* do meanwhile, however late a pass is and wherever millis() wraps.
SustainedStep ==
  \A s \in Switch : RuleFlips(s) =>
     /\ run[s].met = st'[s].energized
     /\ run[s].age >= (IF run[s].met THEN fr[Sensor].rule.trip_delay
                                     ELSE fr[Sensor].rule.reset_delay)

RuleFlipsAreSustained == [][SustainedStep]_vars

\* When the sensor task is done with a switch and no client exists, its NVS row, its
\* mirror and its output agree ("is_energized: persisted physical state").
SettledStep ==
  \A s \in Switch \ Expander :
     pc[Sensor] = "persist_rule" /\ pc'[Sensor] # "persist_rule" /\ fr[Sensor].sw = s
        => pin[s] = st[s].energized /\ chan[s].is_energized = st[s].energized

EvaluationSettles == [][SettledStep]_vars

Arming(s) == \E t \in Task : fr[t].sw = s /\ pc[t] \in {"pulse_deadline", "pulse_deadline_wait"}

\* The flag of a pulse comes down unless the pulse is armed again, whoever interferes:
\* the rule engine, which leaves a pulsed switch alone, gets the switch back.
PulseFlagClears ==
  \A s \in Switch : st[s].pulse_active ~> (~ st[s].pulse_active \/ Arming(s))

SettingOn(s) == \E t \in Client : pc[t] = "set_pin" /\ fr[t].sw = s /\ fr[t].val

\* "so a pulse always ends even when auto-trip is off" (switch_pulse_tick()): when
\* pulses alone energize a switch, its output goes OFF unless another pulse is started.
PulseEnds == \A s \in Switch : pin[s] ~> (~ pin[s] \/ SettingOn(s))

Quiet == \A t \in Client : pc[t] = "idle"

WindowOpen(s) == \E j \in DOMAIN rule[s].conds : InWindow(rule[s].conds[j], ev.snap)

\* "energized (tripped)" and, "once the condition clears for longer than
\* reset_delay_ms, de-energized (reset)" (docs/SWITCHES.md), for a rule whose only
\* condition is a schedule: while auto-trip is on, no client calls and the window
\* stays open the output comes to stay ON, while it stays shut OFF.
ScheduleFollows ==
  \A s \in Switch :
     /\ <>[](auto /\ Quiet /\ Evaluable(s) /\ WindowOpen(s))   => <>[] pin[s]
     /\ <>[](auto /\ Quiet /\ Evaluable(s) /\ ~ WindowOpen(s)) => <>[] (~ pin[s])

-----------------------------------------------------------------------------
(* What the comments and documents say, and the code does not do.          *)

\* "If any threshold is exceeded for longer than trip_delay_ms, the switch is
\* energized" (docs/SWITCHES.md): for sensors that only ever report a value beyond
\* the threshold of every rule.
SustainedConditionTrips == \A s \in Switch : auto /\ chan[s].enabled ~> pin[s]
=============================================================================
