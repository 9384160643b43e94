----------------------- MODULE SwitchControllerProofs -----------------------
(***************************************************************************)
(* What is proved of SwitchController for every number of switches and     *)
(* clients, every set of rules and every width of the clock.               *)
(***************************************************************************)
EXTENDS SwitchController, FiniteSetTheorems, TLAPS

-----------------------------------------------------------------------------
(* The clock: Later() and Elapsed() are addition and subtraction modulo     *)
(* TimeMod, the difference read as a signed number.                         *)

LEMMA ClockConstants ==
  /\ TimeMod \in Nat /\ HalfMod \in Nat /\ TimeMod = 2 * HalfMod
  /\ MaxDelay \in Nat /\ PulseTime \in Nat /\ MaxLag \in Nat
  /\ MaxDelay + MaxLag < HalfMod /\ PulseTime + MaxLag < HalfMod
<1>1. HalfMod \in Nat /\ TimeMod = 2 * HalfMod
  BY ControllerAssumption
<1> QED
  BY <1>1, ControllerAssumption

LEMMA LaterType ==
  ASSUME NEW t \in Clock, NEW d \in 0 .. TimeMod - 1
  PROVE  Later(t, d) \in Clock
BY ClockConstants DEF Later, Clock

LEMMA LaterLater ==
  ASSUME NEW t \in Clock, NEW d \in Nat, d + 1 < TimeMod
  PROVE  Later(Later(t, d), 1) = Later(t, d + 1)
BY ClockConstants DEF Later, Clock

LEMMA LaterZero ==
  ASSUME NEW t \in Clock
  PROVE  Later(t, 0) = t
BY ClockConstants DEF Later, Clock

LEMMA ElapsedSelf ==
  ASSUME NEW t \in Clock
  PROVE  Elapsed(t, t) = 0
BY ClockConstants DEF Elapsed, Clock

LEMMA ElapsedLater ==
  ASSUME NEW t \in Clock, NEW a \in Clock, NEW d \in Nat, NEW e \in Nat,
         Elapsed(t, a) = e, e + d < HalfMod
  PROVE  Elapsed(Later(t, d), a) = e + d
BY ClockConstants DEF Elapsed, Later, Clock

-----------------------------------------------------------------------------
(* Types of the constants and of the pure operators.                        *)

LEMMA ConstantTypes ==
  /\ 0 \in Switch
  /\ Sensor \in Task /\ Client \subseteq Task
  /\ 0 \in Clock /\ 0 .. MaxLag \subseteq 0 .. TimeMod - 1
  /\ PulseTime \in 0 .. TimeMod - 1
  /\ ReturnLabel \subseteq Label
BY ControllerAssumption, ClockConstants
   DEF Switch, Task, Clock, ReturnLabel, Label, SetLabel, SensorLabel, ClientLabel

\* A stored rule is a row, and so is a row with other latches.
LEMMA RuleRows ==
  /\ Rules \subseteq RuleRow
  /\ RuleRow \subseteq Rule
  /\ \A r \in RuleRow : r.trip_delay \in 0 .. MaxDelay /\ r.reset_delay \in 0 .. MaxDelay
  /\ \A r \in RuleRow, l \in [1 .. MaxConditions -> BOOLEAN] : WithLatches(r, l) \in RuleRow
<1>1. Unlatched \in [1 .. MaxConditions -> BOOLEAN]
  BY DEF Unlatched
<1>2. ASSUME NEW r \in Rules
      PROVE  r \in RuleRow
  <2>1. r = WithLatches(r, Unlatched)
    BY ControllerAssumption DEF Rule, WithLatches
  <2> QED
    BY <1>1, <2>1 DEF RuleRow
<1>3. ASSUME NEW r \in RuleRow
      PROVE  /\ r \in Rule
             /\ r.trip_delay \in 0 .. MaxDelay /\ r.reset_delay \in 0 .. MaxDelay
             /\ \A l \in [1 .. MaxConditions -> BOOLEAN] : WithLatches(r, l) \in RuleRow
  <2>1. PICK q \in Rules, k \in [1 .. MaxConditions -> BOOLEAN] : r = WithLatches(q, k)
    BY DEF RuleRow
  <2>2. q \in Rule /\ q.trip_delay <= MaxDelay /\ q.reset_delay <= MaxDelay
    BY ControllerAssumption
  <2>3. r \in Rule /\ r.trip_delay = q.trip_delay /\ r.reset_delay = q.reset_delay
    BY <2>1, <2>2 DEF Rule, WithLatches
  <2>4. r.trip_delay \in 0 .. MaxDelay /\ r.reset_delay \in 0 .. MaxDelay
    BY <2>2, <2>3, ClockConstants DEF Rule
  <2>5. ASSUME NEW l \in [1 .. MaxConditions -> BOOLEAN]
        PROVE  WithLatches(r, l) \in RuleRow
    <3>1. WithLatches(r, l) = WithLatches(q, l)
      BY <2>1, <2>2 DEF Rule, WithLatches
    <3> QED
      BY <3>1 DEF RuleRow
  <2> QED
    BY <2>3, <2>4, <2>5
<1> QED
  BY <1>2, <1>3

LEMMA RuleAfterType ==
  ASSUME NEW r \in RuleRow, NEW snap
  PROVE  RuleAfter(r, snap) \in RuleRow
<1>1. ASSUME NEW j \in 1 .. MaxConditions
      PROVE  LatchAfter(r, snap, j) \in BOOLEAN
  BY RuleRows DEF LatchAfter, Satisfied, InWindow, Rule
<1> QED
  BY <1>1, RuleRows DEF RuleAfter

LEMMA ConditionMetType ==
  ASSUME NEW r \in Rule, NEW snap
  PROVE  ConditionMet(r, snap) \in BOOLEAN
<1> DEFINE sat  == {j \in DOMAIN r.conds : Satisfied(r, snap, j)}
           need == IF r.min_conditions = 0 THEN 1 ELSE r.min_conditions
<1>0. Cardinality(sat) \in Nat /\ need \in Nat
  <2>1. DOMAIN r.conds = 1 .. Len(r.conds) /\ Len(r.conds) \in Nat
    BY DEF Rule
  <2>2. IsFiniteSet(1 .. Len(r.conds))
    BY <2>1, FS_Interval
  <2>3. sat \subseteq 1 .. Len(r.conds)
    BY <2>1
  <2>4. IsFiniteSet(sat)
    BY <2>2, <2>3, FS_Subset
  <2> QED
    BY <2>4, FS_CardinalityType DEF Rule
<1>1. CASE r.logic = "AND"
  BY <1>1, Zenon DEF ConditionMet
<1>2. CASE r.logic # "AND"
  <2>1. ConditionMet(r, snap) = (Cardinality(sat) >= need)
    BY <1>2, Zenon DEF ConditionMet
  <2>2. (Cardinality(sat) >= need) \in BOOLEAN
    BY <1>0
  <2> QED
    BY <2>1, <2>2
<1> QED
  BY <1>1, <1>2

LEMMA StateUpdates ==
  ASSUME NEW x \in SwitchState, NEW b \in BOOLEAN, NEW k \in Clock
  PROVE  /\ [x EXCEPT !.energized = b] \in SwitchState
         /\ [x EXCEPT !.pulse_active = b] \in SwitchState
         /\ [x EXCEPT !.pulse_off_at = k] \in SwitchState
         /\ [x EXCEPT !.condition_active = b, !.condition_start = k] \in SwitchState
BY DEF SwitchState

LEMMA RunUpdates ==
  ASSUME NEW x \in [met : BOOLEAN, age : 0 .. MaxDelay], NEW d \in Nat
  PROVE  [x EXCEPT !.age = Cap(@ + d)] \in [met : BOOLEAN, age : 0 .. MaxDelay]
BY ClockConstants DEF Cap

LEMMA EvalFrame ==
  ASSUME NEW x \in Frame, NEW c \in ChanRow, NEW r \in RuleRow, NEW b \in BOOLEAN
  PROVE  [x EXCEPT !.ch = c, !.rule = r, !.val = b] \in Frame
BY DEF Frame

LEMMA RowFrame ==
  ASSUME NEW x \in Frame, NEW c \in ChanRow
  PROVE  [x EXCEPT !.ch = c] \in Frame
BY DEF Frame

LEMMA IdleFrameType == IdleFrame \in Frame
BY ControllerAssumption, ConstantTypes, RuleRows DEF IdleFrame, Frame, ChanRow, ReturnLabel

\* pc, fr, st, chan: what the building blocks of the actions leave.
LEMMA BlockTypes ==
  ASSUME TypeOK, NEW t \in Task
  PROVE  /\ \A l \in Label : Goto(t, l) => pc' \in [Task -> Label]
         /\ \A s \in Switch, v \in BOOLEAN, l \in ReturnLabel :
               Call(t, s, v, l) => fr' \in [Task -> Frame]
         /\ Return(t) => pc' \in [Task -> Label] /\ fr' \in [Task -> Frame]
         /\ \A s \in Switch, v \in BOOLEAN : Mirror(s, v) => st' \in [Switch -> SwitchState]
         /\ \A s \in Switch, v \in BOOLEAN : SetSwitchPin(s, v) => pin' \in [Switch -> BOOLEAN]
<1> USE DEF TypeOK
<1>1. "idle" \in Label
  BY DEF Label, SensorLabel
<1>2. \A l \in Label : Goto(t, l) => pc' \in [Task -> Label]
  BY DEF Goto
<1>3. ASSUME NEW s \in Switch, NEW v \in BOOLEAN, NEW l \in ReturnLabel, Call(t, s, v, l)
      PROVE  fr' \in [Task -> Frame]
  <2> DEFINE f == [IdleFrame EXCEPT !.sw = s, !.val = v, !.then = l]
  <2>1. f \in Frame
    BY IdleFrameType DEF Frame
  <2>2. fr' = [fr EXCEPT ![t] = f]
    BY <1>3 DEF Call
  <2> QED
    BY <2>1, <2>2
<1>4. Return(t) => pc' \in [Task -> Label] /\ fr' \in [Task -> Frame]
  BY <1>1, <1>2, IdleFrameType DEF Return
<1>5. ASSUME NEW s \in Switch, NEW v \in BOOLEAN, Mirror(s, v)
      PROVE  st' \in [Switch -> SwitchState]
  <2>1. [st[s] EXCEPT !.energized = v] \in SwitchState
    BY DEF SwitchState
  <2> QED
    BY <1>5, <2>1 DEF Mirror
<1>6. \A s \in Switch, v \in BOOLEAN : SetSwitchPin(s, v) => pin' \in [Switch -> BOOLEAN]
  BY DEF SetSwitchPin
<1> QED
  BY <1>2, <1>3, <1>4, <1>5, <1>6

LEMMA TypeInit == Init => TypeOK
<1> SUFFICES ASSUME Init PROVE TypeOK
  OBVIOUS
<1>1. rule \in [Switch -> RuleRow]
  BY RuleRows DEF Init
<1>2. st \in [Switch -> SwitchState] /\ run \in [Switch -> [met : BOOLEAN, age : 0 .. MaxDelay]]
  <2>1. RamState \in SwitchState /\ FreshRun \in [met : BOOLEAN, age : 0 .. MaxDelay]
    BY ConstantTypes, ClockConstants DEF RamState, SwitchState, FreshRun
  <2> QED
    BY <2>1 DEF Init
<1>3. ev \in [now : Clock, snap : Snapshots]
  BY ControllerAssumption, ConstantTypes DEF Init, ColdEval
<1>4. pc \in [Task -> Label] /\ fr \in [Task -> Frame]
  BY IdleFrameType DEF Init, Label, SensorLabel
<1>5. now \in Clock /\ lag \in 0 .. MaxLag /\ auto \in BOOLEAN /\ nvAuto \in BOOLEAN
  BY ConstantTypes, ClockConstants DEF Init
<1>6. chan \in [Switch -> ChanRow] /\ pin \in [Switch -> BOOLEAN]
  BY DEF Init, ChanRow, BootPins
<1> QED
  BY <1>1, <1>2, <1>3, <1>4, <1>5, <1>6 DEF TypeOK

\* The actions of the sensor task, and those of both kinds of task, keep the types.
LEMMA LabelNames ==
  /\ {"idle", "tick", "pulse_clear", "auto", "eval", "decide", "drive", "persist",
      "persist_rule", "set_pin", "set_mirror", "set_save", "pulse_flag", "pulse_flag_wait",
      "pulse_deadline", "pulse_deadline_wait", "pulse_wait", "auto_save", "force_pin",
      "force_mirror", "force_save", "edit_rule"} \subseteq Label
  /\ {"idle", "pulse_clear", "pulse_flag", "pulse_flag_wait"} \subseteq ReturnLabel
BY DEF Label, SetLabel, SensorLabel, ClientLabel, ReturnLabel

LEMMA FrameFields ==
  ASSUME TypeOK, NEW t \in Task
  PROVE  /\ fr[t].sw \in Switch /\ fr[t].val \in BOOLEAN /\ fr[t].ch \in ChanRow
         /\ fr[t].rule \in RuleRow /\ fr[t].then \in Label
         /\ [fr[t] EXCEPT !.ch = chan[fr[t].sw]] \in Frame
<1>1. fr[t] \in Frame
  BY DEF TypeOK
<1>2. /\ fr[t].sw \in Switch /\ fr[t].val \in BOOLEAN /\ fr[t].ch \in ChanRow
      /\ fr[t].rule \in RuleRow /\ fr[t].then \in Label
  BY <1>1, ConstantTypes DEF Frame
<1>3. chan[fr[t].sw] \in ChanRow
  BY <1>2 DEF TypeOK
<1> QED
  BY <1>1, <1>2, <1>3, RowFrame

LEMMA SetType ==
  ASSUME TypeOK, NEW t \in Task, SetPin(t) \/ SetMirror(t) \/ SetSave(t)
  PROVE  TypeOK'
<1> USE FrameFields, LabelNames, BlockTypes
<1>1. CASE SetPin(t)
  <2>1. pc' \in [Task -> Label] /\ pin' \in [Switch -> BOOLEAN]
    BY <1>1 DEF SetPin
  <2>2. fr' \in [Task -> Frame]
    BY <1>1 DEF SetPin, TypeOK
  <2> QED
    BY <1>1, <2>1, <2>2 DEF SetPin, TypeOK
<1>2. CASE SetMirror(t)
  <2>1. pc' \in [Task -> Label] /\ st' \in [Switch -> SwitchState]
    BY <1>2 DEF SetMirror
  <2> QED
    BY <1>2, <2>1 DEF SetMirror, TypeOK
<1>3. CASE SetSave(t)
  <2>1. pc' \in [Task -> Label] /\ fr' \in [Task -> Frame]
    BY <1>3 DEF SetSave, TypeOK
  <2>2. chan' \in [Switch -> ChanRow]
    <3>1. [fr[t].ch EXCEPT !.is_energized = fr[t].val] \in ChanRow
      BY DEF ChanRow
    <3> QED
      BY <1>3, <3>1 DEF SetSave, TypeOK
  <2> QED
    BY <1>3, <2>1, <2>2 DEF SetSave, TypeOK
<1> QED
  BY <1>1, <1>2, <1>3

LEMMA NextPulseType ==
  ASSUME TypeOK, NextPulse \/ NextSwitch
  PROVE  pc' \in [Task -> Label] /\ fr' \in [Task -> Frame]
<1>1. CASE fr[Sensor].sw + 1 \in Switch
  BY <1>1, ConstantTypes, LabelNames, BlockTypes DEF NextPulse, NextSwitch, TypeOK
<1>2. CASE fr[Sensor].sw + 1 \notin Switch
  BY <1>2, ConstantTypes, LabelNames, BlockTypes DEF NextPulse, NextSwitch, TypeOK
<1> QED
  BY <1>1, <1>2

LEMMA SensorType == TypeOK /\ SensorStep => TypeOK'
<1> SUFFICES ASSUME TypeOK, SensorStep PROVE TypeOK'
  OBVIOUS
<1> USE ConstantTypes, LabelNames, BlockTypes
<1>1. CASE BeginPass
  <2>1. pc' \in [Task -> Label] /\ fr' \in [Task -> Frame]
    BY <1>1 DEF BeginPass
  <2>2. ev' \in [now : Clock, snap : Snapshots] /\ lag' \in 0 .. MaxLag
    BY <1>1, ClockConstants DEF BeginPass, TypeOK
  <2>3. run' \in [Switch -> [met : BOOLEAN, age : 0 .. MaxDelay]]
    <3>1. ASSUME NEW s \in Switch
          PROVE  [run[s] EXCEPT !.age = Cap(@ + lag)] \in [met : BOOLEAN, age : 0 .. MaxDelay]
      BY RunUpdates DEF TypeOK
    <3> QED
      BY <1>1, <3>1 DEF BeginPass
  <2> QED
    BY <1>1, <2>1, <2>2, <2>3 DEF BeginPass, TypeOK
<1>2. CASE PulseTick
  BY <1>2, NextPulseType DEF PulseTick, TypeOK
<1>3. CASE PulseClear
  <2>1. fr[Sensor].sw \in Switch
    BY FrameFields
  <2>2. st' \in [Switch -> SwitchState]
    <3>1. [st[fr[Sensor].sw] EXCEPT !.pulse_active = FALSE] \in SwitchState
      BY <2>1, StateUpdates DEF TypeOK
    <3> QED
      BY <1>3, <2>1, <3>1 DEF PulseClear, TypeOK
  <2> QED
    BY <1>3, <2>2, NextPulseType DEF PulseClear, TypeOK
<1>4. CASE CheckAuto
  <2>1. pc' \in [Task -> Label] /\ fr' \in [Task -> Frame]
    BY <1>4 DEF CheckAuto
  <2> QED
    BY <1>4, <2>1 DEF CheckAuto, TypeOK
<1>5. CASE SkipSwitch
  BY <1>5, NextPulseType DEF SkipSwitch, TypeOK
<1>6. CASE EvalRule
  <2> DEFINE s == fr[Sensor].sw  met == ConditionMet(rule[s], ev.snap)
             f == [fr[Sensor] EXCEPT !.ch = chan[s], !.rule = rule[s], !.val = met]
  <2>1. s \in Switch
    BY FrameFields
  <2>2. met \in BOOLEAN
    <3>1. rule[s] \in Rule
      BY <2>1, RuleRows DEF TypeOK
    <3> QED
      BY <3>1, ConditionMetType
  <2>3. f \in Frame
    <3>1. fr[Sensor] \in Frame /\ chan[s] \in ChanRow /\ rule[s] \in RuleRow
      BY <2>1 DEF TypeOK
    <3> QED
      BY <2>2, <3>1, EvalFrame
  <2>4. fr' \in [Task -> Frame]
    BY <1>6, <2>3 DEF EvalRule, TypeOK
  <2>5. run' \in [Switch -> [met : BOOLEAN, age : 0 .. MaxDelay]]
    BY <1>6, <2>1, <2>2, ClockConstants DEF EvalRule, TypeOK
  <2> QED
    BY <1>6, <2>4, <2>5 DEF EvalRule, TypeOK
<1>7. CASE Decide
  <2> DEFINE s == fr[Sensor].sw  met == fr[Sensor].val
  <2>1. s \in Switch /\ met \in BOOLEAN
    BY FrameFields
  <2>2. pc' \in [Task -> Label]
    BY <1>7 DEF Decide, StartTimer, Flip, Hold
  <2>3. st' \in [Switch -> SwitchState]
    <3>1. CASE StartTimer(s, met)
      <4>1. [st[s] EXCEPT !.condition_active = met, !.condition_start = ev.now] \in SwitchState
        <5>1. st[s] \in SwitchState /\ ev.now \in Clock
          BY <2>1 DEF TypeOK
        <5> QED
          BY <2>1, <5>1, StateUpdates
      <4> QED
        BY <2>1, <3>1, <4>1 DEF StartTimer, TypeOK
    <3>2. CASE Flip(s, met)
      BY <2>1, <3>2 DEF Flip
    <3>3. CASE Hold(s, met)
      BY <3>3 DEF Hold, TypeOK
    <3> QED
      BY <1>7, <3>1, <3>2, <3>3 DEF Decide
  <2> QED
    BY <1>7, <2>2, <2>3 DEF Decide, TypeOK
<1>8. CASE Drive
  <2>1. pin' \in [Switch -> BOOLEAN] /\ pc' \in [Task -> Label]
    BY <1>8, FrameFields DEF Drive
  <2> QED
    BY <1>8, <2>1 DEF Drive, TypeOK
<1>9. CASE PersistChannel
  <2> DEFINE s == fr[Sensor].sw  row == [fr[Sensor].ch EXCEPT !.is_energized = st[s].energized]
  <2>1. s \in Switch /\ row \in ChanRow
    BY FrameFields DEF TypeOK, ChanRow, SwitchState
  <2>2. chan' \in [Switch -> ChanRow]
    BY <1>9, <2>1 DEF PersistChannel, TypeOK
  <2>3. pc' \in [Task -> Label]
    BY <1>9 DEF PersistChannel
  <2> QED
    BY <1>9, <2>2, <2>3 DEF PersistChannel, TypeOK
<1>10. CASE PersistRule
  <2>1. RuleAfter(fr[Sensor].rule, ev.snap) \in RuleRow
    BY FrameFields, RuleAfterType
  <2>2. rule' \in [Switch -> RuleRow]
    BY <1>10, <2>1, FrameFields DEF PersistRule, TypeOK
  <2>3. pc' \in [Task -> Label] /\ fr' \in [Task -> Frame]
    BY <1>10, NextPulseType DEF PersistRule
  <2> QED
    BY <1>10, <2>2, <2>3 DEF PersistRule, TypeOK
<1>11. CASE SetPin(Sensor) \/ SetMirror(Sensor) \/ SetSave(Sensor)
  BY <1>11, SetType
<1> QED
  BY <1>1, <1>2, <1>3, <1>4, <1>5, <1>6, <1>7, <1>8, <1>9, <1>10, <1>11 DEF SensorStep

LEMMA ClientType == \A t \in Client : TypeOK /\ ClientStep(t) => TypeOK'
<1> SUFFICES ASSUME NEW t \in Client, TypeOK, ClientStep(t) PROVE TypeOK'
  OBVIOUS
<1>0. t \in Task /\ fr[t].sw \in Switch /\ fr[t].val \in BOOLEAN /\ fr[t].ch \in ChanRow
  BY ConstantTypes, FrameFields
<1> USE <1>0, ConstantTypes, LabelNames, BlockTypes
<1>1. CASE CallSet(t) \/ CallPulse(t) \/ CallAuto(t)
  <2>1. pc' \in [Task -> Label] /\ fr' \in [Task -> Frame]
    BY <1>1 DEF CallSet, CallPulse, CallAuto
  <2>2. auto' \in BOOLEAN
    BY <1>1 DEF CallSet, CallPulse, CallAuto, TypeOK
  <2> QED
    BY <1>1, <2>1, <2>2 DEF CallSet, CallPulse, CallAuto, TypeOK
<1>2. CASE PulseFlag(t) \/ PulseDeadline(t)
  <2>1. Later(now, PulseTime) \in Clock
    BY LaterType DEF TypeOK
  <2>2. /\ [st[fr[t].sw] EXCEPT !.pulse_active = TRUE] \in SwitchState
        /\ [st[fr[t].sw] EXCEPT !.pulse_off_at = Later(now, PulseTime)] \in SwitchState
    BY <2>1, StateUpdates DEF TypeOK
  <2>3. st' \in [Switch -> SwitchState]
    BY <1>2, <2>2 DEF PulseFlag, PulseDeadline, TypeOK
  <2>4. pc' \in [Task -> Label] /\ fr' \in [Task -> Frame]
    BY <1>2 DEF PulseFlag, PulseDeadline, TypeOK
  <2> QED
    BY <1>2, <2>3, <2>4 DEF PulseFlag, PulseDeadline, TypeOK
<1>3. CASE PulseWait(t)
  BY <1>3 DEF PulseWait, TypeOK
<1>4. CASE AutoSave(t)
  <2>1. pc' \in [Task -> Label] /\ fr' \in [Task -> Frame]
    BY <1>4 DEF AutoSave, TypeOK
  <2> QED
    BY <1>4, <2>1 DEF AutoSave, TypeOK
<1>5. ASSUME NextForced(t)
      PROVE  pc' \in [Task -> Label] /\ fr' \in [Task -> Frame]
  <2>1. CASE fr[t].sw + 1 \in Switch
    BY <1>5, <2>1 DEF NextForced
  <2>2. CASE fr[t].sw + 1 \notin Switch
    BY <1>5, <2>2 DEF NextForced
  <2> QED
    BY <2>1, <2>2
<1>6. CASE ForcePin(t)
  <2>1. [fr[t] EXCEPT !.ch = chan[fr[t].sw]] \in Frame
    BY FrameFields
  <2>2. /\ pc' \in [Task -> Label] /\ fr' \in [Task -> Frame]
        /\ pin' \in [Switch -> BOOLEAN]
    BY <1>5, <1>6, <2>1 DEF ForcePin, TypeOK
  <2> QED
    BY <1>6, <2>2 DEF ForcePin, TypeOK
<1>7. CASE ForceMirror(t)
  <2>1. st' \in [Switch -> SwitchState] /\ pc' \in [Task -> Label]
    BY <1>7 DEF ForceMirror
  <2> QED
    BY <1>7, <2>1 DEF ForceMirror, TypeOK
<1>8. CASE ForceSave(t)
  <2>1. [fr[t].ch EXCEPT !.is_energized = FALSE] \in ChanRow
    BY DEF ChanRow
  <2>2. chan' \in [Switch -> ChanRow] /\ pc' \in [Task -> Label] /\ fr' \in [Task -> Frame]
    BY <1>5, <1>8, <2>1 DEF ForceSave, TypeOK
  <2> QED
    BY <1>8, <2>2 DEF ForceSave, TypeOK
<1>9. CASE CallEdit(t)
  <2>1. PICK s \in Switch, enable \in BOOLEAN :
           \E on \in {FALSE} \cup ReadBack(s) :
              /\ Call(t, s, FALSE, "idle")
              /\ chan' = [chan EXCEPT ![s] = [enabled |-> enable, is_energized |-> on]]
    BY <1>9 DEF CallEdit
  <2>2. ReadBack(s) \subseteq BOOLEAN
    BY DEF ReadBack, TypeOK
  <2>3. PICK on \in {FALSE} \cup ReadBack(s) :
           chan' = [chan EXCEPT ![s] = [enabled |-> enable, is_energized |-> on]]
    BY <2>1
  <2>4. [enabled |-> enable, is_energized |-> on] \in ChanRow
    BY <2>2 DEF ChanRow
  <2>5. chan' \in [Switch -> ChanRow]
    BY <2>3, <2>4 DEF TypeOK
  <2>6. pc' \in [Task -> Label] /\ fr' \in [Task -> Frame]
    BY <1>9, <2>1 DEF CallEdit
  <2> QED
    BY <1>9, <2>5, <2>6 DEF CallEdit, TypeOK
<1>10. CASE EditRule(t)
  <2>1. rule' \in [Switch -> RuleRow] /\ pc' \in [Task -> Label] /\ fr' \in [Task -> Frame]
    BY <1>10, RuleRows DEF EditRule, TypeOK
  <2> QED
    BY <1>10, <2>1 DEF EditRule, TypeOK
<1>11. CASE SetPin(t) \/ SetMirror(t) \/ SetSave(t)
  BY <1>11, SetType
<1> QED
  BY <1>1, <1>2, <1>3, <1>4, <1>6, <1>7, <1>8, <1>9, <1>10, <1>11 DEF ClientStep, Continue

LEMMA TypeStep == TypeOK /\ [Next]_vars => TypeOK'
<1> SUFFICES ASSUME TypeOK, [Next]_vars PROVE TypeOK'
  OBVIOUS
<1>1. CASE Tick
  <2>1. now' \in Clock /\ lag' \in 0 .. MaxLag
    BY <1>1, LaterType, ClockConstants DEF Tick, TypeOK
  <2> QED
    BY <1>1, <2>1 DEF Tick, TypeOK
<1>2. CASE Reboot
  <2>1. st' \in [Switch -> SwitchState] /\ run' \in [Switch -> [met : BOOLEAN, age : 0 .. MaxDelay]]
    <3>1. RamState \in SwitchState /\ FreshRun \in [met : BOOLEAN, age : 0 .. MaxDelay]
      BY ConstantTypes, ClockConstants DEF RamState, SwitchState, FreshRun
    <3> QED
      BY <1>2, <3>1 DEF Reboot
  <2>2. ev' \in [now : Clock, snap : Snapshots]
    BY <1>2, ControllerAssumption, ConstantTypes DEF Reboot, ColdEval
  <2>3. pc' \in [Task -> Label] /\ fr' \in [Task -> Frame]
    BY <1>2, IdleFrameType, LabelNames DEF Reboot
  <2>4. now' \in Clock /\ lag' \in 0 .. MaxLag /\ pin' \in [Switch -> BOOLEAN]
    BY <1>2, ConstantTypes, ClockConstants DEF Reboot, BootPins
  <2> QED
    BY <1>2, <2>1, <2>2, <2>3, <2>4 DEF Reboot, TypeOK
<1>3. CASE UNCHANGED vars
  BY <1>3 DEF vars, TypeOK
<1> QED
  BY <1>1, <1>2, <1>3, SensorType, ClientType DEF Next

\* Type correctness, for every instance.
THEOREM TypeCorrect == Spec => []TypeOK
BY TypeInit, TypeStep, PTL DEF Spec

-----------------------------------------------------------------------------
(* The timers.  TimersExact is not inductive alone: SetSave of the sensor    *)
(* task must not land on "decide" (ReturnLabel, in TypeOK), and the readings  *)
(* of the clock must be in range (TypeOK again).                             *)

LEMMA TimersInit == Init => TimersExact
<1> SUFFICES ASSUME Init PROVE TimersExact
  OBVIOUS
<1>1. now = 0 /\ lag = 0 /\ ev.now = 0 /\ pc[Sensor] = "idle"
  BY ConstantTypes DEF Init, ColdEval
<1>2. now = Later(ev.now, lag)
  BY <1>1, LaterZero, ConstantTypes
<1>3. ASSUME NEW s \in Switch
      PROVE  /\ st[s].condition_active = run[s].met
             /\ Elapsed(ev.now, st[s].condition_start) = run[s].age
  <2>1. st[s] = RamState /\ run[s] = FreshRun
    BY DEF Init
  <2>2. Elapsed(0, 0) = 0
    BY ElapsedSelf, ConstantTypes
  <2> QED
    BY <1>1, <2>1, <2>2 DEF RamState, FreshRun
<1> QED
  BY <1>1, <1>2, <1>3 DEF TimersExact

\* A step that leaves the sensor task's place and frame, the timers and the history
\* alone, as every step of a client does, preserves TimersExact.
TimersUntouched ==
  /\ UNCHANGED <<now, lag, ev, run>>
  /\ pc'[Sensor] = pc[Sensor] /\ fr'[Sensor] = fr[Sensor]
  /\ \A s \in Switch : /\ st'[s].condition_active = st[s].condition_active
                       /\ st'[s].condition_start = st[s].condition_start

LEMMA UntouchedKeeps ==
  ASSUME TypeOK, TimersExact, TimersUntouched
  PROVE  TimersExact'
<1>1. ASSUME NEW s \in Switch
      PROVE  \/ Unnoted(s)'
             \/ /\ st'[s].condition_active = run'[s].met
                /\ run'[s].age < MaxDelay => Elapsed(ev'.now, st'[s].condition_start) = run'[s].age
  BY DEF TimersExact, TimersUntouched, Unnoted
<1> QED
  BY <1>1 DEF TimersExact, TimersUntouched

\* So does one after which the sensor task is not deciding, did it not decide before.
LEMMA ElsewhereKeeps ==
  ASSUME TypeOK, TimersExact,
         UNCHANGED <<now, lag, ev, run>>,
         pc[Sensor] # "decide", pc'[Sensor] # "decide",
         \A s \in Switch : /\ st'[s].condition_active = st[s].condition_active
                          /\ st'[s].condition_start = st[s].condition_start
  PROVE  TimersExact'
BY DEF TimersExact, Unnoted

LEMMA MirrorTimers ==
  ASSUME TypeOK, NEW x \in Switch, NEW v, Mirror(x, v), NEW s \in Switch
  PROVE  /\ st'[s].condition_active = st[s].condition_active
         /\ st'[s].condition_start = st[s].condition_start
BY DEF Mirror, TypeOK, SwitchState

LEMMA ClientTimers ==
  ASSUME TypeOK, TimersExact, NEW t \in Client, ClientStep(t)
  PROVE  TimersExact'
<1>0. t \in Task /\ t # Sensor /\ Sensor \in Task
  BY ConstantTypes, ControllerAssumption
<1>1. /\ UNCHANGED <<now, lag, ev, run>>
      /\ pc'[Sensor] = pc[Sensor] /\ fr'[Sensor] = fr[Sensor]
  BY <1>0 DEF ClientStep, Continue, CallSet, CallPulse, CallAuto, CallEdit, SetPin, SetMirror,
     SetSave, PulseFlag, PulseDeadline, PulseWait, AutoSave, ForcePin, ForceMirror, ForceSave,
     EditRule, NextForced, Goto, Call, Return, TypeOK
<1>2. ASSUME NEW s \in Switch
      PROVE  /\ st'[s].condition_active = st[s].condition_active
             /\ st'[s].condition_start = st[s].condition_start
  <2>1. \/ st' = st
        \/ \E x \in Switch, v \in BOOLEAN : Mirror(x, v)
        \/ st' = [st EXCEPT ![fr[t].sw].pulse_active = TRUE]
        \/ st' = [st EXCEPT ![fr[t].sw].pulse_off_at = Later(now, PulseTime)]
    BY <1>0, FrameFields DEF ClientStep, Continue, CallSet, CallPulse, CallAuto, CallEdit,
       SetPin, SetMirror, SetSave, PulseFlag, PulseDeadline, PulseWait, AutoSave, ForcePin,
       ForceMirror, ForceSave, EditRule
  <2>2. CASE \E x \in Switch, v \in BOOLEAN : Mirror(x, v)
    BY <2>2, MirrorTimers
  <2>3. CASE st' = [st EXCEPT ![fr[t].sw].pulse_active = TRUE]
    BY <2>3 DEF TypeOK, SwitchState
  <2>4. CASE st' = [st EXCEPT ![fr[t].sw].pulse_off_at = Later(now, PulseTime)]
    BY <2>4 DEF TypeOK, SwitchState
  <2> QED
    BY <2>1, <2>2, <2>3, <2>4
<1> QED
  BY <1>1, <1>2, UntouchedKeeps DEF TimersUntouched

\* A pass begins lag ticks after the latest one: every run of equal evaluations that is
\* younger than MaxDelay is older by lag.
LEMMA BeginPassTimers ==
  ASSUME TypeOK, TimersExact, BeginPass
  PROVE  TimersExact'
<1>1. /\ now' = now /\ lag' = 0 /\ ev'.now = now /\ st' = st
      /\ pc[Sensor] = "idle" /\ pc'[Sensor] = "tick"
  BY ConstantTypes DEF BeginPass, Goto, TypeOK
<1>2. now' = Later(ev'.now, lag')
  BY <1>1, LaterZero DEF TypeOK
<1>3. ASSUME NEW s \in Switch
      PROVE  /\ st'[s].condition_active = run'[s].met
             /\ run'[s].age < MaxDelay => Elapsed(ev'.now, st'[s].condition_start) = run'[s].age
  <2>1. run'[s].met = run[s].met /\ run'[s].age = Cap(run[s].age + lag)
    BY DEF BeginPass, TypeOK
  <2>2. /\ st[s].condition_active = run[s].met
        /\ run[s].age < MaxDelay => Elapsed(ev.now, st[s].condition_start) = run[s].age
    BY <1>1 DEF TimersExact, Unnoted
  <2>3. ASSUME run'[s].age < MaxDelay
        PROVE  Elapsed(ev'.now, st'[s].condition_start) = run'[s].age
    <3>1. /\ run[s].age \in Nat /\ lag \in Nat /\ ev.now \in Clock
          /\ st[s].condition_start \in Clock /\ now = Later(ev.now, lag)
      BY ClockConstants DEF TypeOK, SwitchState, TimersExact
    <3>2. /\ run[s].age + lag < MaxDelay /\ run'[s].age = run[s].age + lag
      BY <2>1, <2>3, <3>1, ClockConstants DEF Cap
    <3>3. run[s].age < MaxDelay /\ run[s].age + lag < HalfMod
      BY <3>1, <3>2, ClockConstants
    <3> QED
      BY <1>1, <2>2, <3>1, <3>2, <3>3, ElapsedLater
  <2> QED
    BY <1>1, <2>1, <2>2, <2>3
<1> QED
  BY <1>1, <1>2, <1>3 DEF TimersExact

\* An evaluation: the run of the switch goes on, or a new one begins whose change
\* Decide notes next.
LEMMA EvalRuleTimers ==
  ASSUME TypeOK, TimersExact, EvalRule
  PROVE  TimersExact'
<1> DEFINE x == fr[Sensor].sw  met == ConditionMet(rule[x], ev.snap)
<1>1. /\ UNCHANGED <<now, lag, ev, st>> /\ x \in Switch
      /\ pc[Sensor] = "eval" /\ pc'[Sensor] = "decide"
      /\ fr'[Sensor].sw = x /\ fr'[Sensor].val = met
      /\ run' = [run EXCEPT ![x] = IF @.met = met THEN @ ELSE [met |-> met, age |-> 0]]
  BY ConstantTypes, FrameFields DEF EvalRule, Goto, TypeOK, Frame
<1>2. run'[x].met = met
  BY <1>1 DEF TypeOK
<1>3. ASSUME NEW s \in Switch
      PROVE  \/ Unnoted(s)'
             \/ /\ st'[s].condition_active = run'[s].met
                /\ run'[s].age < MaxDelay => Elapsed(ev'.now, st'[s].condition_start) = run'[s].age
  <2>1. /\ st[s].condition_active = run[s].met
        /\ run[s].age < MaxDelay => Elapsed(ev.now, st[s].condition_start) = run[s].age
    BY <1>1 DEF TimersExact, Unnoted
  <2>2. CASE run'[s] = run[s]
    BY <1>1, <2>1, <2>2
  <2>3. CASE run'[s] # run[s]
    <3>1. s = x /\ run[s].met # met /\ run'[s] = [met |-> met, age |-> 0]
      BY <1>1, <2>3 DEF TypeOK
    <3> QED
      BY <1>1, <2>1, <3>1 DEF Unnoted
  <2> QED
    BY <2>2, <2>3
<1> QED
  BY <1>1, <1>2, <1>3 DEF TimersExact

LEMMA DecideTimers ==
  ASSUME TypeOK, TimersExact, Decide
  PROVE  TimersExact'
<1> DEFINE x == fr[Sensor].sw  met == fr[Sensor].val
<1>1. /\ UNCHANGED <<now, lag, ev, run, fr>> /\ x \in Switch
      /\ pc[Sensor] = "decide" /\ pc'[Sensor] # "decide" /\ met = run[x].met
  BY ConstantTypes, FrameFields
     DEF Decide, StartTimer, Flip, Hold, Goto, TypeOK, TimersExact
<1>2. ASSUME NEW s \in Switch
      PROVE  /\ st'[s].condition_active = run[s].met
             /\ run[s].age < MaxDelay => Elapsed(ev.now, st'[s].condition_start) = run[s].age
  <2>1. CASE StartTimer(x, met)
    <3>1. CASE s = x
      <4>1. st'[s].condition_active = met /\ st'[s].condition_start = ev.now
        BY <2>1, <3>1, <1>1 DEF StartTimer, TypeOK, SwitchState
      <4>2. run[s].age = 0
        BY <1>1, <2>1, <3>1 DEF StartTimer, TimersExact, Unnoted
      <4> QED
        BY <1>1, <3>1, <4>1, <4>2, ElapsedSelf DEF TypeOK
    <3>2. CASE s # x
      BY <1>1, <2>1, <3>2 DEF StartTimer, TimersExact, Unnoted, TypeOK
    <3> QED
      BY <3>1, <3>2
  <2>2. CASE Flip(x, met) \/ Hold(x, met)
    <3>1. st[x].condition_active = met
      BY <2>2 DEF Flip, Hold, FlipDue
    <3>2. /\ st'[s].condition_active = st[s].condition_active
          /\ st'[s].condition_start = st[s].condition_start
      BY <1>1, <2>2, MirrorTimers DEF Flip, Hold
    <3> QED
      BY <1>1, <3>1, <3>2 DEF TimersExact, Unnoted
  <2> QED
    BY <2>1, <2>2 DEF Decide
<1> QED
  BY <1>1, <1>2 DEF TimersExact

LEMMA SensorTimers ==
  ASSUME TypeOK, TimersExact, SensorStep
  PROVE  TimersExact'
<1>1. CASE BeginPass
  BY <1>1, BeginPassTimers
<1>2. CASE EvalRule
  BY <1>2, EvalRuleTimers
<1>3. CASE Decide
  BY <1>3, DecideTimers
<1>4. CASE PulseTick \/ PulseClear \/ CheckAuto \/ SkipSwitch \/ Drive \/ PersistChannel
           \/ PersistRule \/ SetPin(Sensor) \/ SetMirror(Sensor) \/ SetSave(Sensor)
  <2>1. UNCHANGED <<now, lag, ev, run>>
    BY <1>4 DEF PulseTick, PulseClear, CheckAuto, SkipSwitch, Drive, PersistChannel,
       PersistRule, SetPin, SetMirror, SetSave
  <2>2. pc[Sensor] # "decide"
    BY <1>4 DEF PulseTick, PulseClear, CheckAuto, SkipSwitch, Drive, PersistChannel,
       PersistRule, SetPin, SetMirror, SetSave
  <2>3. pc'[Sensor] # "decide"
    <3>1. fr[Sensor].then # "decide"
      BY ConstantTypes DEF TypeOK, Frame, ReturnLabel
    <3> QED
      BY <1>4, <3>1, ConstantTypes DEF PulseTick, PulseClear, CheckAuto, SkipSwitch, Drive,
         PersistChannel, PersistRule, SetPin, SetMirror, SetSave, NextPulse, NextSwitch, Goto,
         Return, TypeOK
  <2>4. ASSUME NEW s \in Switch
        PROVE  /\ st'[s].condition_active = st[s].condition_active
               /\ st'[s].condition_start = st[s].condition_start
    <3>1. fr[Sensor].sw \in Switch /\ fr[Sensor].val \in BOOLEAN
      BY ConstantTypes, FrameFields
    <3>2. CASE PulseClear
      BY <3>1, <3>2 DEF PulseClear, TypeOK, SwitchState
    <3>3. CASE SetMirror(Sensor)
      BY <3>1, <3>3, MirrorTimers DEF SetMirror
    <3>4. CASE PulseTick \/ CheckAuto \/ SkipSwitch \/ Drive \/ PersistChannel \/ PersistRule
               \/ SetPin(Sensor) \/ SetSave(Sensor)
      BY <3>4 DEF PulseTick, CheckAuto, SkipSwitch, Drive, PersistChannel, PersistRule, SetPin,
         SetSave
    <3> QED
      BY <1>4, <3>2, <3>3, <3>4
  <2> QED
    BY <2>1, <2>2, <2>3, <2>4, ElsewhereKeeps
<1> QED
  BY <1>1, <1>2, <1>3, <1>4 DEF SensorStep

LEMMA TickTimers ==
  ASSUME TypeOK, TimersExact, Tick
  PROVE  TimersExact'
<1>1. /\ lag < MaxLag /\ lag' = lag + 1 /\ now' = Later(now, 1)
      /\ UNCHANGED <<st, pc, fr, ev, run>>
  BY DEF Tick
<1>2. now' = Later(ev'.now, lag')
  <2>1. lag \in Nat /\ lag + 1 < TimeMod /\ ev.now \in Clock /\ now = Later(ev.now, lag)
    BY <1>1, ClockConstants DEF TypeOK, TimersExact
  <2> QED
    BY <1>1, <2>1, LaterLater
<1> QED
  BY <1>1, <1>2 DEF TimersExact, Unnoted

LEMMA RebootTimers ==
  ASSUME TypeOK, Reboot
  PROVE  TimersExact'
<1>1. /\ now' = 0 /\ lag' = 0 /\ ev'.now = 0 /\ pc'[Sensor] = "idle"
  BY ConstantTypes DEF Reboot, ColdEval
<1>2. now' = Later(ev'.now, lag')
  BY <1>1, LaterZero, ConstantTypes
<1>3. ASSUME NEW s \in Switch
      PROVE  /\ st'[s].condition_active = run'[s].met
             /\ Elapsed(ev'.now, st'[s].condition_start) = run'[s].age
  <2>1. st'[s] = RamState /\ run'[s] = FreshRun
    BY DEF Reboot
  <2>2. Elapsed(0, 0) = 0
    BY ElapsedSelf, ConstantTypes
  <2> QED
    BY <1>1, <2>1, <2>2 DEF RamState, FreshRun
<1> QED
  BY <1>1, <1>2, <1>3 DEF TimersExact

LEMMA TimersStep == TypeOK /\ TimersExact /\ [Next]_vars => TimersExact'
<1> SUFFICES ASSUME TypeOK, TimersExact, [Next]_vars PROVE TimersExact'
  OBVIOUS
<1>1. CASE UNCHANGED vars
  BY <1>1 DEF vars, TimersExact, Unnoted
<1> QED
  BY <1>1, TickTimers, SensorTimers, ClientTimers, RebootTimers DEF Next

\* The timers of the rule engine are exact, for every instance.
THEOREM TimersCorrect == Spec => []TimersExact
BY TypeInit, TypeStep, TimersInit, TimersStep, PTL DEF Spec

\* A flip meets its guard and, the timer being exact, the delay is over in the history.
LEMMA FlipStep == TypeOK /\ TimersExact /\ [Next]_vars => SustainedStep
<1> SUFFICES ASSUME TypeOK, TimersExact, [Next]_vars, NEW s \in Switch, RuleFlips(s)
             PROVE  /\ run[s].met = st'[s].energized
                    /\ run[s].age >= (IF run[s].met THEN fr[Sensor].rule.trip_delay
                                                    ELSE fr[Sensor].rule.reset_delay)
  BY DEF SustainedStep
<1>1. /\ pc[Sensor] = "decide" /\ pc'[Sensor] = "drive" /\ fr[Sensor].sw = s
      /\ fr[Sensor].val = run[s].met
  BY DEF RuleFlips, TimersExact
<1>2. Decide
  <2>1. ~ UNCHANGED vars /\ ~ Tick
    BY <1>1 DEF vars, Tick
  <2>2. ~ Reboot
    BY <1>1, ConstantTypes DEF Reboot
  <2>3. ASSUME NEW t \in Client PROVE ~ ClientStep(t)
    BY <1>1, ConstantTypes, ControllerAssumption DEF ClientStep, Continue, CallSet, CallPulse,
       CallAuto, CallEdit, SetPin, SetMirror, SetSave, PulseFlag, PulseDeadline, PulseWait,
       AutoSave, ForcePin, ForceMirror, ForceSave, EditRule, NextForced, Goto, Return, TypeOK
  <2> QED
    BY <1>1, <2>1, <2>2, <2>3 DEF Next, SensorStep, BeginPass, PulseTick, PulseClear, CheckAuto,
       SkipSwitch, EvalRule, Drive, PersistChannel, PersistRule, SetPin, SetMirror, SetSave
<1>3. Flip(s, run[s].met)
  BY <1>1, <1>2, ConstantTypes DEF Decide, StartTimer, Hold, Goto, TypeOK
<1>4. st'[s].energized = run[s].met
  BY <1>3 DEF Flip, Mirror, TypeOK, SwitchState
<1>5. /\ st[s].condition_active = run[s].met
      /\ Elapsed(ev.now, st[s].condition_start) >= Delay(run[s].met)
  BY <1>3 DEF Flip, FlipDue
<1>6. run[s].age < MaxDelay => Elapsed(ev.now, st[s].condition_start) = run[s].age
  BY <1>5 DEF TimersExact, Unnoted
<1>7. Delay(run[s].met) <= MaxDelay /\ Delay(run[s].met) \in Nat
  <2>1. fr[Sensor].rule \in RuleRow
    BY FrameFields, ConstantTypes
  <2>2. /\ fr[Sensor].rule.trip_delay \in 0 .. MaxDelay
        /\ fr[Sensor].rule.reset_delay \in 0 .. MaxDelay
    BY <2>1, RuleRows
  <2> QED
    BY <2>2, ClockConstants DEF Delay
<1>8. run[s].age \in Nat
  BY ClockConstants DEF TypeOK
<1>9. run[s].age >= Delay(run[s].met)
  BY <1>5, <1>6, <1>7, <1>8, ClockConstants
<1> QED
  BY <1>4, <1>9 DEF Delay

\* The rule engine flips a switch only after the condition has lasted, for every number
\* of switches and clients, every rule and every width of the clock.
THEOREM FlipsSustained == Spec => RuleFlipsAreSustained
<1>1. TypeOK /\ TimersExact /\ [Next]_vars => [SustainedStep]_vars
  BY FlipStep
<1> QED
  BY <1>1, TypeInit, TypeStep, TimersInit, TimersStep, PTL DEF Spec, RuleFlipsAreSustained
-----------------------------------------------------------------------------
(* The sensor task alone leaves output, mirror and row of a switch equal.   *)

\* The sensor task is at one of these places with switch s.
With(s, labels) == fr[Sensor].sw = s /\ pc[Sensor] \in labels

\* Output and mirror differ only between the two writes of a trip or of the end of a pulse, whose
\* value is known; the row in hand is the one in NVS, and agrees with the mirror once it was saved.
SettledAt(s) ==
  /\ pin[s] = st[s].energized \/ With(s, {"drive", "set_mirror"})
  /\ With(s, {"drive"}) => st[s].energized = fr[Sensor].val
  /\ With(s, {"set_mirror"}) => pin[s] = fr[Sensor].val
  /\ With(s, {"decide", "drive", "persist"}) => fr[Sensor].ch = chan[s]
  /\ With(s, {"persist_rule"}) => chan[s].is_energized = st[s].energized

Settled == \A s \in Switch \ Expander : SettledAt(s)

\* A step that changes neither output, mirror nor row, and ends where nothing is claimed.
LEMMA NothingWritten ==
  ASSUME TypeOK, NEW s \in Switch \ Expander, SettledAt(s),
         UNCHANGED <<pin, chan>>, st'[s].energized = st[s].energized,
         ~ With(s, {"drive", "set_mirror"}),
         ~ With(s, {"decide", "drive", "persist", "persist_rule", "set_mirror"})'
  PROVE  SettledAt(s)'
BY DEF SettledAt, With

LEMMA SettledMoves ==
  ASSUME TypeOK, NEW s \in Switch \ Expander, SettledAt(s),
         BeginPass \/ PulseTick \/ PulseClear \/ CheckAuto \/ SkipSwitch \/ PersistRule
  PROVE  SettledAt(s)'
<1>1. Sensor \in Task /\ fr \in [Task -> Frame] /\ pc \in [Task -> Label]
  BY ConstantTypes DEF TypeOK
<1>2. UNCHANGED <<pin, chan>>
  BY DEF BeginPass, PulseTick, PulseClear, CheckAuto, SkipSwitch, PersistRule
<1>3. st'[s].energized = st[s].energized
  <2>1. CASE PulseClear
    BY <2>1 DEF PulseClear, TypeOK, SwitchState
  <2>2. CASE BeginPass \/ PulseTick \/ CheckAuto \/ SkipSwitch \/ PersistRule
    BY <2>2 DEF BeginPass, PulseTick, CheckAuto, SkipSwitch, PersistRule
  <2> QED
    BY <2>1, <2>2
<1>4. pc[Sensor] \in {"idle", "tick", "pulse_clear", "auto", "eval", "persist_rule"}
  BY DEF BeginPass, PulseTick, PulseClear, CheckAuto, SkipSwitch, PersistRule
<1>5. pc'[Sensor] \in {"idle", "tick", "set_pin", "auto", "eval"}
  BY <1>1 DEF BeginPass, PulseTick, PulseClear, CheckAuto, SkipSwitch, PersistRule, Goto, Return, NextPulse, NextSwitch
<1> QED
  BY <1>2, <1>3, <1>4, <1>5, NothingWritten DEF With

LEMMA SettledEval ==
  ASSUME TypeOK, NEW s \in Switch \ Expander, SettledAt(s), EvalRule
  PROVE  SettledAt(s)'
<1>1. Sensor \in Task /\ fr[Sensor] \in Frame /\ fr \in [Task -> Frame] /\ pc \in [Task -> Label]
  BY ConstantTypes DEF TypeOK
<1>2. /\ pc[Sensor] = "eval" /\ pc'[Sensor] = "decide" /\ UNCHANGED <<pin, chan, st>>
      /\ fr'[Sensor].sw = fr[Sensor].sw /\ fr'[Sensor].ch = chan[fr[Sensor].sw]
  BY <1>1 DEF EvalRule, Goto, Frame
<1> QED
  BY <1>2 DEF SettledAt, With

LEMMA SettledDecide ==
  ASSUME TypeOK, NEW s \in Switch \ Expander, SettledAt(s), Decide
  PROVE  SettledAt(s)'
<1> DEFINE q == fr[Sensor].sw  met == fr[Sensor].val
<1>1. Sensor \in Task /\ pc \in [Task -> Label] /\ st \in [Switch -> SwitchState]
  BY ConstantTypes DEF TypeOK
<1>2. pc[Sensor] = "decide" /\ UNCHANGED <<pin, chan, fr>> /\ q \in Switch
  BY FrameFields, <1>1 DEF Decide
<1>3. CASE StartTimer(q, met)
  <2>1. pc'[Sensor] = "persist" /\ st'[s].energized = st[s].energized
    BY <1>1, <1>2, <1>3 DEF StartTimer, Goto, SwitchState
  <2> QED
    BY <1>2, <2>1 DEF SettledAt, With
<1>4. CASE Flip(q, met)
  <2>1. pc'[Sensor] = "drive" /\ st'[q].energized = met /\ (s # q => st'[s] = st[s])
    BY <1>1, <1>2, <1>4 DEF Flip, Goto, Mirror, SwitchState
  <2> QED
    BY <1>2, <2>1 DEF SettledAt, With
<1>5. CASE Hold(q, met)
  <2>1. pc'[Sensor] = "persist" /\ UNCHANGED st
    BY <1>1, <1>5 DEF Hold, Goto
  <2> QED
    BY <1>2, <2>1 DEF SettledAt, With
<1> QED
  BY <1>3, <1>4, <1>5 DEF Decide

LEMMA SettledWrites ==
  ASSUME TypeOK, NEW s \in Switch \ Expander, SettledAt(s),
         Drive \/ PersistChannel \/ SetPin(Sensor) \/ SetMirror(Sensor) \/ SetSave(Sensor)
  PROVE  SettledAt(s)'
<1> DEFINE q == fr[Sensor].sw
<1>1. /\ Sensor \in Task /\ pc \in [Task -> Label] /\ st \in [Switch -> SwitchState] /\ pin \in [Switch -> BOOLEAN]
      /\ chan \in [Switch -> ChanRow] /\ fr \in [Task -> Frame]
  BY ConstantTypes DEF TypeOK
<1>2. q \in Switch /\ fr[Sensor] \in Frame /\ fr[Sensor].ch \in ChanRow
  BY FrameFields, <1>1
<1>3. CASE Drive
  <2>1. pc[Sensor] = "drive" /\ pc'[Sensor] = "persist" /\ UNCHANGED <<chan, st, fr>>
    BY <1>1, <1>3 DEF Drive, Goto
  <2>2. pin'[s] = IF s = q THEN fr[Sensor].val ELSE pin[s]
    BY <1>1, <1>2, <1>3 DEF Drive, SetSwitchPin
  <2> QED
    BY <2>1, <2>2 DEF SettledAt, With
<1>4. CASE PersistChannel
  <2>1. pc[Sensor] = "persist" /\ pc'[Sensor] = "persist_rule" /\ UNCHANGED <<pin, st, fr>>
    BY <1>1, <1>4 DEF PersistChannel, Goto
  <2>2. CASE s = q
    <3>1. fr[Sensor].ch = chan[s]
      BY <2>1, <2>2 DEF SettledAt, With
    <3>2. chan'[s].is_energized = st[s].energized
      BY <1>1, <1>2, <1>4, <2>2, <3>1 DEF PersistChannel, ChanRow
    <3> QED
      BY <2>1, <3>2 DEF SettledAt, With
  <2>3. CASE s # q
    BY <2>1, <2>3 DEF SettledAt, With
  <2> QED
    BY <2>2, <2>3
<1>5. CASE SetPin(Sensor)
  <2>1. pc[Sensor] = "set_pin" /\ pc'[Sensor] = "set_mirror" /\ UNCHANGED <<chan, st>>
    BY <1>1, <1>5 DEF SetPin, Goto
  <2>2. pin'[s] = IF s = q THEN fr[Sensor].val ELSE pin[s]
    BY <1>1, <1>2, <1>5 DEF SetPin, SetSwitchPin
  <2>3. fr'[Sensor].sw = q /\ fr'[Sensor].val = fr[Sensor].val
    BY <1>1, <1>2, <1>5 DEF SetPin, Frame
  <2> QED
    BY <2>1, <2>2, <2>3 DEF SettledAt, With
<1>6. CASE SetMirror(Sensor)
  <2>1. pc[Sensor] = "set_mirror" /\ pc'[Sensor] = "set_save" /\ UNCHANGED <<chan, pin, fr>>
    BY <1>1, <1>6 DEF SetMirror, Goto
  <2>2. st'[q].energized = fr[Sensor].val /\ (s # q => st'[s] = st[s])
    BY <1>1, <1>2, <1>6 DEF SetMirror, Mirror, SwitchState
  <2> QED
    BY <2>1, <2>2 DEF SettledAt, With
<1>7. CASE SetSave(Sensor)
  <2>1. pc[Sensor] = "set_save" /\ pc'[Sensor] \in ReturnLabel /\ UNCHANGED <<pin, st>>
    <3>1. fr[Sensor].then \in ReturnLabel /\ "idle" \in ReturnLabel
      BY <1>2 DEF Frame, ReturnLabel
    <3> QED
      BY <1>1, <1>7, <3>1 DEF SetSave, Goto, Return
  <2> QED
    BY <2>1 DEF SettledAt, With, ReturnLabel
<1> QED
  BY <1>3, <1>4, <1>5, <1>6, <1>7

\* Where no client exists, the sensor task settles every switch whose output it can read back
\* (evaluate_switches, switch_set).
THEOREM SensorSettles ==
  ASSUME Client = {}
  PROVE  Spec => EvaluationSettles
<1>1. Init => Settled
  <2> SUFFICES ASSUME Init, NEW s \in Switch \ Expander PROVE SettledAt(s)
    BY DEF Settled
  <2>1. Sensor \in Task
    BY ConstantTypes
  <2> QED
    BY <2>1 DEF Init, SettledAt, With, RamState, BootPins
<1>2. TypeOK /\ Settled /\ [Next]_vars => Settled'
  <2> SUFFICES ASSUME TypeOK, Settled, [Next]_vars, NEW s \in Switch \ Expander PROVE SettledAt(s)'
    BY DEF Settled
  <2>1. SettledAt(s)
    BY DEF Settled
  <2>2. CASE Tick \/ vars' = vars
    <3>1. UNCHANGED <<chan, st, pin, pc, fr>>
      BY <2>2 DEF Tick, vars
    <3> QED
      BY <2>1, <3>1 DEF SettledAt, With
  <2>3. CASE SensorStep
    BY <2>1, <2>3, SettledMoves, SettledEval, SettledDecide, SettledWrites DEF SensorStep
  <2>4. CASE Reboot
    <3>1. Sensor \in Task
      BY ConstantTypes
    <3> QED
      BY <2>4, <3>1 DEF Reboot, SettledAt, With, RamState, BootPins
  <2> QED
    BY <2>2, <2>3, <2>4 DEF Next
<1>3. Settled /\ [Next]_vars => [SettledStep]_vars
  BY DEF Settled, SettledAt, With, SettledStep
<1> QED
  BY <1>1, <1>2, <1>3, TypeCorrect, PTL DEF Spec, EvaluationSettles
=============================================================================
