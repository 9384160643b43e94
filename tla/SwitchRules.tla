---------------------------- MODULE SwitchRules ----------------------------
(***************************************************************************)
(* The rule half of src/switch_controller.cpp: what one pass of            *)
(* evaluate_switches() computes from a rule, its per-condition latches and *)
(* a sensor snapshot.  Everything here is a pure operator.                 *)
(*                                                                         *)
(* Readings and thresholds are integers in a unit coarser than the         *)
(* comparison epsilons of the code (ELEC_EPS, SOC_EPS, POWER_EPS), so a    *)
(* comparison with an epsilon is the comparison of the integers.           *)
(***************************************************************************)
EXTENDS Integers, FiniteSets, Sequences

MaxConditions == 4   \* SC_MAX_CONDITIONS

Kind == {"DISABLED", "OVERCURRENT", "UNDERVOLTAGE", "SOC_LOW", "SOC_HIGH",
         "CHANNEL_ABOVE", "CHANNEL_BELOW", "SCHEDULE_WINDOW"}
Op   == {"GT", "LT", "GTE", "LTE", "EQ"}

Condition == [kind : Kind, op : Op, ref_channel : Int, value : Int,
              schedule : SUBSET (0 .. 167)]

Rule == [enabled : BOOLEAN, channel : Nat, trip_delay : Nat, reset_delay : Nat,
         logic : {"AND", "OR"}, min_conditions : Nat, hysteresis : Int,
         conds : Seq(Condition), latched : [1 .. MaxConditions -> BOOLEAN]]

\* A rule as set_switch writes it holds no latch.
Unlatched == [j \in 1 .. MaxConditions |-> FALSE]

\* switch_rule_default_init(): the rule of a relay nobody has configured trips on overcurrent.
DefaultRule(ch, limit, trip, reset) ==
  [enabled |-> TRUE, channel |-> ch, trip_delay |-> trip, reset_delay |-> reset,
   logic |-> "OR", min_conditions |-> 1, hysteresis |-> 0,
   conds |-> <<[kind |-> "OVERCURRENT", op |-> "GT", ref_channel |-> -1, value |-> limit, schedule |-> {}]>>,
   latched |-> Unlatched]

WithLatches(rule, l) == [rule EXCEPT !.latched = l]

OverKind  == {"OVERCURRENT", "CHANNEL_ABOVE", "SOC_HIGH"}
UnderKind == {"UNDERVOLTAGE", "CHANNEL_BELOW", "SOC_LOW"}

\* The thresholds a positive hysteresis moves: the trip side of the "over"
\* kinds, the reset side of the "under" kinds.
TripValue(c, hyst)  == IF hyst > 0 /\ c.kind \in OverKind  THEN c.value + hyst ELSE c.value
ResetValue(c, hyst) == IF hyst > 0 /\ c.kind \in UnderKind THEN c.value + hyst ELSE c.value

\* eval_condition(): the direction is FALLING when the condition is latched, and
\* the value returned is then that of the reset comparison.
EvalCondition(c, reading, latched, hyst) ==
  LET trip == TripValue(c, hyst)  reset == ResetValue(c, hyst)
  IN  CASE c.op = "GT"  -> IF latched THEN reading < reset  ELSE reading > trip
        [] c.op = "GTE" -> IF latched THEN reading <= reset ELSE reading >= trip
        [] c.op = "LT"  -> IF latched THEN reading > reset  ELSE reading < trip
        [] c.op = "LTE" -> IF latched THEN reading >= reset ELSE reading <= trip
        [] c.op = "EQ"  -> reading = c.value

\* read_condition_value(): the set holding the reading a condition compares
\* with its threshold, empty when there is none.  snap.soc[ch] is the set holding
\* compute_soc()'s result, empty when channel ch has no battery configured.
Reading(c, ruleChannel, snap) ==
  LET ch == IF c.ref_channel >= 0 THEN c.ref_channel ELSE ruleChannel
  IN  IF c.kind \in {"SOC_LOW", "SOC_HIGH"} THEN snap.soc[ruleChannel]
      ELSE IF ch \notin DOMAIN snap.current THEN {}
      ELSE IF c.kind = "UNDERVOLTAGE" THEN {snap.voltage[ch]}
      ELSE {snap.current[ch]}

\* eval_schedule(): snap.slot is the set holding the hour of the week, empty while
\* the epoch is not trusted; c.schedule is the set of the mask's hours.
InWindow(c, snap) == snap.slot \cap c.schedule # {}

Satisfied(rule, snap, j) ==
  LET c == rule.conds[j]
  IN  CASE c.kind = "DISABLED" -> FALSE
        [] c.kind = "SCHEDULE_WINDOW" -> InWindow(c, snap)
        [] OTHER -> \E x \in Reading(c, rule.channel, snap) :
                       EvalCondition(c, x, rule.latched[j], rule.hysteresis)

\* The latch a pass leaves: an unreadable condition keeps the one it had.
LatchAfter(rule, snap, j) ==
  IF j \notin DOMAIN rule.conds THEN rule.latched[j]
  ELSE LET c == rule.conds[j]
       IN  IF /\ c.kind \notin {"DISABLED", "SCHEDULE_WINDOW"}
              /\ Reading(c, rule.channel, snap) = {}
           THEN rule.latched[j]
           ELSE Satisfied(rule, snap, j)

RuleAfter(rule, snap) ==
  WithLatches(rule, [j \in 1..MaxConditions |-> LatchAfter(rule, snap, j)])

\* Mutant: min_conditions = 0 asks for no condition at all.
ConditionMetByNone(rule, snap) ==
  LET sat    == {j \in DOMAIN rule.conds : Satisfied(rule, snap, j)}
      active == {j \in DOMAIN rule.conds : rule.conds[j].kind # "DISABLED"}
  IN  IF rule.logic = "AND" THEN active # {} /\ active \subseteq sat
                            ELSE Cardinality(sat) >= rule.min_conditions

\* AND needs every condition that is not disabled, OR needs min_conditions of
\* them and at least one.
ConditionMet(rule, snap) ==
  LET sat    == {j \in DOMAIN rule.conds : Satisfied(rule, snap, j)}
      active == {j \in DOMAIN rule.conds : rule.conds[j].kind # "DISABLED"}
      need   == IF rule.min_conditions = 0 THEN 1 ELSE rule.min_conditions
  IN  IF rule.logic = "AND" THEN active # {} /\ active \subseteq sat
                            ELSE Cardinality(sat) >= need
=============================================================================
