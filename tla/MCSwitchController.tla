------------------------- MODULE MCSwitchController -------------------------
(* Small instances of SwitchController: one tick is a second.               *)
EXTENDS SwitchController

Cond(kind, op, ref, value, hours) ==
  [kind |-> kind, op |-> op, ref_channel |-> ref, value |-> value, schedule |-> hours]

MakeRule(enabled, logic, min, hyst, conds) ==
  [enabled |-> enabled, channel |-> 0, trip_delay |-> 1, reset_delay |-> 2,
   logic |-> logic, min_conditions |-> min, hysteresis |-> hyst,
   conds |-> conds, latched |-> Unlatched]

Over     == Cond("OVERCURRENT", "GT", -1, 2, {})
OnCharge == Cond("CHANNEL_ABOVE", "GTE", 1, 2, {})
LowSoc   == Cond("SOC_LOW", "LT", -1, 2, {})
LowVolt  == Cond("UNDERVOLTAGE", "LTE", -1, 1, {})
AtNine   == Cond("SCHEDULE_WINDOW", "GT", -1, 0, {9})
Unused   == Cond("DISABLED", "GT", -1, 0, {})

RelayRule    == DefaultRule(0, 2, 1, 2)
HystRule     == MakeRule(TRUE, "OR", 2, 1, <<Over, LowVolt>>)
AndRule      == MakeRule(TRUE, "AND", 0, 0, <<LowSoc, Unused, OnCharge>>)
ScheduleRule == MakeRule(TRUE, "OR", 0, 0, <<AtNine>>)

Snap(i, v, soc, hour) ==
  [current |-> [c \in {0, 1} |-> i], voltage |-> [c \in {0, 1} |-> v],
   soc |-> [c \in {0, 1} |-> soc], slot |-> hour]

Normal   == Snap(1, 2, {3}, {})
Overload == Snap(4, 1, {1}, {9})
NoClock  == Snap(2, 2, {}, {})

\* A rule with equal delays, so that the clock can be small when clients interfere.
QuickRule(enabled) == [MakeRule(enabled, "OR", 1, 0, <<Over>>) EXCEPT !.reset_delay = 1]
QuickSchedule      == [ScheduleRule EXCEPT !.reset_delay = 1]

OnlyDefault   == {RelayRule}
AllRules      == {RelayRule, HystRule, AndRule, ScheduleRule}
OnlyQuick     == {QuickRule(TRUE)}
OnlyDisabled  == {QuickRule(FALSE)}
OnlySchedule  == {QuickSchedule}
EditSchedule  == {QuickSchedule, [QuickSchedule EXCEPT !.enabled = FALSE]}
AllSnaps      == {Normal, Overload, NoClock}
TwoSnaps      == {Normal, Overload}
OnlyOverload  == {Overload}
=============================================================================
