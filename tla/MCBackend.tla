----------------------------- MODULE MCBackend ------------------------------
(* One device, an alarm rule on its battery power, and scenarios with a     *)
(* little of what can go wrong in each.                                     *)
EXTENDS Backend

CONSTANTS d1, r1, r2

Discharging == [k \in {"ch0_P", "ch1_P", "soc_pct0"} |-> IF k = "soc_pct0" THEN 40 ELSE -6]
Charging    == [k \in {"ch0_P"} |-> 8]
Resting     == [k \in {"soc_pct0"} |-> 20]
MCReading   == {Discharging, Charging, Resting}

MCRules == (r1 :> [id |-> r1, device |-> AnyDevice, type |-> "", field |-> "battery_power", op |-> "lt", value |-> -10,
                   duration |-> 10, notify |-> TRUE, enabled |-> TRUE])
        @@ (r2 :> [id |-> r2, device |-> d1, type |-> "monitor", field |-> "min_soc_pct", op |-> "gte", value |-> 50,
                   duration |-> 0, notify |-> FALSE, enabled |-> TRUE])

MCType == d1 :> "monitor"

Calm == [data |-> {Discharging, Charging}, frames |-> 0, live |-> 0, outage |-> 0, signal |-> 0, worker |-> 0, pause |-> 0, db |-> 0, api |-> 0, link |-> 0,
         edit |-> 0, drop |-> 0, leave |-> 0, auth |-> FALSE, clock |-> FALSE, new |-> FALSE]
Clocked == [Calm EXCEPT !.clock = TRUE]
MCScenarios == {
  [Calm EXCEPT !.frames = 3, !.outage = 1, !.signal = 1, !.data = {Resting}],
  [Calm EXCEPT !.frames = 2, !.pause = 2, !.worker = 1],
  [Calm EXCEPT !.frames = 2, !.db = 1],
  [Calm EXCEPT !.live = 5],
  [Calm EXCEPT !.live = 4, !.api = 1],
  [Calm EXCEPT !.live = 3, !.db = 2],
  [Calm EXCEPT !.live = 4, !.edit = 1],
  [Clocked EXCEPT !.drop = 2, !.link = 1],
  [Clocked EXCEPT !.drop = 1, !.leave = 1, !.api = 1],
  [Clocked EXCEPT !.drop = 2, !.auth = TRUE],
  [Clocked EXCEPT !.drop = 1, !.db = 1],
  [Clocked EXCEPT !.leave = 1, !.db = 1],
  [Clocked EXCEPT !.drop = 1, !.db = 1, !.new = TRUE],
  [Clocked EXCEPT !.live = 2, !.drop = 1]}
=============================================================================
