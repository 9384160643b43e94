--------------------------- MODULE MCBleProvisioner ---------------------------
(* Scenarios with few writes and a little of what can go wrong in each.       *)
EXTENDS BleProvisioner

\* What commands have values for.
Given == [set_wifi |-> {"ssid", "pass"}, set_switch |-> {"switch", "rule"}, set_mqtt |-> {"broker", "port", "topic"},
          set_pin |-> {"pin"}, ota_set_backend_url |-> {"otaUrl"}, set_calibration |-> {"calibration", "calVersion"},
          set_battery |-> {"binding"}, set_battery_profile |-> {"profile"}, set_supabase |-> {"supaUrl", "supaApi"}]
Ask(name) == [name |-> name, pin |-> 1, old |-> 0, value |-> 2, fine |-> TRUE,
              fields |-> IF name \in DOMAIN Given THEN Given[name] ELSE {}]
Wrong(c) == [c EXCEPT !.pin = 2]
Bad(c)   == [c EXCEPT !.fine = FALSE]
NewPin(from, to) == [Ask("set_pin") EXCEPT !.pin = from, !.old = from, !.value = to]
Only(fields, c) == [c EXCEPT !.fields = fields]
Unbind == Only({"binding"}, [Ask("set_battery") EXCEPT !.value = Default])

Calm == [menu |-> {}, remoteMenu |-> {}, writes |-> 0, remote |-> 0, leave |-> 0, cycles |-> 0, crash |-> 0, puts |-> 0]
AllScenarios == <<
  [Calm EXCEPT !.menu = {Wrong(Ask("get_status"))}, !.writes = 3, !.crash = 1],
  [Calm EXCEPT !.menu = {Wrong(Ask("set_wifi"))}, !.writes = 1, !.leave = 1, !.cycles = 1],
  [Calm EXCEPT !.menu = {Ask("set_wifi"), Bad(Ask("set_switch")), Ask("get_mqtt")}, !.writes = 2, !.crash = 1],
  [Calm EXCEPT !.menu = {NewPin(1, 2), NewPin(1, 0), NewPin(1, 3), NewPin(2, 1), Ask("no such command")}, !.writes = 2],
  [Calm EXCEPT !.menu = {Ask("factory_reset"), Ask("ota_set_backend_url"), NewPin(1, 2)}, !.writes = 2],
  [Calm EXCEPT !.menu = {Ask("reboot"), Wrong(Ask("reboot"))}, !.writes = 2],
  [Calm EXCEPT !.menu = {NewPin(1, 2)}, !.writes = 1, !.remoteMenu = {NewPin(1, 2), Ask("factory_reset"), Ask("reboot")},
               !.remote = 1],
  [Calm EXCEPT !.menu = {Ask("set_mqtt")}, !.writes = 1, !.remoteMenu = {Only({"broker"}, Ask("set_mqtt")), Only({"port"}, Ask("set_mqtt")), Bad(Ask("set_switch"))},
               !.remote = 1, !.crash = 1],
  [Calm EXCEPT !.menu = {Only({"topic"}, Ask("set_mqtt")), Ask("set_battery"), Unbind, Ask("set_calibration"),
                         Only({}, Ask("set_calibration"))}, !.writes = 1, !.puts = 1],
  [Calm EXCEPT !.remoteMenu = {Ask("set_battery_profile"), Only({}, Ask("set_battery_profile")), Ask("delete_battery_profile")},
               !.remote = 2, !.puts = 2],
  [Calm EXCEPT !.menu = {Wrong(Ask("get_status")), Ask("set_supabase")}, !.writes = 2, !.puts = 1]>>
MCScenarios == {AllScenarios[k] : k \in DOMAIN AllScenarios}
===============================================================================
