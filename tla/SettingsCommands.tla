-------------------------- MODULE SettingsCommands --------------------------
(***************************************************************************)
(* The two command tables of src/ble_provisioner.cpp: handle_command(), for *)
(* a BLE client, and apply_settings_command(), for commands claimed from   *)
(* the backend.  A command is [name, pin, old, value, fine, fields]: the   *)
(* PIN and the old PIN it carries, the value of what it sets, whether its  *)
(* arguments pass the handler's checks, and the settings it has values for. *)
(* An entry of a table says what the handler does once the command may     *)
(* run: the NVS keys it writes, in that order; of these, those it leaves   *)
(* alone when the command has no value for them, while the others are      *)
(* written with the handler's default; the values it refuses a command     *)
(* without; whether it checks arguments first; the keys its answer needs;  *)
(* whether its keys are those of two shapes of the command, of which it    *)
(* writes one; and how it ends.  What set_switch and the profiles store is *)
(* a value here; SwitchRules and BatteryCounters look inside.              *)
(***************************************************************************)
EXTENDS Sequences

Entry(saves, leaves, asks, checks) ==
  [saves |-> saves, leaves |-> leaves, asks |-> asks, checks |-> checks,
   needs |-> {}, shapes |-> FALSE, ends |-> "answer"]
Saves(keys)              == Entry(keys, {}, {}, FALSE)
SavesBut(keys, leaves)   == Entry(keys, leaves, {}, FALSE)
Asks(keys, leaves, asks) == Entry(keys, leaves, asks, FALSE)
Checks(keys)             == Entry(keys, {}, {}, TRUE)
ChecksBut(keys, leaves)  == Entry(keys, leaves, {}, TRUE)
Shapes(keys)             == [Checks(keys) EXCEPT !.shapes = TRUE]
Reads(keys)              == [Saves(<< >>) EXCEPT !.needs = keys]
Ends(how)                == [Saves(<< >>) EXCEPT !.ends = how]
Acts                     == Ends("answer")
ActsIfFine               == Checks(<< >>)

\* Keys of pm-settings and the two battery namespaces; a shape of several puts is several keys.
OtaAddress == <<"otaUrl">>
OtaKey == {OtaAddress[1], "otaInterval"}
Supabase == <<"supaUrl", "supaAnon", "supaApi", "supaDevice">>
SupabaseKey == {Supabase[k] : k \in DOMAIN Supabase}
SwitchKeys == <<"switch", "switchCount", "rule">>
Calibration == <<"calibration", "calVersion">>
Key == OtaKey \cup
  {"pin", "ssid", "pass", "broker", "port", "topic", "httpUrl", "httpToken", "httpOn",
   "supaUrl", "supaAnon", "supaApi", "supaDevice", "switch", "switchCount", "rule",
   "battery", "binding", "profile", "channelProfile", "shunt", "ratio", "rHigh", "rLow",
   "group", "groupCount", "channelName", "calibration", "calVersion", "virtual"}

\* Preferences::putString() stores nothing for a null string, which is what a BLE command has in
\* place of one that it lacks.
Strings == {"ssid", "pass", "broker", "topic", "httpUrl", "httpToken"}

\* The count of switches or groups is written when the index is a new one, which is when a command
\* has it among its fields.
Counts == {"switchCount", "groupCount"}

\* The branches of a chain: the tables together, no two of which share a command.
Chain(tables) == [n \in UNION {DOMAIN t : t \in tables} |-> (CHOOSE t \in tables : n \in DOMAIN t)[n]]

-----------------------------------------------------------------------------
(* handle_command().                                                        *)

BleLinks == [
  set_wifi |-> SavesBut(<<"ssid", "pass">>, Strings),
  set_mqtt |-> SavesBut(<<"broker", "port", "topic">>, Strings),
  set_http |-> SavesBut(<<"httpUrl", "httpToken", "httpOn">>, Strings)]

\* The index, a pin for indices without a default, and the pin's use are checked before the first save.
BleSwitch == [set_switch |-> ChecksBut(SwitchKeys, Counts), set_relay |-> ChecksBut(SwitchKeys, Counts)]

\* set_battery with v = 2 binds a channel to a profile, or to none if it names none, without v it
\* stores the legacy configuration.
BleChannels == [
  set_battery    |-> Shapes(<<"binding", "battery">>),
  set_shunt      |-> Saves(<<"shunt">>),
  set_volt_ratio |-> Saves(<<"ratio">>),
  set_resistors  |-> Saves(<<"rHigh", "rLow">>)]

\* set_pin checks old_pin itself; no new PIN, 0 and more than six digits are refused.
BleSetPin == [set_pin |-> Asks(<<"pin">>, {}, {"pin"})]

BleStatus == [get_status |-> Acts]

BleTriggers == [
  reset_coulomb      |-> ActsIfFine,
  calibrate_baseline |-> Acts,
  discover_sensors   |-> Acts]

BleReads == [
  get_switch  |-> Reads({"switch", "rule"}),
  get_relay   |-> Reads({"switch", "rule"}),
  get_battery |-> Reads({"battery"}),
  get_wifi    |-> Reads({"ssid"}),
  get_mqtt    |-> Reads({"broker"}),
  get_http    |-> Reads({"httpUrl"})]

\* Of the four Supabase values a command writes those it has.
BleSupabase == [
  set_supabase |-> SavesBut(Supabase, SupabaseKey),
  get_supabase |-> Reads(SupabaseKey)]

BleProfiles == [
  set_channel_group   |-> SavesBut(<<"group", "groupCount">>, Counts),
  get_channel_group   |-> Reads({"group"}),
  set_battery_profile |-> Shapes(<<"profile", "channelProfile">>),
  get_battery_profile |-> Reads({"channelProfile"}),
  set_channel_name    |-> Saves(<<"channelName">>),
  get_channel_name    |-> Acts]

\* The calls of sensor_manager that change the calibration, each of which stores the whole of it;
\* a value of an unknown type, one that is not among the fields, is stored nowhere.
Calibrations == [
  set_calibration   |-> ChecksBut(Calibration, {Calibration[1], Calibration[2]}),
  reset_calibration |-> Checks(Calibration),
  set_invert_curr   |-> Checks(Calibration),
  reset_invert_curr |-> Checks(Calibration)]

\* A channel above 2, for a virtual channel above 3, is refused.
BleSensors == [
  get_calibration     |-> ActsIfFine,
  get_invert_curr     |-> ActsIfFine,
  set_virtual_channel |-> Checks(<<"virtual">>),
  get_virtual_channel |-> Reads({"virtual"})]

\* The second branches for get_battery_profile and get_battery are never reached.
BleRegistry == [
  list_battery_profiles  |-> Acts,
  delete_battery_profile |-> Checks(<<"profile">>),
  reset_battery          |-> Acts,
  get_cycle_state        |-> Acts]

BleRestarts == [
  factory_reset |-> Ends("erase"),
  reboot        |-> Ends("restart")]

BleOta == [
  ota_check           |-> Acts,
  ota_status          |-> Acts,
  ota_set_interval    |-> Saves(<<"otaInterval">>),
  ota_start           |-> Acts,
  ota_set_backend_url |-> Asks(OtaAddress, {}, {OtaAddress[1]})]

BleTable == Chain({BleLinks, BleSwitch, BleChannels, BleSetPin, BleStatus, BleTriggers, BleReads,
                   BleSupabase, BleProfiles, Calibrations, BleSensors, BleRegistry, BleRestarts, BleOta})

\* The branches that call check_pin().
BleGated == DOMAIN BleTable \ (DOMAIN BleSetPin \cup DOMAIN BleOta)

-----------------------------------------------------------------------------
(* apply_settings_command().                                                *)

\* A topic that a command lacks is written as it was.
RemoteLinks == [
  set_wifi     |-> Asks(<<"ssid", "pass">>, {}, {"ssid", "pass"}),
  set_mqtt     |-> Asks(<<"broker", "port", "topic">>, {"topic"}, {"broker"}),
  set_http     |-> Asks(<<"httpUrl", "httpToken", "httpOn">>, {}, {"httpUrl"}),
  set_supabase |-> Asks(Supabase, SupabaseKey, {"supaUrl"}),
  set_shunt      |-> Saves(<<"shunt">>),
  set_volt_ratio |-> Saves(<<"ratio">>),
  set_resistors  |-> Saves(<<"rHigh", "rLow">>)]

RemoteSwitch == [set_switch |-> ChecksBut(SwitchKeys, Counts), set_relay |-> ChecksBut(SwitchKeys, Counts)]

RemoteBattery == [
  set_battery            |-> Saves(<<"battery">>),
  set_battery_profile    |-> Shapes(<<"profile", "channelProfile">>),
  delete_battery_profile |-> Checks(<<"profile">>),
  reset_battery          |-> ActsIfFine]

RemoteSensors == [
  reset_coulomb       |-> Acts,
  set_virtual_channel |-> Checks(<<"virtual">>),
  set_channel_group   |-> SavesBut(<<"group", "groupCount">>, Counts),
  set_channel_name    |-> Saves(<<"channelName">>)]

\* What the scan of the bus finds, and its count, is not followed.
RemoteTriggers == [
  calibrate_baseline |-> Acts,
  discover_sensors   |-> Acts]

RemoteSetPin == [set_pin |-> Asks(<<"pin">>, {}, {"pin"})]

RemoteRestarts == [
  factory_reset |-> Ends("eraseRestart"),
  reboot        |-> Ends("crash")]

\* An empty address is taken, and nothing stored.
RemoteOta == [
  ota_start           |-> Acts,
  ota_check           |-> Acts,
  ota_status          |-> Acts,
  ota_set_interval    |-> Saves(<<"otaInterval">>),
  ota_set_backend_url |-> SavesBut(OtaAddress, {OtaAddress[1]})]

RemoteTable == Chain({RemoteLinks, RemoteSwitch, RemoteBattery, Calibrations, RemoteSensors, RemoteTriggers, RemoteSetPin,
                      RemoteRestarts, RemoteOta})

\* The branches that call supa_pin_ok().
RemoteGated == {"set_pin", "factory_reset", "reboot", "ota_start"}

-----------------------------------------------------------------------------

\* What is written: positions in the handler's order.
ToSave(entry, c) ==
  IF entry.shapes THEN {IF entry.saves[1] \in c.fields THEN 1 ELSE 2}
  ELSE {k \in DOMAIN entry.saves : entry.saves[k] \in entry.leaves => entry.saves[k] \in c.fields}

\* The default of every handler for what a command lacks, 1883, TRUE or "" in the code.
Default == 1

\* What a put of a key stores.
ValueOf(c, key) == IF key \in c.fields THEN c.value ELSE Default

\* The puts whose result their handler looks at, of the table of profiles and of a channel's binding
\* to a profile; the others are taken for stored.
Heeded(c, key) == key = "profile" \/ (key = "binding" /\ ValueOf(c, key) # Default)

=============================================================================
