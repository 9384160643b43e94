------------------------ MODULE BleProvisionerProofs ------------------------
(***************************************************************************)
(* What is proved of BleProvisioner for every set of commands, any PINs    *)
(* and delays, and any number of writes, losses of power and teardowns.    *)
(***************************************************************************)
EXTENDS BleProvisioner, SequenceTheorems, FiniteSetTheorems, TLAPS

\* A command on its way through the queue, or from the backend.
Request == [cmd : Command, owner : BOOLEAN, remote : BOOLEAN, here : BOOLEAN, step : {"check", "save"}]

Client  == up \in BOOLEAN /\ connected \in BOOLEAN /\ (connected => up)
Queue   == /\ queue \in Seq(Request) /\ Len(queue) =< QueueSize
           /\ \A k \in DOMAIN queue : queue[k].step = "check" /\ (queue[k].here => connected)
Hand    == /\ running \in Seq(Request) /\ Len(running) =< 1
           /\ (running = << >> \/ running[1].step = "check") => todo = {}
Nvs     == config \in [Key -> Nat] /\ Pin \in 1 .. MaxPin
Rate    == rateCount \in 0 .. MaxCommands + 1 /\ window \in 0 .. Window /\ sinceCmd \in 0 .. Gap
Answers == answer \in [owner : BOOLEAN, says : Told]

\* The time since the last wrong PIN, as the device counts it, is never more than it was: a reset
\* makes it less.
Guesses == /\ fails \in 0 .. FailLimit /\ sinceFail \in 0 .. MaxWait /\ quiet \in 0 .. MaxWait
           /\ sinceFail =< quiet

\* What is in NVS, where old was, once all that is written for r is put but what rest tells of.
StoredBut(r, rest, old) ==
  [k \in Key |-> IF \E j \in ToSave(EntryOf(r), r.cmd) \ rest : KeyAt(r, j) = k
                 THEN ValueOf(r.cmd, k) ELSE old[k]]

\* Before the command in hand may run, nothing of it is stored; then just what is neither to do nor
\* not taken by the store.
Stage == running # << >> =>
  IF running[1].step = "check" THEN config = before /\ refused = {}
  ELSE /\ Known(running[1])
       /\ running[1].cmd.name = "set_pin" => running[1].cmd.value \in 1 .. MaxPin
       /\ todo \subseteq ToSave(EntryOf(running[1]), running[1].cmd)
       /\ refused \subseteq ToSave(EntryOf(running[1]), running[1].cmd) \ todo
       /\ config = StoredBut(running[1], todo \cup refused, before)

BleInvariant ==
  /\ Client /\ Queue /\ Hand /\ Nvs /\ Rate /\ Answers /\ Guesses /\ Stage
  /\ before \in [Key -> Nat] /\ budget \in Scenario

-----------------------------------------------------------------------------
(* The tables.                                                              *)

\* The keys with nothing special: the PIN is written by set_pin alone, and the puts of the table of
\* profiles and of a binding are the ones that a handler heeds.
HeededKey == {"profile", "binding"}
PlainKey == Key \ (HeededKey \cup {"pin"})

\* What the proofs need of an entry and of a table of them: a handler whose answer needs a key
\* stores none, only set_pin stores the PIN, and a put that is heeded is the only one.
PlainEntry(entry)  == /\ entry.saves \in Seq(PlainKey) /\ ~ entry.shapes
                      /\ entry.needs # {} => entry.saves = << >>
ShapeEntry(entry)  == \E h \in HeededKey, k \in PlainKey :
                        entry.saves = <<h, k>> /\ entry.shapes /\ entry.needs = {}
HeededEntry(entry) == entry.saves = <<"profile">> /\ ~ entry.shapes /\ entry.needs = {}
PinEntry(entry)    == entry.saves = <<"pin">> /\ ~ entry.shapes /\ entry.needs = {}
Proper(t) == \A n \in DOMAIN t :
  PlainEntry(t[n]) \/ ShapeEntry(t[n]) \/ HeededEntry(t[n]) \/ (n = "set_pin" /\ PinEntry(t[n]))

LEMMA SavesPlain ==
  ASSUME NEW keys \in Seq(PlainKey)
  PROVE  /\ PlainEntry(Saves(keys)) /\ PlainEntry(Checks(keys))
         /\ \A left : PlainEntry(SavesBut(keys, left)) /\ PlainEntry(ChecksBut(keys, left))
         /\ \A left, asked : PlainEntry(Asks(keys, left, asked))
BY DEF PlainEntry, Saves, Checks, SavesBut, ChecksBut, Asks, Entry

LEMMA OthersPlain ==
  /\ \A keys : PlainEntry(Reads(keys))
  /\ PlainEntry(Acts) /\ PlainEntry(ActsIfFine)
  /\ \A how : PlainEntry(Ends(how))
<1>1. << >> \in Seq(PlainKey)
  BY EmptySeq
<1> QED
  BY <1>1 DEF PlainEntry, Reads, Acts, ActsIfFine, Ends, Saves, Checks, Entry

LEMMA ShapesProper ==
  /\ ShapeEntry(Shapes(<<"binding", "battery">>))
  /\ ShapeEntry(Shapes(<<"profile", "channelProfile">>))
  /\ HeededEntry(Checks(<<"profile">>))
  /\ PinEntry(Asks(<<"pin">>, {}, {"pin"}))
BY DEF ShapeEntry, HeededEntry, PinEntry, HeededKey, PlainKey, Key, Shapes, Checks, Asks, Entry

LEMMA ChainProper ==
  ASSUME NEW S, \A t \in S : Proper(t)
  PROVE  Proper(Chain(S))
<1> SUFFICES ASSUME NEW n \in DOMAIN Chain(S)
             PROVE  \E t \in S : n \in DOMAIN t /\ Chain(S)[n] = t[n]
  BY Zenon DEF Proper
<1>1. PICK t \in S : n \in DOMAIN t
  BY Zenon DEF Chain
<1>2. n \in UNION {DOMAIN u : u \in S}
  BY <1>1
<1>3. Chain(S)[n] = (CHOOSE u \in S : n \in DOMAIN u)[n]
  BY <1>2, Zenon DEF Chain
<1> QED
  BY <1>1, <1>3

LEMMA BleLinksProper == Proper(BleLinks)
<1>1. /\ <<"broker", "port", "topic">> \in Seq(PlainKey)
      /\ <<"httpUrl", "httpToken", "httpOn">> \in Seq(PlainKey)
      /\ <<"ssid", "pass">> \in Seq(PlainKey)
  BY DEF PlainKey, HeededKey, Key
<1>2. /\ PlainEntry(SavesBut(<<"ssid", "pass">>, Strings))
      /\ PlainEntry(SavesBut(<<"broker", "port", "topic">>, Strings))
      /\ PlainEntry(SavesBut(<<"httpUrl", "httpToken", "httpOn">>, Strings))
  BY <1>1, SavesPlain
<1>3. DOMAIN BleLinks = {"set_wifi", "set_mqtt", "set_http"}
  BY DEF BleLinks
<1> QED
  BY <1>2, <1>3 DEF Proper, BleLinks

LEMMA BleSwitchProper == Proper(BleSwitch)
<1>1. SwitchKeys \in Seq(PlainKey)
  BY DEF PlainKey, HeededKey, Key, SwitchKeys
<1>2. PlainEntry(ChecksBut(SwitchKeys, Counts))
  BY <1>1, SavesPlain
<1>3. DOMAIN BleSwitch = {"set_switch", "set_relay"}
  BY DEF BleSwitch
<1> QED
  BY <1>2, <1>3 DEF Proper, BleSwitch

LEMMA BleChannelsProper == Proper(BleChannels)
<1>1. /\ <<"rHigh", "rLow">> \in Seq(PlainKey)
      /\ <<"ratio">> \in Seq(PlainKey)
      /\ <<"shunt">> \in Seq(PlainKey)
  BY DEF PlainKey, HeededKey, Key
<1>2. /\ PlainEntry(Saves(<<"shunt">>))
      /\ PlainEntry(Saves(<<"ratio">>))
      /\ PlainEntry(Saves(<<"rHigh", "rLow">>))
  BY <1>1, SavesPlain
<1>3. DOMAIN BleChannels = {"set_battery", "set_shunt", "set_volt_ratio", "set_resistors"}
  BY DEF BleChannels
<1> QED
  BY <1>2, <1>3, ShapesProper DEF Proper, BleChannels

LEMMA BleSetPinProper == Proper(BleSetPin)
BY ShapesProper DEF Proper, BleSetPin

LEMMA BleStatusProper == Proper(BleStatus)
<1>1. DOMAIN BleStatus = {"get_status"}
  BY DEF BleStatus
<1> QED
  BY <1>1, OthersPlain DEF Proper, BleStatus

LEMMA BleTriggersProper == Proper(BleTriggers)
<1>1. DOMAIN BleTriggers = {"reset_coulomb", "calibrate_baseline", "discover_sensors"}
  BY DEF BleTriggers
<1> QED
  BY <1>1, OthersPlain DEF Proper, BleTriggers

LEMMA BleReadsProper == Proper(BleReads)
<1>1. DOMAIN BleReads = {"get_switch", "get_relay", "get_battery", "get_wifi", "get_mqtt",
          "get_http"}
  BY DEF BleReads
<1> QED
  BY <1>1, OthersPlain DEF Proper, BleReads

LEMMA BleSupabaseProper == Proper(BleSupabase)
<1>1. Supabase \in Seq(PlainKey)
  BY DEF PlainKey, HeededKey, Key, Supabase
<1>2. PlainEntry(SavesBut(Supabase, SupabaseKey))
  BY <1>1, SavesPlain
<1>3. DOMAIN BleSupabase = {"set_supabase", "get_supabase"}
  BY DEF BleSupabase
<1> QED
  BY <1>2, <1>3, OthersPlain DEF Proper, BleSupabase

LEMMA BleProfilesProper == Proper(BleProfiles)
<1>1. /\ <<"channelName">> \in Seq(PlainKey)
      /\ <<"group", "groupCount">> \in Seq(PlainKey)
  BY DEF PlainKey, HeededKey, Key
<1>2. /\ PlainEntry(SavesBut(<<"group", "groupCount">>, Counts))
      /\ PlainEntry(Saves(<<"channelName">>))
  BY <1>1, SavesPlain
<1>3. DOMAIN BleProfiles = {"set_channel_group", "get_channel_group", "set_battery_profile",
          "get_battery_profile", "set_channel_name", "get_channel_name"}
  BY DEF BleProfiles
<1> QED
  BY <1>2, <1>3, OthersPlain, ShapesProper DEF Proper, BleProfiles

LEMMA CalibrationsProper == Proper(Calibrations)
<1>1. Calibration \in Seq(PlainKey)
  BY DEF PlainKey, HeededKey, Key, Calibration
<1>2. /\ PlainEntry(Checks(Calibration))
      /\ PlainEntry(ChecksBut(Calibration, {Calibration[1], Calibration[2]}))
  BY <1>1, SavesPlain
<1>3. DOMAIN Calibrations = {"set_calibration", "reset_calibration", "set_invert_curr",
          "reset_invert_curr"}
  BY DEF Calibrations
<1> QED
  BY <1>2, <1>3 DEF Proper, Calibrations

LEMMA BleSensorsProper == Proper(BleSensors)
<1>1. <<"virtual">> \in Seq(PlainKey)
  BY DEF PlainKey, HeededKey, Key
<1>2. PlainEntry(Checks(<<"virtual">>))
  BY <1>1, SavesPlain
<1>3. DOMAIN BleSensors = {"get_calibration", "get_invert_curr", "set_virtual_channel",
          "get_virtual_channel"}
  BY DEF BleSensors
<1> QED
  BY <1>2, <1>3, OthersPlain DEF Proper, BleSensors

LEMMA BleRegistryProper == Proper(BleRegistry)
<1>3. DOMAIN BleRegistry = {"list_battery_profiles", "delete_battery_profile", "reset_battery",
          "get_cycle_state"}
  BY DEF BleRegistry
<1> QED
  BY <1>3, OthersPlain, ShapesProper DEF Proper, BleRegistry

LEMMA BleRestartsProper == Proper(BleRestarts)
<1>1. DOMAIN BleRestarts = {"factory_reset", "reboot"}
  BY DEF BleRestarts
<1> QED
  BY <1>1, OthersPlain DEF Proper, BleRestarts

LEMMA BleOtaProper == Proper(BleOta)
<1>1. /\ <<"otaInterval">> \in Seq(PlainKey)
      /\ OtaAddress \in Seq(PlainKey)
  BY DEF PlainKey, HeededKey, Key, OtaKey, OtaAddress
<1>2. /\ PlainEntry(Saves(<<"otaInterval">>))
      /\ PlainEntry(Asks(OtaAddress, {}, {OtaAddress[1]}))
  BY <1>1, SavesPlain
<1>3. DOMAIN BleOta = {"ota_check", "ota_status", "ota_set_interval", "ota_start",
          "ota_set_backend_url"}
  BY DEF BleOta
<1> QED
  BY <1>2, <1>3, OthersPlain DEF Proper, BleOta

LEMMA RemoteLinksProper == Proper(RemoteLinks)
<1>1. /\ <<"broker", "port", "topic">> \in Seq(PlainKey)
      /\ <<"httpUrl", "httpToken", "httpOn">> \in Seq(PlainKey)
      /\ <<"rHigh", "rLow">> \in Seq(PlainKey)
      /\ <<"ratio">> \in Seq(PlainKey)
      /\ <<"shunt">> \in Seq(PlainKey)
      /\ <<"ssid", "pass">> \in Seq(PlainKey)
      /\ Supabase \in Seq(PlainKey)
  BY DEF PlainKey, HeededKey, Key, Supabase
<1>2. /\ PlainEntry(Asks(<<"ssid", "pass">>, {}, {"ssid", "pass"}))
      /\ PlainEntry(Asks(<<"broker", "port", "topic">>, {"topic"}, {"broker"}))
      /\ PlainEntry(Asks(<<"httpUrl", "httpToken", "httpOn">>, {}, {"httpUrl"}))
      /\ PlainEntry(Asks(Supabase, SupabaseKey, {"supaUrl"}))
      /\ PlainEntry(Saves(<<"shunt">>))
      /\ PlainEntry(Saves(<<"ratio">>))
      /\ PlainEntry(Saves(<<"rHigh", "rLow">>))
  BY <1>1, SavesPlain
<1>3. DOMAIN RemoteLinks = {"set_wifi", "set_mqtt", "set_http", "set_supabase", "set_shunt",
          "set_volt_ratio", "set_resistors"}
  BY DEF RemoteLinks
<1> QED
  BY <1>2, <1>3 DEF Proper, RemoteLinks

LEMMA RemoteSwitchProper == Proper(RemoteSwitch)
<1>1. SwitchKeys \in Seq(PlainKey)
  BY DEF PlainKey, HeededKey, Key, SwitchKeys
<1>2. PlainEntry(ChecksBut(SwitchKeys, Counts))
  BY <1>1, SavesPlain
<1>3. DOMAIN RemoteSwitch = {"set_switch", "set_relay"}
  BY DEF RemoteSwitch
<1> QED
  BY <1>2, <1>3 DEF Proper, RemoteSwitch

LEMMA RemoteBatteryProper == Proper(RemoteBattery)
<1>1. <<"battery">> \in Seq(PlainKey)
  BY DEF PlainKey, HeededKey, Key
<1>2. PlainEntry(Saves(<<"battery">>))
  BY <1>1, SavesPlain
<1>3. DOMAIN RemoteBattery = {"set_battery", "set_battery_profile", "delete_battery_profile",
          "reset_battery"}
  BY DEF RemoteBattery
<1> QED
  BY <1>2, <1>3, OthersPlain, ShapesProper DEF Proper, RemoteBattery

LEMMA RemoteSensorsProper == Proper(RemoteSensors)
<1>1. /\ <<"channelName">> \in Seq(PlainKey)
      /\ <<"group", "groupCount">> \in Seq(PlainKey)
      /\ <<"virtual">> \in Seq(PlainKey)
  BY DEF PlainKey, HeededKey, Key
<1>2. /\ PlainEntry(Checks(<<"virtual">>))
      /\ PlainEntry(SavesBut(<<"group", "groupCount">>, Counts))
      /\ PlainEntry(Saves(<<"channelName">>))
  BY <1>1, SavesPlain
<1>3. DOMAIN RemoteSensors = {"reset_coulomb", "set_virtual_channel", "set_channel_group",
          "set_channel_name"}
  BY DEF RemoteSensors
<1> QED
  BY <1>2, <1>3, OthersPlain DEF Proper, RemoteSensors

LEMMA RemoteTriggersProper == Proper(RemoteTriggers)
<1>1. DOMAIN RemoteTriggers = {"calibrate_baseline", "discover_sensors"}
  BY DEF RemoteTriggers
<1> QED
  BY <1>1, OthersPlain DEF Proper, RemoteTriggers

LEMMA RemoteSetPinProper == Proper(RemoteSetPin)
BY ShapesProper DEF Proper, RemoteSetPin

LEMMA RemoteRestartsProper == Proper(RemoteRestarts)
<1>1. DOMAIN RemoteRestarts = {"factory_reset", "reboot"}
  BY DEF RemoteRestarts
<1> QED
  BY <1>1, OthersPlain DEF Proper, RemoteRestarts

LEMMA RemoteOtaProper == Proper(RemoteOta)
<1>1. /\ <<"otaInterval">> \in Seq(PlainKey)
      /\ OtaAddress \in Seq(PlainKey)
  BY DEF PlainKey, HeededKey, Key, OtaKey, OtaAddress
<1>2. /\ PlainEntry(Saves(<<"otaInterval">>))
      /\ PlainEntry(SavesBut(OtaAddress, {OtaAddress[1]}))
  BY <1>1, SavesPlain
<1>3. DOMAIN RemoteOta = {"ota_start", "ota_check", "ota_status", "ota_set_interval",
          "ota_set_backend_url"}
  BY DEF RemoteOta
<1> QED
  BY <1>2, <1>3, OthersPlain DEF Proper, RemoteOta

LEMMA TablesProper == Proper(BleTable) /\ Proper(RemoteTable)
<1>1. Proper(BleTable)
  BY ChainProper, BleLinksProper, BleSwitchProper, BleChannelsProper, BleSetPinProper,
     BleStatusProper, BleTriggersProper, BleReadsProper, BleSupabaseProper, BleProfilesProper,
     CalibrationsProper, BleSensorsProper, BleRegistryProper, BleRestartsProper, BleOtaProper
     DEF BleTable
<1>2. Proper(RemoteTable)
  BY ChainProper, RemoteLinksProper, RemoteSwitchProper, RemoteBatteryProper, CalibrationsProper,
     RemoteSensorsProper, RemoteTriggersProper, RemoteSetPinProper, RemoteRestartsProper, RemoteOtaProper
     DEF RemoteTable
<1> QED
  BY <1>1, <1>2

-----------------------------------------------------------------------------
(* The steps.                                                               *)

\* Which steps touch what.
LEMMA Touched ==
  ASSUME [Next]_vars
  PROVE  /\ OnConnect \/ OnDisconnect \/ DeinitBle \/ InitBle \/ Restart \/ PowerLoss \/ UNCHANGED
               client
         /\ OnDisconnect \/ ClientWrites \/ OwnerWrites \/ Receive \/ DeinitBle \/ Restart \/
               PowerLoss \/ UNCHANGED queue
         /\ OnDisconnect \/ Receive \/ Claim \/ Refuse \/ Begin \/ SaveKey \/ Finish \/ Erase \/
               Restart \/ PowerLoss \/ UNCHANGED <<running, todo>>
         /\ SaveKey \/ Erase \/ Restart \/ UNCHANGED config
         /\ Refuse \/ Begin \/ Erase \/ Restart \/ PowerLoss \/ Tick \/ UNCHANGED <<fails,
               sinceFail, quiet>>
         /\ OnConnect \/ Receive \/ Restart \/ PowerLoss \/ Tick \/ UNCHANGED rate
         /\ Receive \/ Claim \/ UNCHANGED before
         /\ Receive \/ Claim \/ SaveKey \/ UNCHANGED refused
         /\ Receive \/ Refuse \/ Finish \/ Erase \/ Restart \/ PowerLoss \/ UNCHANGED answer
         /\ OnDisconnect \/ ClientWrites \/ Claim \/ Refuse \/ Begin \/ SaveKey \/ DeinitBle \/ PowerLoss
               \/ UNCHANGED budget
<1>1. OnConnect \/ OnDisconnect \/ DeinitBle \/ InitBle \/ Restart \/ PowerLoss \/ UNCHANGED
      client
  BY DEF Next, HostTask, NetworkTask, ClientWrites, OwnerWrites, Receive, Claim, Refuse, Begin,
     SaveKey, Finish, Erase, Tick, OnWrite, NotePin, vars, client, hand, nvs, guesses, rate
<1>2. OnDisconnect \/ ClientWrites \/ OwnerWrites \/ Receive \/ DeinitBle \/ Restart \/
      PowerLoss \/ UNCHANGED queue
  BY DEF Next, HostTask, NetworkTask, OnConnect, Claim, Refuse, Begin, SaveKey, Finish, Erase,
     InitBle, Tick, NotePin, vars, client, hand, nvs, guesses, rate
<1>3. OnDisconnect \/ Receive \/ Claim \/ Refuse \/ Begin \/ SaveKey \/ Finish \/ Erase \/
      Restart \/ PowerLoss \/ UNCHANGED <<running, todo>>
  BY DEF Next, HostTask, NetworkTask, OnConnect, ClientWrites, OwnerWrites, DeinitBle, InitBle,
     Tick, OnWrite, vars, client, hand, nvs, guesses, rate
<1>4. SaveKey \/ Erase \/ Restart \/ UNCHANGED config
  BY DEF Next, HostTask, NetworkTask, OnConnect, OnDisconnect, ClientWrites, OwnerWrites,
     Receive, Claim, Refuse, Begin, Finish, DeinitBle, InitBle, PowerLoss, Tick, OnWrite,
     NotePin, Boot, vars, client, hand, nvs, guesses, rate
<1>5. Refuse \/ Begin \/ Erase \/ Restart \/ PowerLoss \/ Tick \/ UNCHANGED <<fails, sinceFail,
      quiet>>
  BY DEF Next, HostTask, NetworkTask, OnConnect, OnDisconnect, ClientWrites, OwnerWrites,
     Receive, Claim, SaveKey, Finish, DeinitBle, InitBle, OnWrite, vars, client, hand, nvs,
     guesses, rate
<1>6. OnConnect \/ Receive \/ Restart \/ PowerLoss \/ Tick \/ UNCHANGED rate
  BY DEF Next, HostTask, NetworkTask, OnDisconnect, ClientWrites, OwnerWrites, Claim, Refuse,
     Begin, SaveKey, Finish, Erase, DeinitBle, InitBle, OnWrite, NotePin, vars, client, hand,
     nvs, guesses, rate
<1>7. Receive \/ Claim \/ UNCHANGED before
  BY DEF Next, HostTask, NetworkTask, OnConnect, OnDisconnect, ClientWrites, OwnerWrites,
     Refuse, Begin, SaveKey, Finish, Erase, Restart, DeinitBle, InitBle, PowerLoss, Tick,
     OnWrite, NotePin, Boot, vars, client, hand, nvs, guesses, rate
<1>8. Receive \/ Refuse \/ Finish \/ Erase \/ Restart \/ PowerLoss \/ UNCHANGED answer
  BY DEF Next, HostTask, NetworkTask, OnConnect, OnDisconnect, ClientWrites, OwnerWrites, Claim,
     Begin, SaveKey, DeinitBle, InitBle, Tick, OnWrite, NotePin, vars, client, hand, nvs,
     guesses, rate
<1>9. OnDisconnect \/ ClientWrites \/ Claim \/ Refuse \/ Begin \/ SaveKey \/ DeinitBle \/ PowerLoss
         \/ UNCHANGED budget
  BY DEF Next, HostTask, NetworkTask, OnConnect, OwnerWrites, Receive, Finish, Erase, Restart, InitBle, Tick, OnWrite, NotePin, Boot, vars, client, hand, nvs,
     guesses, rate
<1>10. Receive \/ Claim \/ SaveKey \/ UNCHANGED refused
  BY DEF Next, HostTask, NetworkTask, OnConnect, OnDisconnect, ClientWrites, OwnerWrites,
     Refuse, Begin, Finish, Erase, Restart, DeinitBle, InitBle, PowerLoss, Tick,
     OnWrite, NotePin, Boot, vars, client, hand, nvs, guesses, rate
<1> QED
  BY <1>1, <1>2, <1>3, <1>4, <1>5, <1>6, <1>7, <1>8, <1>9, <1>10

-----------------------------------------------------------------------------
(* What the steps keep.                                                     *)

LEMMA BudgetKept ==
  ASSUME BleInvariant, [Next]_vars
  PROVE  budget' \in Scenario
<1>1. ASSUME NEW kind \in {"writes", "remote", "leave", "cycles", "crash", "puts"}, Spend(kind)
      PROVE  budget' \in Scenario
  BY <1>1 DEF BleInvariant, Scenario, Spend
<1>2. CASE UNCHANGED budget
  BY <1>2 DEF BleInvariant
<1>3. CASE OnDisconnect
  BY <1>3, <1>1 DEF OnDisconnect
<1>4. CASE ClientWrites
  BY <1>4, <1>1 DEF ClientWrites
<1>5. CASE Claim
  BY <1>5, <1>1 DEF Claim
<1>6. CASE DeinitBle
  BY <1>6, <1>1 DEF DeinitBle
<1>7. CASE PowerLoss
  BY <1>7, <1>1 DEF PowerLoss
<1>8. ASSUME NEW n, CountFails(n) PROVE budget' \in Scenario
  BY <1>8, <1>1, <1>2 DEF CountFails
<1>9. CASE Refuse \/ Begin
  BY <1>9, <1>8 DEF Refuse, Begin, NotePin
<1>10. CASE SaveKey
  BY <1>10, <1>1, <1>2 DEF SaveKey
<1> QED
  BY <1>2, <1>3, <1>4, <1>5, <1>6, <1>7, <1>9, <1>10, Touched

LEMMA BeforeKept ==
  ASSUME BleInvariant, [Next]_vars
  PROVE  before' \in [Key -> Nat]
BY Touched DEF BleInvariant, Nvs, Receive, Claim

LEMMA ClientKept ==
  ASSUME BleInvariant, [Next]_vars
  PROVE  Client'
<1>1. CASE OnConnect
  BY <1>1, Zenon DEF OnConnect, BleInvariant, Client
<1>2. CASE OnDisconnect
  BY <1>2, Zenon DEF OnDisconnect, BleInvariant, Client
<1>3. CASE DeinitBle
  BY <1>3, Zenon DEF DeinitBle, BleInvariant, Client
<1>4. CASE InitBle
  BY <1>4, Zenon DEF InitBle, BleInvariant, Client
<1>5. CASE Restart \/ PowerLoss
  BY <1>5, Zenon DEF Restart, PowerLoss, Boot, BleInvariant, Client
<1>6. CASE UNCHANGED client
  BY <1>6, Zenon DEF client, BleInvariant, Client
<1> QED
  BY <1>1, <1>2, <1>3, <1>4, <1>5, <1>6, Touched

LEMMA RateKept ==
  ASSUME BleInvariant, [Next]_vars
  PROVE  Rate'
<1>1. CASE OnConnect
  BY <1>1, BleAssumption DEF OnConnect, BleInvariant, Rate
<1>2. CASE Receive
  BY <1>2, BleAssumption DEF Receive, CheckRateLimit, Counted, Lesser, BleInvariant, Rate
<1>3. CASE Restart \/ PowerLoss
  BY <1>3, BleAssumption DEF Restart, PowerLoss, Boot, BleInvariant, Rate
<1>4. CASE Tick
  BY <1>4, BleAssumption DEF Tick, Lesser, BleInvariant, Rate
<1>5. CASE UNCHANGED rate
  BY <1>5 DEF rate, BleInvariant, Rate
<1> QED
  BY <1>1, <1>2, <1>3, <1>4, <1>5, Touched

LEMMA GuessesKept ==
  ASSUME BleInvariant, [Next]_vars
  PROVE  Guesses'
<1>1. ASSUME NEW r, NotePin(r) PROVE Guesses'
  BY <1>1, BleAssumption DEF NotePin, CountFails, guesses, Lesser, BleInvariant, Guesses
<1>2. CASE Refuse \/ Begin
  BY <1>2, <1>1 DEF Refuse, Begin
<1>3. CASE Erase
  BY <1>3, BleAssumption DEF Erase, guesses, BleInvariant, Guesses
<1>4. CASE Restart \/ PowerLoss
  BY <1>4, BleAssumption DEF Restart, PowerLoss, Boot, nvs, BleInvariant, Guesses
<1>5. CASE Tick
  <2>1. MaxWait \in Nat /\ FailLimit \in Nat
    BY BleAssumption
  <2>2. fails' = fails
    BY <1>5 DEF Tick, nvs
  <2> QED
    BY <1>5, <2>1, <2>2 DEF Tick, Lesser, BleInvariant, Guesses
<1>6. CASE UNCHANGED <<fails, sinceFail, quiet>>
  BY <1>6 DEF BleInvariant, Guesses
<1> QED
  BY <1>2, <1>3, <1>4, <1>5, <1>6, Touched

LEMMA AnswersKept ==
  ASSUME BleInvariant, [Next]_vars
  PROVE  Answers'
<1>1. ASSUME NEW r \in Request, NEW says \in Told, Answer(r, says) PROVE Answers'
  BY <1>1 DEF Answer, Answers, Request
<1>2. ~ Idle => running[1] \in Request
  BY DEF Idle, BleInvariant, Hand
<1>3. CASE Receive
  <2>1. queue[1] \in Request
    BY <1>3 DEF Receive, BleInvariant, Queue
  <2>2. CASE Answer(queue[1], "rate_limited")
    BY <1>1, <2>1, <2>2 DEF Told
  <2>3. CASE UNCHANGED answer
    BY <2>3 DEF BleInvariant, Answers
  <2> QED
    BY <1>3, <2>2, <2>3, Zenon DEF Receive
<1>4. CASE Refuse
  <2>1. Verdict(running[1]) \in Told
    BY DEF Verdict, Told
  <2> QED
    BY <1>1, <1>2, <1>4, <2>1, Zenon DEF Refuse
<1>5. CASE Finish
  <2>1. Outcome(running[1]) \in Told
    BY DEF Outcome, Told
  <2> QED
    BY <1>1, <1>2, <1>5, <2>1, Zenon DEF Finish, Finishing
<1>6. CASE Erase \/ Restart
  <2>1. "ok" \in Told
    BY DEF Told
  <2> QED
    BY <1>1, <1>2, <1>6, <2>1, Zenon DEF Erase, Restart, Finishing
<1>7. CASE PowerLoss
  BY <1>7 DEF PowerLoss, Answers, Told
<1>8. CASE UNCHANGED answer
  BY <1>8 DEF BleInvariant, Answers
<1> QED
  BY <1>3, <1>4, <1>5, <1>6, <1>7, <1>8, Touched

\* Requests that lose their writer are requests still.
LEMMA OrphanedTyped ==
  ASSUME NEW q \in Seq(Request)
  PROVE  /\ Orphaned(q) \in Seq(Request) /\ Len(Orphaned(q)) = Len(q)
         /\ \A k \in DOMAIN q : /\ Orphaned(q)[k] = [q[k] EXCEPT !.here = FALSE]
                                /\ q[k] \in Request /\ Orphaned(q)[k] \in Request
<1>1. \A k \in 1 .. Len(q) : q[k] \in Request /\ [q[k] EXCEPT !.here = FALSE] \in Request
  <2>1. \A r \in Request : [r EXCEPT !.here = FALSE] \in Request
    BY DEF Request
  <2> QED
    BY <2>1
<1>2. Orphaned(q) = [k \in 1 .. Len(q) |-> [q[k] EXCEPT !.here = FALSE]]
  BY DEF Orphaned
<1>3. Orphaned(q) \in [1 .. Len(q) -> Request]
  BY <1>1, <1>2
<1>4. Len(q) \in Nat
  OBVIOUS
<1>5. Orphaned(q) \in Seq(Request) /\ Len(Orphaned(q)) = Len(q)
  BY <1>3, <1>4
<1> QED
  BY <1>1, <1>2, <1>5

LEMMA NamesKnown == BleGated \subseteq Name
BY DEF BleGated, Name

LEMMA WrittenKept ==
  ASSUME BleInvariant, NEW c \in Command, NEW owner \in BOOLEAN, OnWrite(c, owner)
  PROVE  Queue'
<1> DEFINE new == [cmd |-> c, owner |-> owner, remote |-> FALSE, here |-> TRUE, step |-> "check"]
<1>1. new \in Request
  BY DEF Request
<1>2. new.step = "check" /\ connected
  BY DEF OnWrite
<1> HIDE DEF new
<1>3. queue' = Append(queue, new) /\ Len(queue) < QueueSize /\ connected' = connected
  BY DEF OnWrite, client, new
<1>4. queue' \in Seq(Request) /\ Len(queue') = Len(queue) + 1
  BY <1>1, <1>3 DEF BleInvariant, Queue
<1>5. QueueSize \in Nat
  BY BleAssumption
<1>6. Len(queue') =< QueueSize
  BY <1>3, <1>4, <1>5 DEF BleInvariant, Queue
<1>7. ASSUME NEW k \in DOMAIN queue' PROVE queue'[k] = new \/ (k \in DOMAIN queue /\ queue'[k] = queue[k])
  BY <1>1, <1>3, <1>4 DEF BleInvariant, Queue
<1> QED
  BY <1>2, <1>3, <1>4, <1>6, <1>7 DEF BleInvariant, Queue

LEMMA OrphanedKept ==
  ASSUME BleInvariant, queue' = Orphaned(queue)
  PROVE  Queue'
<1>1. queue' \in Seq(Request) /\ Len(queue') = Len(queue)
  BY OrphanedTyped DEF BleInvariant, Queue
<1>2. ASSUME NEW k \in DOMAIN queue' PROVE queue'[k].step = "check" /\ ~ queue'[k].here
  <2>1. k \in DOMAIN queue
    BY <1>1, <1>2 DEF BleInvariant, Queue
  <2>2. queue'[k] = [queue[k] EXCEPT !.here = FALSE] /\ queue[k] \in Request
    BY <2>1, OrphanedTyped DEF BleInvariant, Queue
  <2> QED
    BY <2>1, <2>2 DEF BleInvariant, Queue, Request
<1> QED
  BY <1>1, <1>2 DEF BleInvariant, Queue

LEMMA QueueKept ==
  ASSUME BleInvariant, [Next]_vars
  PROVE  Queue'
<1>1. CASE OnConnect
  BY <1>1 DEF OnConnect, BleInvariant, Queue
<1>2. CASE OnDisconnect \/ DeinitBle
  BY <1>2, OrphanedKept DEF OnDisconnect, DeinitBle
<1>3. CASE InitBle
  BY <1>3 DEF InitBle, BleInvariant, Queue
<1>4. CASE Restart \/ PowerLoss
  <2>1. QueueSize \in Nat
    BY BleAssumption
  <2>2. queue' = << >>
    BY <1>4 DEF Restart, PowerLoss, Boot
  <2> QED
    BY <2>1, <2>2 DEF Queue
<1>5. CASE ClientWrites
  <2>1. PICK c \in budget.menu : OnWrite(c, FALSE)
    BY <1>5 DEF ClientWrites
  <2>2. c \in Command
    BY <2>1 DEF BleInvariant, Scenario
  <2> QED
    BY <2>1, <2>2, WrittenKept
<1>6. CASE OwnerWrites
  <2> DEFINE c == [name |-> OwnerCommand, pin |-> Pin, old |-> 0, value |-> 0, fine |-> TRUE, fields |-> {}]
  <2>1. OwnerCommand \in Name
    BY BleAssumption, NamesKnown
  <2>2. c \in Command
    BY <2>1 DEF Command, BleInvariant, Nvs
  <2> QED
    BY <1>6, <2>2, WrittenKept DEF OwnerWrites
<1>7. CASE Receive
  <2>1. queue' = Tail(queue) /\ queue # << >> /\ connected' = connected
    BY <1>7 DEF Receive, client
  <2>2. queue' \in Seq(Request) /\ Len(queue') = Len(queue) - 1
    BY <2>1 DEF BleInvariant, Queue
  <2>3. QueueSize \in Nat
    BY BleAssumption
  <2>4. Len(queue') =< QueueSize
    BY <2>2, <2>3 DEF BleInvariant, Queue
  <2>5. \A k \in DOMAIN queue' : k + 1 \in DOMAIN queue /\ queue'[k] = queue[k + 1]
    BY <2>1, <2>2 DEF BleInvariant, Queue
  <2> QED
    BY <2>1, <2>2, <2>4, <2>5 DEF BleInvariant, Queue
<1>8. CASE UNCHANGED queue /\ UNCHANGED client
  BY <1>8 DEF client, BleInvariant, Queue
<1> QED
  BY <1>1, <1>2, <1>3, <1>4, <1>5, <1>6, <1>7, <1>8, Touched

-----------------------------------------------------------------------------
(* The command in hand.                                                     *)

\* What the tables say of a command they know.
LEMMA EntryTyped ==
  ASSUME NEW r, Known(r)
  PROVE  /\ EntryOf(r).saves \in Seq(Key)
         /\ ToSave(EntryOf(r), r.cmd) \subseteq DOMAIN EntryOf(r).saves
         /\ EntryOf(r).needs # {} => EntryOf(r).saves = << >>
         /\ r.cmd.name # "set_pin" =>
              \A j \in DOMAIN EntryOf(r).saves : EntryOf(r).saves[j] # "pin"
         /\ \A j \in ToSave(EntryOf(r), r.cmd) :
              EntryOf(r).saves[j] \in HeededKey => ToSave(EntryOf(r), r.cmd) = {j}
<1> DEFINE e == EntryOf(r)
<1>1. \/ PlainEntry(e) \/ ShapeEntry(e) \/ HeededEntry(e)
      \/ r.cmd.name = "set_pin" /\ PinEntry(e)
  BY TablesProper DEF Known, EntryOf, Entries, Proper
<1> HIDE DEF e
<1>2. PlainKey \subseteq Key /\ HeededKey \subseteq Key /\ "pin" \in Key /\ "pin" \notin HeededKey
  BY DEF PlainKey, HeededKey, Key
<1>3. CASE PlainEntry(e)
  <2>1. e.saves \in Seq(PlainKey) /\ ~ e.shapes
    BY <1>3 DEF PlainEntry
  <2>2. \A j \in DOMAIN e.saves : e.saves[j] \in PlainKey
    BY <2>1
  <2>3. e.saves \in Seq(Key) /\ ToSave(e, r.cmd) \subseteq DOMAIN e.saves
    BY <1>2, <2>1 DEF ToSave
  <2>4. \A j \in DOMAIN e.saves : e.saves[j] # "pin" /\ e.saves[j] \notin HeededKey
    BY <2>2 DEF PlainKey
  <2> QED
    BY <1>3, <2>3, <2>4 DEF PlainEntry, e
<1>4. CASE ShapeEntry(e)
  <2>1. PICK h \in HeededKey, k \in PlainKey : e.saves = <<h, k>> /\ e.shapes /\ e.needs = {}
    BY <1>4 DEF ShapeEntry
  <2>2. k \notin HeededKey /\ k # "pin" /\ h # "pin"
    BY <1>2 DEF PlainKey
  <2>3. DOMAIN e.saves = {1, 2} /\ e.saves \in Seq(Key) /\ e.saves[1] = h /\ e.saves[2] = k
    BY <1>2, <2>1
  <2>4. ToSave(e, r.cmd) = {1} \/ ToSave(e, r.cmd) = {2}
    BY <2>1 DEF ToSave
  <2> QED
    BY <2>1, <2>2, <2>3, <2>4 DEF e
<1>5. CASE HeededEntry(e) \/ (r.cmd.name = "set_pin" /\ PinEntry(e))
  <2>1. PICK key \in Key : e.saves = <<key>> /\ ~ e.shapes /\ e.needs = {}
    BY <1>2, <1>5 DEF HeededEntry, PinEntry, HeededKey
  <2>2. DOMAIN e.saves = {1} /\ e.saves \in Seq(Key) /\ e.saves[1] = key
    BY <2>1
  <2>3. ToSave(e, r.cmd) \subseteq {1}
    BY <2>1, <2>2 DEF ToSave
  <2>4. r.cmd.name # "set_pin" => key # "pin"
    BY <1>5, <2>1, <2>2 DEF HeededEntry
  <2> QED
    BY <2>1, <2>2, <2>3, <2>4 DEF e
<1> QED
  BY <1>1, <1>3, <1>4, <1>5

\* A command in hand whose writer is gone is in hand as before.
LEMMA HandOrphaned ==
  ASSUME BleInvariant, running' = Orphaned(running)
  PROVE  /\ running' \in Seq(Request) /\ Len(running') = Len(running)
         /\ running' = << >> <=> running = << >>
         /\ running # << >> => /\ running'[1].step = running[1].step /\ running'[1].cmd = running[1].cmd
                                /\ running'[1].remote = running[1].remote
<1>1. running' \in Seq(Request) /\ Len(running') = Len(running)
  BY OrphanedTyped DEF BleInvariant, Hand
<1>2. running' = << >> <=> running = << >>
  BY <1>1 DEF BleInvariant, Hand
<1>3. running # << >> => running'[1] = [running[1] EXCEPT !.here = FALSE] /\ running[1] \in Request
  BY OrphanedTyped DEF BleInvariant, Hand
<1> QED
  BY <1>1, <1>2, <1>3 DEF Request

LEMMA HandKept ==
  ASSUME BleInvariant, [Next]_vars
  PROVE  Hand'
<1>1. ASSUME running' = << >>, todo' = {} PROVE Hand'
  BY <1>1 DEF Hand
<1>2. ASSUME NEW r \in Request, running' = <<r>>, r.step = "check" => todo' = {} PROVE Hand'
  BY <1>2 DEF Hand
<1>3. running # << >> => running[1] \in Request
  BY DEF BleInvariant, Hand
<1>4. CASE OnDisconnect
  BY <1>4, HandOrphaned DEF OnDisconnect, BleInvariant, Hand
<1>5. CASE Receive
  <2>1. queue[1] \in Request /\ todo' = {}
    BY <1>5 DEF Receive, Idle, BleInvariant, Queue, Hand
  <2> QED
    BY <1>5, <1>1, <1>2, <2>1 DEF Receive, Idle
<1>6. CASE Claim
  <2>1. todo' = {}
    BY <1>6 DEF Claim, Idle, BleInvariant, Hand
  <2>2. PICK c \in budget.remoteMenu :
          running' = <<[cmd |-> c, owner |-> FALSE, remote |-> TRUE, here |-> FALSE, step |-> "check"]>>
    BY <1>6 DEF Claim
  <2>3. c \in Command
    BY <2>2 DEF BleInvariant, Scenario
  <2>4. [cmd |-> c, owner |-> FALSE, remote |-> TRUE, here |-> FALSE, step |-> "check"] \in Request
    BY <2>3 DEF Request
  <2> QED
    BY <1>2, <2>1, <2>2, <2>4
<1>7. CASE Refuse
  BY <1>7, <1>1 DEF Refuse, BleInvariant, Hand
<1>8. CASE Begin
  <2>1. [running[1] EXCEPT !.step = "save"] \in Request /\ [running[1] EXCEPT !.step = "save"].step = "save"
    BY <1>8, <1>3 DEF Begin, Idle, Request
  <2> QED
    BY <1>8, <1>2, <2>1 DEF Begin
<1>9. CASE SaveKey
  <2>1. running' = running /\ todo # {}
    BY <1>9 DEF SaveKey
  <2> QED
    BY <2>1 DEF BleInvariant, Hand
<1>10. CASE Finish \/ Erase
  BY <1>10, <1>1 DEF Finish, Erase, Finishing
<1>11. CASE Restart \/ PowerLoss
  BY <1>11, <1>1 DEF Restart, PowerLoss, Boot
<1>12. CASE UNCHANGED <<running, todo>>
  BY <1>12 DEF BleInvariant, Hand
<1> QED
  BY <1>4, <1>5, <1>6, <1>7, <1>8, <1>9, <1>10, <1>11, <1>12, Touched

\* What may run changes the PIN only to a PIN.
LEMMA PinChecked ==
  ASSUME NEW r, Verdict(r) = "none"
  PROVE  Known(r) /\ (r.cmd.name = "set_pin" => r.cmd.value \in 1 .. MaxPin)
BY DEF Verdict, PinMayChange

\* Nothing is stored of a command of which all is still to store.
LEMMA NothingStored ==
  ASSUME BleInvariant, NEW r
  PROVE  StoredBut(r, ToSave(EntryOf(r), r.cmd), before) = before
<1>1. StoredBut(r, ToSave(EntryOf(r), r.cmd), before) = [k \in Key |-> before[k]]
  BY Zenon DEF StoredBut
<1> QED
  BY <1>1 DEF BleInvariant

\* A put stores one key more.
LEMMA OneMore ==
  ASSUME BleInvariant, NEW r, Known(r), NEW rest, rest \subseteq ToSave(EntryOf(r), r.cmd),
         NEW i \in rest, config = StoredBut(r, rest, before)
  PROVE  /\ KeyAt(r, i) \in Key
         /\ [config EXCEPT ![KeyAt(r, i)] = ValueOf(r.cmd, KeyAt(r, i))] = StoredBut(r, rest \ {i}, before)
<1> DEFINE all == ToSave(EntryOf(r), r.cmd)
           key == KeyAt(r, i)
           val == ValueOf(r.cmd, key)
<1>1. key \in Key
  BY EntryTyped DEF KeyAt
<1>2. config \in [Key -> Nat]
  BY DEF BleInvariant, Nvs
<1>3. ASSUME NEW k \in Key
      PROVE  [config EXCEPT ![key] = val][k] = StoredBut(r, rest \ {i}, before)[k]
  <2>1. config[k] = IF \E j \in all \ rest : KeyAt(r, j) = k THEN ValueOf(r.cmd, k) ELSE before[k]
    BY DEF StoredBut
  <2>2. StoredBut(r, rest \ {i}, before)[k] =
          IF \E j \in all \ (rest \ {i}) : KeyAt(r, j) = k THEN ValueOf(r.cmd, k) ELSE before[k]
    BY DEF StoredBut
  <2>3. CASE k = key
    <3>1. \E j \in all \ (rest \ {i}) : KeyAt(r, j) = k
      BY <2>3
    <3>2. [config EXCEPT ![key] = val][k] = ValueOf(r.cmd, k)
      BY <1>1, <1>2, <2>3
    <3> QED
      BY <2>2, <3>1, <3>2
  <2>4. CASE k # key
    <3>1. (\E j \in all \ (rest \ {i}) : KeyAt(r, j) = k) <=> (\E j \in all \ rest : KeyAt(r, j) = k)
      BY <2>4
    <3>2. [config EXCEPT ![key] = val][k] = config[k]
      BY <1>2, <2>4
    <3> QED
      BY <2>1, <2>2, <3>1, <3>2, Zenon
  <2> QED
    BY <2>3, <2>4
<1>4. [config EXCEPT ![key] = val] = [k \in Key |-> [config EXCEPT ![key] = val][k]]
  BY <1>2
<1>5. StoredBut(r, rest \ {i}, before) = [k \in Key |-> StoredBut(r, rest \ {i}, before)[k]]
  BY DEF StoredBut
<1>6. [config EXCEPT ![key] = val] = StoredBut(r, rest \ {i}, before)
  BY <1>3, <1>4, <1>5, Zenon
<1> QED
  BY <1>1, <1>6

\* A step of SaveKey: the put is taken, or not.
LEMMA SaveKeyDone ==
  ASSUME BleInvariant, SaveKey
  PROVE  \E i \in todo :
           /\ running # << >> /\ running[1].step # "check" /\ Known(running[1])
           /\ i \in DOMAIN EntryOf(running[1]).saves /\ KeyAt(running[1], i) \in Key
           /\ todo' = todo \ {i} /\ running' = running /\ before' = before
           /\ \/ /\ config' = [config EXCEPT ![KeyAt(running[1], i)]
                                               = ValueOf(running[1].cmd, KeyAt(running[1], i))]
                 /\ refused' = refused
              \/ config' = config /\ refused' = refused \cup {i}
           /\ refused' \subseteq ToSave(EntryOf(running[1]), running[1].cmd) \ todo'
           /\ config' = StoredBut(running[1], todo' \cup refused', before)
<1> DEFINE r == running[1]
<1>1. PICK i \in todo :
        /\ todo' = todo \ {i}
        /\ \/ config' = [config EXCEPT ![KeyAt(r, i)] = ValueOf(r.cmd, KeyAt(r, i))] /\ refused' = refused
           \/ config' = config /\ refused' = refused \cup {i}
  BY DEF SaveKey
<1>2. running # << >> /\ r.step # "check"
  BY <1>1 DEF BleInvariant, Hand
<1>3. /\ Known(r) /\ todo \subseteq ToSave(EntryOf(r), r.cmd)
      /\ refused \subseteq ToSave(EntryOf(r), r.cmd) \ todo
      /\ config = StoredBut(r, todo \cup refused, before)
  BY <1>2 DEF BleInvariant, Stage
<1>4. running' = running /\ before' = before
  BY DEF SaveKey
<1> HIDE DEF r
<1>5. /\ KeyAt(r, i) \in Key
      /\ [config EXCEPT ![KeyAt(r, i)] = ValueOf(r.cmd, KeyAt(r, i))]
           = StoredBut(r, (todo \cup refused) \ {i}, before)
  BY <1>3, OneMore
<1>6. i \in DOMAIN EntryOf(r).saves
  BY <1>3, EntryTyped
<1>7. refused' \subseteq ToSave(EntryOf(r), r.cmd) \ todo'
  BY <1>1, <1>3
<1>8. config' = StoredBut(r, todo' \cup refused', before)
  <2>1. CASE config' = config /\ refused' = refused \cup {i}
    <3>1. todo' \cup refused' = todo \cup refused
      BY <1>1, <2>1
    <3> QED
      BY <1>3, <2>1, <3>1
  <2>2. CASE config' # config \/ refused' # refused \cup {i}
    <3>1. todo' \cup refused' = (todo \cup refused) \ {i}
      BY <1>1, <1>3, <2>2
    <3> QED
      BY <1>1, <1>5, <2>2, <3>1
  <2> QED
    BY <2>1, <2>2
<1> QED
  BY <1>1, <1>2, <1>3, <1>4, <1>5, <1>6, <1>7, <1>8 DEF r

LEMMA NvsKept ==
  ASSUME BleInvariant, [Next]_vars
  PROVE  Nvs'
<1>1. CASE SaveKey
  <2>1. PICK i \in todo :
          /\ running # << >> /\ running[1].step # "check" /\ Known(running[1])
          /\ i \in DOMAIN EntryOf(running[1]).saves /\ KeyAt(running[1], i) \in Key
          /\ \/ config' = [config EXCEPT ![KeyAt(running[1], i)]
                                            = ValueOf(running[1].cmd, KeyAt(running[1], i))]
             \/ config' = config
    BY <1>1, SaveKeyDone
  <2>2. CASE config' = config
    BY <2>2 DEF BleInvariant, Nvs, Pin
  <2> DEFINE key == KeyAt(running[1], i)
             val == ValueOf(running[1].cmd, key)
  <2>3. running[1].cmd.value \in Nat
    <3>1. running[1] \in Request
      BY <2>1 DEF BleInvariant, Hand
    <3>2. running[1].cmd \in Command
      BY <3>1 DEF Request
    <3> QED
      BY <3>2 DEF Command
  <2>4. val \in {running[1].cmd.value, 1}
    BY DEF ValueOf, Default
  <2>5. key = "pin" => running[1].cmd.value \in 1 .. MaxPin
    <3>1. running[1].cmd.name = "set_pin" => running[1].cmd.value \in 1 .. MaxPin
      BY <2>1 DEF BleInvariant, Stage
    <3>2. running[1].cmd.name # "set_pin" => key # "pin"
      BY <2>1, EntryTyped DEF KeyAt
    <3> QED
      BY <3>1, <3>2
  <2>6. MaxPin \in Nat \ {0}
    BY BleAssumption
  <2>7. CASE config' = [config EXCEPT ![key] = val]
    <3> HIDE DEF key, val
    <3>1. config \in [Key -> Nat] /\ config["pin"] \in 1 .. MaxPin /\ "pin" \in Key
      BY DEF BleInvariant, Nvs, Pin, Key
    <3>2. key \in Key /\ val \in Nat
      BY <2>1, <2>3, <2>4 DEF key
    <3>3. config' \in [Key -> Nat]
      BY <2>7, <3>1, <3>2
    <3>4. config'["pin"] = IF key = "pin" THEN val ELSE config["pin"]
      BY <2>7, <3>1, <3>2
    <3>5. key = "pin" => val \in 1 .. MaxPin
      BY <2>4, <2>5, <2>6
    <3>6. config'["pin"] \in 1 .. MaxPin
      BY <3>1, <3>4, <3>5
    <3> QED
      BY <3>3, <3>6 DEF Nvs, Pin
  <2> QED
    BY <2>1, <2>2, <2>7
<1>2. Erased \in [Key -> Nat] /\ Erased["pin"] \in 1 .. MaxPin
  <2>1. "pin" \in Key
    BY DEF Key
  <2>2. MaxPin \in Nat \ {0}
    BY BleAssumption
  <2>3. Erased["pin"] \in {config["pin"], 1}
    BY <2>1 DEF Erased, Empty
  <2>4. Erased \in [Key -> Nat]
    BY DEF Erased, Empty, BleInvariant, Nvs
  <2> QED
    BY <2>2, <2>3, <2>4 DEF BleInvariant, Nvs, Pin
<1>3. CASE config' = Erased
  BY <1>2, <1>3 DEF Nvs, Pin
<1>4. CASE UNCHANGED config
  BY <1>4 DEF BleInvariant, Nvs, Pin
<1>5. CASE Erase \/ Restart
  BY <1>3, <1>4, <1>5 DEF Erase, Restart, nvs
<1> QED
  BY <1>1, <1>4, <1>5, Touched

LEMMA StageKept ==
  ASSUME BleInvariant, [Next]_vars
  PROVE  Stage'
<1>1. ASSUME running' = << >> PROVE Stage'
  BY <1>1 DEF Stage
<1>2. ASSUME NEW r, running' = <<r>>, r.step = "check", config' = before', refused' = {} PROVE Stage'
  BY <1>2 DEF Stage
<1>3. ASSUME running # << >>, running' # << >>, running'[1].step = running[1].step,
             running'[1].cmd = running[1].cmd, running'[1].remote = running[1].remote,
             todo' = todo, config' = config, before' = before, refused' = refused
      PROVE  Stage'
  BY <1>3 DEF BleInvariant, Stage, StoredBut, KeyAt, Known, EntryOf, Entries
<1>4. CASE OnDisconnect
  BY <1>1, <1>3, <1>4, HandOrphaned DEF OnDisconnect, nvs
<1>5. CASE Receive
  <2>1. queue[1].step = "check"
    BY <1>5 DEF Receive, BleInvariant, Queue
  <2>2. config' = config /\ before' = config /\ refused' = {}
    BY <1>5 DEF Receive, nvs
  <2> QED
    BY <1>5, <1>1, <1>2, <2>1, <2>2 DEF Receive
<1>6. CASE Claim
  <2>1. config' = config /\ before' = config /\ refused' = {}
    BY <1>6 DEF Claim, nvs
  <2> QED
    BY <1>6, <1>2, <2>1 DEF Claim
<1>7. CASE Begin
  <2> DEFINE r == running[1]
             s == [running[1] EXCEPT !.step = "save"]
  <2>1. r \in Request
    BY <1>7 DEF Begin, Idle, BleInvariant, Hand
  <2>2. s.step = "save" /\ s.cmd = r.cmd /\ s.remote = r.remote
    BY <2>1 DEF Request
  <2>3. config = before /\ refused = {}
    BY <1>7 DEF Begin, Idle, BleInvariant, Stage
  <2>4. config' = config /\ before' = before /\ refused' = refused /\ todo' = ToSave(EntryOf(r), r.cmd) /\ running' = <<s>>
    BY <1>7 DEF Begin
  <2>5. Verdict(r) = "none"
    BY <1>7 DEF Begin
  <2> HIDE DEF r, s
  <2>6. Known(r) /\ (r.cmd.name = "set_pin" => r.cmd.value \in 1 .. MaxPin)
    BY <2>5, PinChecked
  <2>7. config = StoredBut(r, ToSave(EntryOf(r), r.cmd), before)
    BY <2>3, NothingStored
  <2>8. Known(s) /\ EntryOf(s) = EntryOf(r)
    BY <2>2, <2>6 DEF Known, EntryOf, Entries
  <2>9. config' = StoredBut(s, todo' \cup refused', before')
    <3>1. todo' \cup refused' = ToSave(EntryOf(r), r.cmd)
      BY <2>3, <2>4
    <3>2. StoredBut(s, ToSave(EntryOf(r), r.cmd), before) = StoredBut(r, ToSave(EntryOf(r), r.cmd), before)
      BY <2>2, <2>8 DEF StoredBut, KeyAt
    <3> QED
      BY <2>4, <2>7, <3>1, <3>2
  <2>10. running' # << >> /\ running'[1] = s
    BY <2>4
  <2> QED
    BY <2>2, <2>3, <2>4, <2>6, <2>8, <2>9, <2>10 DEF Stage
<1>8. CASE SaveKey
  <2>1. PICK i \in todo :
          /\ running # << >> /\ running[1].step # "check" /\ Known(running[1])
          /\ todo' = todo \ {i} /\ running' = running /\ before' = before
          /\ refused' \subseteq ToSave(EntryOf(running[1]), running[1].cmd) \ todo'
          /\ config' = StoredBut(running[1], todo' \cup refused', before)
    BY <1>8, SaveKeyDone
  <2>2. /\ running[1].cmd.name = "set_pin" => running[1].cmd.value \in 1 .. MaxPin
        /\ todo' \subseteq ToSave(EntryOf(running[1]), running[1].cmd)
    BY <2>1 DEF BleInvariant, Stage
  <2>3. config' = StoredBut(running'[1], todo' \cup refused', before')
    BY <2>1
  <2> QED
    BY <2>1, <2>2, <2>3 DEF Stage
<1>9. CASE Refuse \/ Finish \/ Erase
  BY <1>9, <1>1 DEF Refuse, Finish, Erase
<1>10. CASE Restart \/ PowerLoss
  BY <1>10, <1>1 DEF Restart, PowerLoss, Boot
<1>11. CASE UNCHANGED <<running, todo>> /\ UNCHANGED config /\ UNCHANGED before /\ UNCHANGED refused
  BY <1>11, <1>1, <1>3
<1> QED
  BY <1>4, <1>5, <1>6, <1>7, <1>8, <1>9, <1>10, <1>11, Touched

-----------------------------------------------------------------------------
(* The theorems.                                                            *)

LEMMA InitHolds == Init => BleInvariant
<1> SUFFICES ASSUME Init PROVE BleInvariant
  OBVIOUS
<1>1. Client
  BY Zenon DEF Init, Client
<1>2. Queue /\ Hand
  BY BleAssumption DEF Init, Queue, Hand
<1>3. Nvs /\ before \in [Key -> Nat]
  <2>1. "pin" \in Key
    BY DEF Key
  <2>2. Empty \in [Key -> Nat] /\ Empty["pin"] = 1
    BY <2>1 DEF Empty
  <2>3. MaxPin \in Nat \ {0}
    BY BleAssumption
  <2> QED
    BY <2>2, <2>3 DEF Init, Nvs, Pin
<1>4. Rate /\ Guesses
  BY BleAssumption DEF Init, Rate, Guesses
<1>5. Answers
  BY DEF Init, Answers, Told
<1>6. Stage
  BY DEF Init, Stage
<1>7. budget \in Scenario
  BY BleAssumption DEF Init
<1> QED
  BY <1>1, <1>2, <1>3, <1>4, <1>5, <1>6, <1>7 DEF BleInvariant

LEMMA InvariantKept == BleInvariant /\ [Next]_vars => BleInvariant'
<1> SUFFICES ASSUME BleInvariant, [Next]_vars PROVE BleInvariant'
  OBVIOUS
<1>1. before' \in [Key -> Nat] /\ budget' \in Scenario
  BY BeforeKept, BudgetKept
<1>2. Client' /\ Queue' /\ Hand' /\ Nvs' /\ Rate' /\ Answers' /\ Guesses' /\ Stage'
  BY ClientKept, QueueKept, HandKept, NvsKept, RateKept, AnswersKept, GuessesKept, StageKept
<1> QED
  BY <1>1, <1>2 DEF BleInvariant

LEMMA BleInvariantHolds == Spec => []BleInvariant
BY InitHolds, InvariantKept, PTL DEF Spec

\* The front ends' state is well typed in every reachable state, and the PIN is always one that a
\* client can type, whatever commands, resets and erasures come (settings_save_ble_pin).
THEOREM BleTypeCorrect == Spec => []TypeOK
<1>1. BleInvariant => TypeOK
  <2> SUFFICES ASSUME BleInvariant PROVE TypeOK
    OBVIOUS
  <2>1. answer.says \in Told
    BY DEF BleInvariant, Answers
  <2>2. up \in BOOLEAN /\ connected \in BOOLEAN /\ (connected => up)
    BY DEF BleInvariant, Client
  <2>3. Len(queue) =< QueueSize /\ \A k \in DOMAIN queue : queue[k].here => connected
    BY DEF BleInvariant, Queue
  <2>4. Len(running) =< 1 /\ ((running = << >> \/ running[1].step = "check") => todo = {})
    BY DEF BleInvariant, Hand
  <2>5. Nvs /\ Rate /\ Guesses
    BY DEF BleInvariant
  <2> QED
    BY <2>1, <2>2, <2>3, <2>4, <2>5, Zenon DEF TypeOK, Nvs, Rate, Guesses
<1> QED
  BY <1>1, BleInvariantHolds, PTL

\* A power of two is the number of subsets of a set, and so a number.
LEMMA PowerTyped == \A n \in Nat : 2 ^ n \in Nat
<1> TAKE n \in Nat
<1>1. IsFiniteSet(1 .. n) /\ Cardinality(1 .. n) = n
  BY FS_Interval
<1>2. IsFiniteSet(SUBSET (1 .. n)) /\ Cardinality(SUBSET (1 .. n)) = 2 ^ n
  BY <1>1, FS_SUBSET
<1> QED
  BY <1>2, FS_CardinalityType

LEMMA CoolOffTyped ==
  ASSUME NEW f \in Nat
  PROVE  CoolOff(f) \in Nat /\ (f = 0 => CoolOff(f) = 0)
<1>1. MaxShift \in Nat /\ Unit \in Nat /\ MaxWait \in Nat
  BY BleAssumption
<1>2. Lesser(f, MaxShift) \in Nat
  BY <1>1 DEF Lesser
<1>3. 2 ^ Lesser(f, MaxShift) \in Nat
  BY <1>2, PowerTyped
<1> DEFINE p == 2 ^ Lesser(f, MaxShift)
<1> HIDE DEF p
<1>4. p \in Nat
  BY <1>3 DEF p
<1>5. Unit * p \in Nat
  BY <1>1, <1>4
<1>6. Lesser(Unit * p, MaxWait) \in Nat
  BY <1>1, <1>5 DEF Lesser
<1>7. CoolOff(f) = IF f = 0 THEN 0 ELSE Lesser(Unit * p, MaxWait)
  BY DEF CoolOff, p
<1> QED
  BY <1>6, <1>7

\* Only the check of a command compares its PIN.
LEMMA ComparesInCheck ==
  ASSUME BleInvariant, [Next]_vars, Compares
  PROVE  /\ running # << >> /\ Gated(running[1])
         /\ Verdict(running[1]) \in {"invalid_pin", "refused", "none"}
<1>1. /\ running # << >> /\ running[1].step = "check" /\ Gated(running[1])
      /\ \/ running' # << >> /\ running'[1].step = "save"
         \/ running' = << >> /\ answer'.says \in {"invalid_pin", "refused"}
  BY DEF Compares, Idle
<1>2. todo = {}
  BY <1>1 DEF BleInvariant, Hand
<1>3. ~ OnDisconnect
  BY <1>1, HandOrphaned DEF OnDisconnect
<1>4. ~ Receive /\ ~ Claim
  BY <1>1 DEF Receive, Claim, Idle
<1>5. ~ SaveKey
  BY <1>2 DEF SaveKey
<1>6. ~ Finish /\ ~ Erase /\ ~ Restart
  BY <1>1 DEF Finish, Erase, Restart, Finishing
<1>7. ~ PowerLoss
  BY <1>1 DEF PowerLoss, Boot
<1>8. ~ UNCHANGED <<running, todo>>
  BY <1>1
<1>9. CASE Refuse
  BY <1>1, <1>9 DEF Refuse, Answer
<1>10. CASE Begin
  BY <1>1, <1>10 DEF Begin
<1> QED
  BY <1>1, <1>3, <1>4, <1>5, <1>6, <1>7, <1>8, <1>9, <1>10, Touched

\* Guesses are spaced for every doubling and cap of the cool-off and over any number of resets:
\* the device's own measure of the time since the last wrong PIN is never more than it was.
THEOREM GuessesAreSpaced == Spec => GuessesSpaced
<1>1. ASSUME BleInvariant, [Next]_vars, Compares PROVE quiet >= CoolOff(fails)
  <2>1. ~ Cooling
    <3>1. Gated(running[1]) /\ Verdict(running[1]) # "rate_limited" /\ Verdict(running[1]) # "unknown_cmd"
      BY <1>1, ComparesInCheck
    <3> QED
      BY <3>1 DEF Verdict
  <2>2. fails \in Nat /\ sinceFail \in Nat /\ quiet \in Nat /\ sinceFail =< quiet
    BY <1>1, BleAssumption DEF BleInvariant, Guesses
  <2>3. CoolOff(fails) \in Nat /\ (fails = 0 => CoolOff(fails) = 0)
    BY <2>2, CoolOffTyped
  <2> QED
    BY <2>1, <2>2, <2>3 DEF Cooling
<1>2. BleInvariant /\ [Next]_vars => [Compares => quiet >= CoolOff(fails)]_vars
  BY <1>1
<1> QED
  BY <1>2, BleInvariantHolds, PTL DEF Spec, GuessesSpaced

\* What the last step of a command leaves in NVS.
LEMMA WholeWhenDone ==
  ASSUME BleInvariant, Finishing({"answer"})
  PROVE  /\ \A k \in Key : config[k] = IF Taken(running[1], k) THEN ValueOf(running[1].cmd, k) ELSE before[k]
         /\ Outcome(running[1]) # "ok" => config = before
<1> DEFINE r == running[1]
           all == ToSave(EntryOf(r), r.cmd)
<1>1. running # << >> /\ r.step # "check" /\ todo = {}
  BY DEF Finishing, Idle
<1>2. Known(r) /\ refused \subseteq all /\ config = StoredBut(r, refused, before)
  <2>1. Known(r) /\ refused \subseteq all \ todo /\ config = StoredBut(r, todo \cup refused, before)
    BY <1>1 DEF BleInvariant, Stage
  <2>2. todo \cup refused = refused
    BY <1>1
  <2> QED
    BY <2>1, <2>2
<1>3. \A k \in Key : config[k] = IF Taken(r, k) THEN ValueOf(r.cmd, k) ELSE before[k]
  BY <1>2 DEF StoredBut, Taken
<1>4. ASSUME Outcome(r) # "ok" PROVE config = before
  <2>1. EntryOf(r).needs # {} \/ \E j \in refused : Heeded(r.cmd, KeyAt(r, j))
    BY <1>4 DEF Outcome
  <2>2. CASE EntryOf(r).needs # {}
    <3>1. DOMAIN EntryOf(r).saves = {}
      BY <1>2, <2>2, EntryTyped
    <3>2. all = {}
      BY <1>2, <3>1, EntryTyped
    <3> QED
      BY <1>3, <3>2 DEF BleInvariant, Nvs, Taken
  <2>3. CASE \E j \in refused : Heeded(r.cmd, KeyAt(r, j))
    <3>1. PICK j \in refused : KeyAt(r, j) \in HeededKey
      BY <2>3 DEF Heeded, HeededKey
    <3>2. all = {j}
      <4>1. j \in all /\ EntryOf(r).saves[j] \in HeededKey
        BY <1>2, <3>1 DEF KeyAt
      <4>2. \A i \in all : EntryOf(r).saves[i] \in HeededKey => all = {i}
        BY <1>2, EntryTyped
      <4> QED
        BY <4>1, <4>2
    <3> QED
      BY <1>3, <3>1, <3>2 DEF BleInvariant, Nvs, Taken
  <2> QED
    BY <2>1, <2>2, <2>3
<1> QED
  BY <1>3, <1>4

\* The answers are true for every handler of both tables, whatever values, losses of power, puts that
\* are not taken and writers that leave: "ok" when all that the store took is stored, with the
\* handler's defaults, and nothing else has changed, an error when nothing is stored.
THEOREM AnswersTrue == Spec => AnswersAreTrue
<1> DEFINE Truth == IF answer'.says = "ok"
                    THEN EntryOf(running[1]).ends = "answer" =>
                           \A k \in Key : config'[k] = IF Taken(running[1], k)
                                                       THEN ValueOf(running[1].cmd, k) ELSE before[k]
                    ELSE config' = before
<1>1. ASSUME BleInvariant, [Next]_vars, Answered PROVE Truth
  <2>1. running # << >> /\ running' = << >> /\ answer'.says # "none"
    BY <1>1 DEF Answered, Idle
  <2>2. CASE OnDisconnect
    BY <1>1, <2>1, <2>2, HandOrphaned DEF OnDisconnect
  <2>3. CASE Receive \/ Claim
    BY <2>1, <2>3 DEF Receive, Claim, Idle
  <2>4. CASE Refuse
    <3>1. answer'.says = Verdict(running[1]) /\ running[1].step = "check" /\ config' = config
      BY <2>4 DEF Refuse, Answer
    <3>2. Verdict(running[1]) # "ok"
      BY DEF Verdict
    <3>3. config = before
      BY <1>1, <2>1, <3>1 DEF BleInvariant, Stage
    <3> QED
      BY <3>1, <3>2, <3>3
  <2>5. CASE Begin
    BY <2>1, <2>5 DEF Begin
  <2>6. CASE SaveKey
    BY <2>1, <2>6 DEF SaveKey
  <2>7. CASE Finish
    <3>1. Finishing({"answer"}) /\ answer'.says = Outcome(running[1]) /\ config' = config
      BY <2>7 DEF Finish, Answer, nvs
    <3> QED
      BY <1>1, <3>1, WholeWhenDone
  <2>8. CASE Erase \/ Restart
    BY <2>8 DEF Erase, Restart, Finishing, Answer
  <2>9. CASE PowerLoss
    BY <2>1, <2>9 DEF PowerLoss
  <2>10. CASE UNCHANGED <<running, todo>>
    BY <2>1, <2>10
  <2> QED
    BY <1>1, <2>2, <2>3, <2>4, <2>5, <2>6, <2>7, <2>8, <2>9, <2>10, Touched
<1>2. BleInvariant /\ [Next]_vars => [Answered => Truth]_vars
  BY <1>1
<1> QED
  BY <1>2, BleInvariantHolds, PTL DEF Spec, AnswersAreTrue

=============================================================================
