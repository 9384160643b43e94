--------------------------- MODULE BatteryCounters ---------------------------
(***************************************************************************)
(* The counters of one logical channel and the battery configuration:      *)
(* coulomb counter, cycle counter with its cache over NVS, the table of    *)
(* chemistry profiles and the binding of the channel to one of them.  The  *)
(* sensor task integrates and counts; the network task and the console     *)
(* read, reset and configure.  g_battery_mux makes single assignments      *)
(* atomic; loads, copies and NVS writes happen between the locks, and each *)
(* of them is a step here.  A put may be refused, and almost nobody looks; *)
(* the battery namespaces may not open at all (their names are longer than *)
(* the 15 characters NVS takes).  Charge, state of charge and cycles are   *)
(* whole units of the same size; Ah totals, voltage and SoH are left out.  *)
(***************************************************************************)
EXTENDS Integers, Sequences, FiniteSets

CONSTANTS
  Client,       \* tasks other than the sensor task: network, console
  Full,         \* 100 % state of charge
  Current,      \* readings, in units a tick: positive charges
  Hysteresis,   \* CYCLE_DOD_HYSTERESIS_PCT
  Interval,     \* ticks between two periodic saves
  Builtins,     \* BATTERY_BUILTIN_PROFILE_COUNT
  Profiles,     \* BATTERY_MAX_PROFILES
  Budgets       \* bounds: ticks with current, commands, configuration changes, resets,
                \* and saves of the sensor task that are refused

ASSUME BatteryAssumption ==
  /\ Current \subseteq Int /\ IsFiniteSet(Current) /\ 0 \in Current      \* a register of 16 bits
  /\ {Full, Hysteresis} \subseteq Nat /\ Interval \in Nat \ {0}
  /\ Builtins \in Nat \ {0} /\ Profiles \in Nat /\ Builtins =< Profiles
  /\ Budgets \subseteq [ticks : Nat, calls : Nat, changes : Nat, resets : Nat, fails : Nat]

NoBinding == -1
Id        == 0 .. Profiles - 1
BuiltinId == 0 .. Builtins - 1
Most      == CHOOSE m \in {IF i < 0 THEN -i ELSE i : i \in Current} :
                \A i \in Current : -m =< i /\ i =< m
Charge    == -(Full + 1) .. Most       \* bound of the counter; SoC is clamped inside it
State     == [cycles : Nat, soc : 0 .. Full, start : 0 .. Full]
Zero      == [cycles |-> 0, soc |-> 0, start |-> 0]
Absent    == [cycles |-> -1, soc |-> 0, start |-> 0]     \* no such key

VARIABLES
  charge, chargeNvs,          \* accumulated_mAh, and its NVS value
  cache, loaded, lastDir,     \* g_state, g_loaded, g_last_dir
  nvs,                        \* the state blob
  table, populated,           \* g_profiles: the ids of valid slots; g_populated
  tableNvs, tableVer,         \* the blob of profiles, its version key
  bind, bindNvs, bindVer,     \* g_channel_profile, the blob, its version key
  sensor,                     \* the sensor task: pc, current read, sum, copied state
  client,                     \* the others: calls still to make, position, copied state
  age,                        \* ticks since the last periodic save
  opens,                      \* the two battery namespaces open
  safe,                       \* booted in safe mode
  tableOk, bindOk,            \* the last write of each blob succeeded
  budget,                     \* what is left of a member of Budgets
  travel, seen,               \* history: how far the state of charge has moved
  raced, missed               \* history: a reset of the counter crossed its store, or its write
                              \* was refused; periodic saves refused since the last good one

coulomb == <<charge, chargeNvs>>
cycle   == <<cache, loaded, lastDir, nvs>>
config  == <<table, populated, tableNvs, tableVer, bind, bindNvs, bindVer, tableOk, bindOk>>
history == <<travel, seen, raced, missed>>
vars    == <<coulomb, cycle, config, sensor, client, age, opens, safe, budget, history>>

Call == {"get", "cycles", "charge", "state", "version"}
At   == {"start", "read", "install", "copy", "put", "empty", "remove", "save"}
Quiet  == [todo |-> << >>, at |-> "start", copy |-> Zero]
Asleep == [pc |-> "idle", current |-> 0, sum |-> 0, copy |-> Zero]

TypeOK ==
  /\ {charge, chargeNvs} \subseteq Charge
  /\ cache \in State /\ loaded \in BOOLEAN /\ lastDir \in -1 .. 1
  /\ nvs \in State \cup {Absent}
  /\ table \subseteq Id /\ populated \in Builtins .. Profiles /\ tableNvs \subseteq Id
  /\ {bind, bindNvs} \subseteq Id \cup {NoBinding} /\ {bindVer, tableVer} \subseteq BOOLEAN
  /\ sensor \in [pc : {"idle", "store", "argument", "save", "cycle", "load", "copy", "put"},
                 current : Current, sum : Charge, copy : State]
  /\ client \in [Client -> [todo : Seq(Call), at : At, copy : State]]
  /\ age \in 0 .. Interval /\ {opens, safe, tableOk, bindOk, raced} \subseteq BOOLEAN
  /\ budget \in [ticks : Nat, calls : Nat, changes : Nat, resets : Nat, fails : Nat]
  /\ travel \in Nat /\ seen \in -1 .. Full /\ missed \in Nat

-----------------------------------------------------------------------------
(* Reading flash, and boot.                                                 *)

\* battery_state_load(), or an empty state where there is no blob.
Flash == IF nvs = Absent THEN Zero ELSE nvs
\* init_battery_bindings(): the blob counts only with its version key.
BindingRead == IF bindVer THEN bindNvs ELSE NoBinding
\* init_battery_profiles(): the built-in slots, and every valid persisted one if the version key
\* is there as well.
TableRead == BuiltinId \cup IF tableVer THEN tableNvs ELSE {}
PopulatedBy(ids) == CHOOSE n \in Builtins .. Profiles :
                       /\ \A i \in ids : i < n
                       /\ n = Builtins \/ n - 1 \in ids

\* What a key holds after a put, which may be refused.
Written(new, old, ok) == IF ok THEN new ELSE old
\* Outcomes of a battery_nvs_*_put(): ensure_*_prefs_open() comes first.
Outcomes == {ok \in BOOLEAN : ok => opens}

Spend(kind) == budget[kind] > 0 /\ budget' = [budget EXCEPT ![kind] = @ - 1]

Init ==
  /\ budget \in Budgets
  /\ charge = 0 /\ chargeNvs = 0
  /\ cache = Zero /\ loaded = FALSE /\ lastDir = 0 /\ nvs = Absent
  /\ table = BuiltinId /\ populated = Builtins /\ tableNvs = {} /\ tableVer = FALSE
  /\ bind \in {NoBinding, 0} /\ (bind = NoBinding => budget.changes > 0) /\ bindNvs = bind /\ bindVer = (bind = 0)
  /\ opens \in BOOLEAN /\ (bindVer => opens)
  /\ sensor = Asleep /\ client = [t \in Client |-> Quiet]
  /\ age = 0 /\ safe = FALSE /\ tableOk = TRUE /\ bindOk = TRUE
  /\ travel = 0 /\ seen = -1 /\ raced = FALSE /\ missed = 0

\* A reset, then setup(): safe mode skips the counters and the battery configuration.
Crash ==
  /\ Spend("resets")
  /\ safe' \in BOOLEAN
  /\ charge' = IF safe' THEN 0 ELSE chargeNvs
  /\ table' = IF safe' THEN {} ELSE TableRead
  /\ populated' = IF safe' THEN Builtins ELSE PopulatedBy(TableRead)
  /\ bind' = IF safe' THEN 0 ELSE BindingRead
  /\ cache' = Zero /\ loaded' = FALSE /\ lastDir' = 0
  /\ sensor' = Asleep /\ client' = [t \in Client |-> Quiet] /\ age' = 0
  /\ tableOk' = TRUE /\ bindOk' = TRUE /\ seen' = -1 /\ raced' = FALSE /\ missed' = 0
  /\ UNCHANGED <<chargeNvs, nvs, tableNvs, tableVer, bindNvs, bindVer, opens, travel>>

-----------------------------------------------------------------------------
(* The sensor task.                                                         *)

Abs(n) == IF n < 0 THEN -n ELSE n

\* update_coulomb_counter(): the sum is computed from a value read before ...
ReadCurrent ==
  /\ sensor.pc = "idle"
  /\ \E i \in Current :
        /\ IF i = 0 THEN UNCHANGED budget ELSE Spend("ticks")
        /\ charge + i \in Charge
        /\ sensor' = [sensor EXCEPT !.pc = "store", !.current = i, !.sum = charge + i]
  /\ UNCHANGED <<coulomb, cycle, config, client, age, opens, safe, history>>

\* Mutant: the periodic save is only made when the channel is idle.
StoreSavingIdle ==
  /\ sensor.pc = "store"
  /\ charge' = sensor.sum
  /\ age' = IF age < Interval THEN age + 1 ELSE age
  /\ sensor' = [sensor EXCEPT !.pc = IF age' = Interval /\ sensor.current = 0
                                     THEN "argument" ELSE "cycle", !.sum = 0]
  /\ UNCHANGED <<chargeNvs, cycle, config, client, opens, safe, budget, history>>

\* ... and stored.  No lock is held here, nor up to the end of the periodic save.
Store ==
  /\ sensor.pc = "store"
  /\ charge' = sensor.sum
  /\ age' = IF age < Interval THEN age + 1 ELSE age
  /\ sensor' = [sensor EXCEPT !.pc = IF age' = Interval THEN "argument" ELSE "cycle", !.sum = 0]
  /\ UNCHANGED <<chargeNvs, cycle, config, client, opens, safe, budget, history>>

\* settings_save_coulomb_mAh(): its argument is read ...
ReadArgument ==
  /\ sensor.pc = "argument" /\ sensor' = [sensor EXCEPT !.pc = "save", !.sum = charge]
  /\ UNCHANGED <<coulomb, cycle, config, client, age, opens, safe, budget, history>>

\* ... and put, in the settings namespace.  The timer starts again whether it was stored or not.
SaveCharge ==
  /\ sensor.pc = "save" /\ sensor' = [sensor EXCEPT !.pc = "cycle", !.sum = 0]
  /\ \/ /\ chargeNvs' = sensor.sum /\ raced' = (sensor.sum # charge) /\ missed' = 0
        /\ UNCHANGED budget
     \/ /\ Spend("fails") /\ missed' = missed + 1 /\ UNCHANGED <<chargeNvs, raced>>
  /\ UNCHANGED <<charge, cycle, config, client, age, opens, safe, travel, seen>>

\* battery_profile_get()
ProfileFound(id) == id # NoBinding /\ id < populated /\ id \in table
\* Mutant: the state of charge is not clamped.
SocUnclamped == Full + charge

\* classify(), and compute_soc_pct().
Sign(i) == IF i > 0 THEN 1 ELSE IF i < 0 THEN -1 ELSE 0
Soc == IF Full + charge < 0 THEN 0 ELSE IF Full + charge > Full THEN Full ELSE Full + charge

\* Mutant: the session goes on after a counted leg.
AfterTickKeeping(st, dir) ==
  LET now   == Sign(sensor.current)
      start == IF dir = 0 /\ now # 0 THEN Soc ELSE st.start
      deep  == dir # 0 /\ now = -dir /\ Abs(Soc - start) > Hysteresis
  IN  [cycles |-> IF deep THEN st.cycles + Abs(Soc - start) ELSE st.cycles,
       soc |-> Soc, start |-> start]

\* The state after a tick: a change of direction closes the session, and counts it when it was
\* deep enough; the first direction known opens one.
AfterTick(st, dir) ==
  LET now   == Sign(sensor.current)
      start == IF dir = 0 /\ now # 0 THEN Soc ELSE st.start
      flip  == dir # 0 /\ now = -dir
      deep  == flip /\ Abs(Soc - start) > Hysteresis
  IN  [cycles |-> IF deep THEN st.cycles + Abs(Soc - start) ELSE st.cycles,
       soc |-> Soc, start |-> IF flip THEN Soc ELSE start]

\* Mutant: nothing is saved but counted legs.
SaveDueNever == FALSE

\* The periodic save of what is loaded.
SaveDue == age = Interval

\* The locked part of update_cycle_counter(), and whether a save follows.
CycleTick(st, dir) ==
  LET new     == AfterTick(st, dir)
      counted == new.cycles > st.cycles
  IN
  /\ cache' = new /\ loaded' = TRUE
  /\ lastDir' = IF sensor.current # 0 THEN Sign(sensor.current) ELSE dir
  /\ travel' = IF seen = -1 THEN travel ELSE travel + Abs(Soc - seen)
  /\ seen' = Soc
  /\ sensor' = [Asleep EXCEPT !.pc = IF counted \/ SaveDue THEN "copy" ELSE "idle"]
  /\ age' = IF age = Interval /\ ~ counted THEN 0 ELSE age
  /\ UNCHANGED <<coulomb, nvs, config, client, opens, safe, budget, raced, missed>>

\* The lock is dropped for the NVS read of a state not loaded yet ...
UpdateCycles ==
  /\ sensor.pc = "cycle" /\ ProfileFound(bind)
  /\ \/ loaded /\ CycleTick(cache, lastDir)
     \/ /\ ~ loaded /\ sensor' = [sensor EXCEPT !.pc = "load", !.copy = Flash]
        /\ UNCHANGED <<coulomb, cycle, config, client, age, opens, safe, budget, history>>

\* ... which then replaces the cache, whatever that has become.
InstallAndUpdate == sensor.pc = "load" /\ CycleTick(sensor.copy, 0)

\* A channel with no battery is skipped, but what is loaded of it is saved.
SkipChannel ==
  /\ sensor.pc = "cycle" /\ ~ ProfileFound(bind)
  /\ sensor' = [Asleep EXCEPT !.pc = IF SaveDue /\ loaded THEN "copy" ELSE "idle"]
  /\ age' = IF age = Interval THEN 0 ELSE age
  /\ UNCHANGED <<coulomb, cycle, config, client, opens, safe, budget, history>>

\* persist_state(): the cache is copied with no lock, and written; nobody looks whether it was.
CopyState ==
  /\ sensor.pc = "copy" /\ sensor' = [Asleep EXCEPT !.pc = "put", !.copy = cache]
  /\ UNCHANGED <<coulomb, cycle, config, client, age, opens, safe, budget, history>>
PutState ==
  /\ sensor.pc = "put"
  /\ \/ opens /\ nvs' = sensor.copy /\ UNCHANGED budget
     \/ opens /\ Spend("fails") /\ UNCHANGED nvs
     \/ ~ opens /\ UNCHANGED <<nvs, budget>>
  /\ sensor' = [Asleep EXCEPT !.pc = IF SaveDue THEN "copy" ELSE "idle"]
  /\ age' = IF age = Interval THEN 0 ELSE age
  /\ UNCHANGED <<coulomb, cache, loaded, lastDir, config, client, opens, safe, history>>

SensorStep == ReadCurrent \/ Store \/ ReadArgument \/ SaveCharge \/ UpdateCycles \/ InstallAndUpdate \/ SkipChannel
              \/ CopyState \/ PutState

-----------------------------------------------------------------------------
(* The network task and the console.                                        *)

\* The calls a command makes, one after the other.
Commands == {<<"get">>,                           \* telemetry, BLE and console reads
             <<"cycles">>,                        \* BLE reset of the cycle counter
             <<"charge">>,                        \* reset_coulomb
             <<"cycles", "charge">>,              \* console battery reset
             <<"cycles", "charge", "state">>}     \* remote reset_battery
Others(t) == UNCHANGED <<sensor, age, opens, safe>>
At1(t, call, at) == client[t].todo # << >> /\ Head(client[t].todo) = call /\ client[t].at = at
Next1(t, at) == client' = [client EXCEPT ![t].at = at]
Done(t) == client' = [client EXCEPT ![t] = [Quiet EXCEPT !.todo = Tail(client[t].todo)]]

Begin(t, kind, todo) ==
  /\ ~ safe /\ client[t].todo = << >> /\ Spend(kind)
  /\ client' = [client EXCEPT ![t].todo = todo]
BeginCommand(t) ==
  /\ \E c \in Commands : Begin(t, "calls", c)
  /\ UNCHANGED <<coulomb, cycle, config, history>> /\ Others(t)

\* cycle_counter_get(): check, NVS read and install are apart.
Get(t) ==
  /\ \/ /\ At1(t, "get", "start") /\ IF loaded THEN Done(t) ELSE Next1(t, "read")
        /\ UNCHANGED <<cache, loaded, lastDir>>
     \/ /\ At1(t, "get", "read")
        /\ client' = [client EXCEPT ![t].at = "install", ![t].copy = Flash]
        /\ UNCHANGED <<cache, loaded, lastDir>>
     \/ /\ At1(t, "get", "install") /\ Done(t)
        /\ cache' = client[t].copy /\ loaded' = TRUE /\ lastDir' = 0
  /\ UNCHANGED <<coulomb, nvs, config, budget, history>> /\ Others(t)

\* cycle_counter_reset(): the cache under the lock, then flash by one of two ways.
ResetCycles(t) ==
  /\ \/ /\ At1(t, "cycles", "start") /\ Next1(t, IF loaded THEN "copy" ELSE "empty")
        /\ cache' = Zero /\ loaded' = TRUE /\ lastDir' = 0
        /\ UNCHANGED nvs
     \/ /\ At1(t, "cycles", "copy")
        /\ client' = [client EXCEPT ![t].at = "put", ![t].copy = cache]
        /\ UNCHANGED cycle
     \/ /\ At1(t, "cycles", "put") /\ Done(t)
        /\ \E ok \in Outcomes : nvs' = Written(client[t].copy, nvs, ok)
        /\ UNCHANGED <<cache, loaded, lastDir>>
  /\ UNCHANGED <<coulomb, config, budget, history>> /\ Others(t)

\* battery_state_reset(): an empty blob is saved, then removed; neither need succeed.
ResetState(t) ==
  /\ \E call \in {"cycles", "state"} :
        \/ /\ At1(t, call, IF call = "state" THEN "start" ELSE "empty") /\ Next1(t, "remove")
           /\ \E ok \in Outcomes : nvs' = Written(Zero, nvs, ok)
        \/ /\ At1(t, call, "remove") /\ Done(t)
           /\ \E ok \in Outcomes : nvs' = Written(Absent, nvs, ok)
  /\ UNCHANGED <<coulomb, cache, loaded, lastDir, config, budget, history>> /\ Others(t)

\* reset_coulomb_counter(): the sensor task may be about to store its sum, or to save its argument.
ResetCharge(t) ==
  /\ \/ /\ At1(t, "charge", "start") /\ Next1(t, "save")
        /\ charge' = 0 /\ raced' = (raced \/ sensor.pc = "store")
        /\ UNCHANGED chargeNvs
     \/ /\ At1(t, "charge", "save") /\ Done(t)
        /\ \E ok \in BOOLEAN : chargeNvs' = Written(0, chargeNvs, ok)
        /\ raced' = (raced \/ charge # chargeNvs')
        /\ UNCHANGED charge
  /\ UNCHANGED <<cycle, config, budget, travel, seen, missed>> /\ Others(t)

\* battery_channel_set_profile() and battery_channel_clear(): table and blob under the lock, and
\* the version key after it, if the blob was written.
Bind(t) ==
  \E p \in 0 .. Profiles - 1 \cup {NoBinding}, ok \in Outcomes :
     /\ Begin(t, "changes", IF ok THEN <<"version">> ELSE << >>)
     /\ bind' = p /\ bindNvs' = Written(p, bindNvs, ok)
     /\ bindOk' = ok
     /\ UNCHANGED <<coulomb, cycle, table, populated, tableNvs, tableVer, bindVer, tableOk, history>>
     /\ Others(t)
\* Whether the version key was written is not part of the answer.
BindVersion(t) ==
  /\ At1(t, "version", "start") /\ Done(t)
  /\ \E ok \in Outcomes : bindVer' = Written(TRUE, bindVer, ok)
  /\ UNCHANGED <<coulomb, cycle, table, populated, tableNvs, tableVer, bind, bindNvs, tableOk, bindOk,
                 budget, history>>
  /\ Others(t)

\* persist_profiles_locked(): the blob under the lock, then its version key, whose put nobody
\* looks at; a reset between the two is a version key refused.
SaveTable(ids, n) ==
  \E ok \in Outcomes, versioned \in Outcomes :
     /\ table' = ids /\ populated' = n
     /\ tableNvs' = Written(ids, tableNvs, ok)
     /\ tableVer' = Written(TRUE, tableVer, ok /\ versioned)
     /\ tableOk' = ok
     /\ UNCHANGED <<coulomb, cycle, bind, bindNvs, bindVer, bindOk, history>>

\* battery_profile_set()
SetProfile(t) ==
  /\ Begin(t, "changes", << >>)
  /\ \E id \in Id : SaveTable(table \cup {id}, IF id + 1 > populated THEN id + 1 ELSE populated)
  /\ Others(t)

\* Mutant: only the deleted slot is taken off.
TrimmedByOne(ids, id) == IF id + 1 = populated THEN id ELSE populated

\* The empty slots at the end are given up.
Trimmed(ids, id) == IF id + 1 = populated THEN PopulatedBy(ids) ELSE populated

\* battery_profile_delete()
DeleteProfile(t) ==
  /\ Begin(t, "changes", << >>)
  /\ \E id \in Builtins .. populated - 1 : SaveTable(table \ {id}, Trimmed(table \ {id}, id))
  /\ Others(t)

ClientStep(t) == Get(t) \/ ResetCycles(t) \/ ResetState(t) \/ ResetCharge(t) \/ BindVersion(t)

Next ==
  \/ Crash
  \/ ReadCurrent \/ Store \/ ReadArgument \/ SaveCharge
  \/ UpdateCycles \/ InstallAndUpdate \/ SkipChannel \/ CopyState \/ PutState
  \/ \E t \in Client : \/ BeginCommand(t) \/ Get(t) \/ ResetCycles(t) \/ ResetState(t) \/ ResetCharge(t)
                      \/ Bind(t) \/ BindVersion(t) \/ SetProfile(t) \/ DeleteProfile(t)

Spec == Init /\ [][Next]_vars

\* Every task runs on; nothing is assumed of the commands.
FairSpec == Spec /\ WF_vars(SensorStep) /\ \A t \in Client : WF_vars(ClientStep(t))

-----------------------------------------------------------------------------
(* Properties.                                                              *)

\* Cycles are travelled: what is counted, in RAM and in flash, with the session still open, is
\* never more than the state of charge has moved, through late loads, resets and reboots.
CyclesAreTravel ==
  /\ cache.cycles =< travel /\ Flash.cycles =< travel
  /\ lastDir # 0 => cache.cycles + Abs(cache.soc - cache.start) =< travel

\* A crash loses no more charge than was integrated since the last save that was stored: one
\* interval, and one more for each save refused since.  Not while a reset of the counter is under
\* way, not when one crossed the store or the save of a sum or had its write refused, up to the
\* next save that is stored, and not in safe mode, which loads no counter.
ChargeLossBounded ==
  \/ safe \/ raced \/ \E t \in Client : At1(t, "charge", "save")
  \/ Abs(charge - chargeNvs) =< Most * (age + Interval * missed)

\* Once the version key of a blob is in flash, what was configured with success is what the next
\* boot reads: bindings, profiles, and how many slots are in use, whatever was refused before.
ConfigurationDurable ==
  ~ safe =>
     /\ bindOk /\ bindVer => BindingRead = bind
     /\ tableOk /\ tableVer => TableRead = table /\ PopulatedBy(TableRead) = populated

\* Where the battery namespaces open, flash comes to agree with the counter for good once
\* commands, crashes and refused saves are over, whatever copies of it were on their way.
FlashFollowsRam == opens => <>[](loaded => Flash.cycles = cache.cycles)
=============================================================================
