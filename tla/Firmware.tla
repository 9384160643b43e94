------------------------------ MODULE Firmware ------------------------------
(***************************************************************************)
(* Boot, crash counter and over-the-air updates of the device:             *)
(* init_device_identity() and setup(), the state machine of                *)
(* loop_ota_client() in src/ota_client.cpp, the confirmation by the sensor *)
(* task and the restarts of every front end, against the release table of  *)
(* backend/internal/ota.go and the ESP-IDF bootloader with roll-back.      *)
(* Each step of the client is one call of loop_ota_client(); the device    *)
(* may reset between any two steps, inside the apply step and between the  *)
(* two puts of a boot, and a put of NVS may fail: nobody looks at its      *)
(* result.                                                                 *)
(***************************************************************************)
EXTENDS Naturals, FiniteSets

CONSTANTS
  MaxVersion,  \* versions released: 1 .. MaxVersion
  Size,        \* chunks of an image
  Grace,       \* OTA_GRACE_SECONDS, in clock ticks
  CrashLimit,  \* crash count that means safe mode: 5
  MaxResets,   \* resets of any kind, in all
  MaxSlips     \* boots cut short and puts that fail, before a put may fail no more

ASSUME FirmwareAssumption ==
  /\ MaxVersion \in Nat \ {0} /\ Size \in Nat \ {0} /\ Grace \in Nat
  /\ CrashLimit \in Nat /\ MaxResets \in Nat /\ MaxSlips \in Nat

Slot    == {0, 1}
Version == 1 .. MaxVersion
Image   == [ver : 0 .. MaxVersion, whole : BOOLEAN]   \* 0: an erased slot
NoImage == [ver |-> 0, whole |-> FALSE]

VARIABLES
  release,     \* ota_releases, the newest row: its version, and whether size and sha256 fit the binary
  released,    \* the versions of all rows
  slot,        \* the two application partitions
  img,         \* what otadata says of each: "undefined", "new", "pending", "valid", "aborted"
  otadata,     \* the partition otadata selects
  crashCount,  \* NVS crash_count
  clean,       \* NVS clean_boot_flag
  running,     \* the partition that runs
  boot,        \* where setup() is: "count" and "flag" in init_device_identity(), then "up"
  safe,        \* setup() takes the safe-mode branch: what it will find in g_crash_count
  uptime,      \* ticks since boot, up to Grace
  confirmed,   \* sensorTask: static ota_confirmed
  wifi,        \* WiFi.status() == WL_CONNECTED
  ota,         \* the static state of ota_client.cpp
  restarting,  \* a task is between mark_clean_shutdown() and ESP.restart()
  resets,      \* resets so far
  marked,      \* history: mark_clean_shutdown() ran in this boot, and nothing erased it
  unmarked,    \* history: boots since the last erased NVS that followed no mark_clean_shutdown()
  slips        \* history: since then, the boots cut before "up" and the puts that failed

flash  == <<slot, img, otadata>>
nvs    == <<crashCount, clean>>
life   == <<running, boot, safe>>
ram    == <<life, uptime, confirmed, restarting>>
ghosts == <<resets, marked, unmarked, slips>>
backend == <<release, released>>
vars   == <<backend, flash, nvs, ram, wifi, ota, ghosts>>

\* got: chunks written; fit: the bytes so far are those of the release.
OtaState == [state : {"idle", "checking", "downloading", "applying", "ended", "rebooting"},
             ver : 0 .. MaxVersion, fit : BOOLEAN, got : 0 .. Size + 1,
             http : BOOLEAN, handle : BOOLEAN, sha : BOOLEAN]

\* cleanup_download() and init_ota_client().
Idle == [state |-> "idle", ver |-> 0, fit |-> FALSE, got |-> 0,
         http |-> FALSE, handle |-> FALSE, sha |-> FALSE]

TypeOK ==
  /\ release \in [ver : 0 .. MaxVersion, fit : BOOLEAN] /\ released \subseteq Version
  /\ slot \in [Slot -> Image] /\ otadata \in Slot
  /\ img \in [Slot -> {"undefined", "new", "pending", "valid", "aborted"}]
  /\ crashCount \in 0 .. MaxResets + 1 /\ clean \in BOOLEAN
  /\ boot \in {"count", "flag", "up"} /\ running \in Slot /\ safe \in BOOLEAN /\ uptime \in 0 .. Grace /\ confirmed \in BOOLEAN
  /\ wifi \in BOOLEAN /\ ota \in OtaState
  /\ restarting \in BOOLEAN /\ marked \in BOOLEAN
  /\ resets \in 0 .. MaxResets /\ unmarked \in 0 .. MaxResets + 1
  /\ slips \in 0 .. MaxSlips + MaxResets

\* The factory image, in its first boot, which finds no flag and so counts as a crash.
Init ==
  /\ release = [ver |-> 0, fit |-> FALSE] /\ released = {}
  /\ slot = [s \in Slot |-> IF s = 0 THEN [ver |-> 1, whole |-> TRUE] ELSE NoImage]
  /\ img = [s \in Slot |-> IF s = 0 THEN "valid" ELSE "undefined"]
  /\ otadata = 0 /\ running = 0
  /\ crashCount = 0 /\ clean = FALSE
  /\ boot = "count" /\ safe = FALSE
  /\ uptime = 0 /\ confirmed = FALSE /\ wifi = FALSE
  /\ ota = Idle
  /\ restarting = FALSE
  /\ resets = 0 /\ marked = FALSE /\ unmarked = 1 /\ slips = 0

-----------------------------------------------------------------------------
(* Boot.                                                                    *)

Other(s) == 1 - s

\* The bootloader: a new image runs on probation, one that did not get confirmed is given up.
BootSlot == IF img[otadata] \in {"pending", "aborted"} THEN Other(otadata) ELSE otadata
Bootloader ==
  /\ running' = BootSlot
  /\ otadata' = BootSlot
  /\ img' = [img EXCEPT ![otadata] = CASE @ = "new" -> "pending"
                                       [] @ = "pending" -> "aborted"
                                       [] OTHER -> @]
  /\ UNCHANGED slot

\* A put of a key in NVS, which may fail: settings_save_u32() and settings_save_bool() return nothing.
Put(key, value) ==
  \/ key' = value /\ UNCHANGED slips
  \/ key' = key /\ slips < MaxSlips /\ slips' = slips + 1

\* Any reset: ESP.restart(), a fault or a loss of power, which may come at any time.
Reset ==
  /\ resets < MaxResets /\ resets' = resets + 1
  /\ Bootloader
  /\ boot' = "count" /\ safe' = FALSE
  /\ uptime' = 0 /\ confirmed' = FALSE /\ restarting' = FALSE /\ ota' = Idle
  /\ wifi' = FALSE /\ UNCHANGED <<backend, nvs>>
  /\ unmarked' = IF marked THEN unmarked ELSE unmarked + 1
  /\ marked' = FALSE
  /\ slips' = IF boot = "up" THEN slips ELSE slips + 1

\* init_device_identity(), first put: the crash count, one more if the flag is not set.  What
\* setup() will do is decided by the count in RAM.
CountBoot ==
  /\ boot = "count" /\ boot' = "flag"
  /\ LET count == IF clean THEN crashCount ELSE crashCount + 1
     IN  Put(crashCount, count) /\ safe' = (count >= CrashLimit)
  /\ UNCHANGED <<backend, flash, clean, running, uptime, confirmed, restarting, wifi, ota, resets, marked, unmarked>>

\* Mutant: the flag is left as it was read.
ClearFlagNever ==
  /\ boot = "flag" /\ boot' = "up"
  /\ UNCHANGED <<backend, flash, nvs, running, safe, uptime, confirmed, restarting, wifi, ota, ghosts>>

\* Second put: the flag.  Then setup() starts the tasks, or the console's alone.
ClearFlag ==
  /\ boot = "flag" /\ boot' = "up"
  /\ Put(clean, FALSE)
  /\ UNCHANGED <<backend, flash, crashCount, running, safe, uptime, confirmed, restarting, wifi, ota, resets, marked, unmarked>>

\* The tasks run, and the console and the network among them.
Up     == boot = "up"
Online == Up /\ ~ safe

\* mark_clean_shutdown(); ESP.restart() is then due.
Mark ==
  /\ ~ restarting /\ restarting' = TRUE
  /\ Put(clean, TRUE) /\ marked' = TRUE
  /\ UNCHANGED <<backend, flash, crashCount, life, uptime, confirmed, wifi, ota, resets, unmarked>>

\* A planned restart marks itself first: the "reboot" of the console and of BLE.
Reboot == Online /\ Mark

\* settings_factory_reset() erases the namespace of both values.  The console then marks and
\* restarts (Reboot); the remote command and the button restart without the mark; BLE does not restart.
FactoryReset ==
  /\ Online
  /\ crashCount' = 0 /\ clean' = FALSE
  /\ unmarked' = 0 /\ marked' = FALSE /\ slips' = 0
  /\ UNCHANGED <<backend, flash, ram, wifi, ota, resets>>

-----------------------------------------------------------------------------
(* The sensor task.                                                         *)

Tick ==
  /\ Up /\ uptime < Grace /\ uptime' = uptime + 1
  /\ UNCHANGED <<backend, flash, nvs, life, confirmed, restarting, wifi, ota, ghosts>>

\* ota_confirm_valid(), called in the first pass of sensorTask and in no other.
ConfirmValid ==
  /\ Up /\ ~ confirmed /\ confirmed' = TRUE
  /\ \/ /\ uptime >= Grace /\ img[running] = "pending"
        /\ img' = [img EXCEPT ![running] = "valid"]
     \/ UNCHANGED img     \* too early, not on probation, or an error
  /\ UNCHANGED <<backend, slot, otadata, nvs, life, uptime, restarting, wifi, ota, ghosts>>

-----------------------------------------------------------------------------
(* The backend.                                                             *)

\* CreateRelease: a version has one row at most, and the newest row is the one that is offered.
CreateRelease ==
  /\ \E v \in Version \ released, f \in BOOLEAN :
        release' = [ver |-> v, fit |-> f] /\ released' = released \cup {v}
  /\ UNCHANGED <<flash, nvs, ram, wifi, ota, ghosts>>

\* Mutant: the newest release is offered, whatever the device runs.
OfferedAlways == release.ver > 0

\* CheckOTA: semverGreater on the version the device says it runs.
Offered == release.ver > slot[running].ver

-----------------------------------------------------------------------------
(* loop_ota_client(), on the network task, which safe mode does not start.  *)

Loop(state) == Online /\ wifi /\ ota.state = state
ClientOnly  == UNCHANGED <<backend, nvs, ram, wifi, ghosts>>

\* WiFi comes and goes.
WifiTurns(on) ==
  /\ Online /\ wifi = ~ on /\ wifi' = on
  /\ UNCHANGED <<backend, flash, nvs, ram, ota, ghosts>>
WifiUp   == WifiTurns(TRUE)
WifiDown == WifiTurns(FALSE)

\* The poll timer, and ota_trigger_check() which the same task calls.
StartCheck ==
  /\ Online /\ ota.state = "idle"
  /\ ota' = [ota EXCEPT !.state = "checking"]
  /\ UNCHANGED flash /\ ClientOnly

\* Every early return before the download: no backend URL, request or answer failed, no update.
CheckFails ==
  /\ Loop("checking")
  /\ ota' = [ota EXCEPT !.state = "idle"]
  /\ UNCHANGED flash /\ ClientOnly

\* An update is offered and the download is opened.  The version announced fits the binary or not.
BeginDownload ==
  /\ Loop("checking") /\ Offered
  /\ \/ ota' = Idle /\ UNCHANGED flash       \* GET failed, no partition, esp_ota_begin failed
     \/ /\ img[running] # "pending"          \* else ESP_ERR_OTA_ROLLBACK_INVALID_STATE
        /\ ota' = [state |-> "downloading", ver |-> release.ver, fit |-> release.fit, got |-> 0,
                   http |-> TRUE, handle |-> TRUE, sha |-> TRUE]
        /\ slot' = [slot EXCEPT ![Other(running)] = NoImage]
        /\ UNCHANGED <<img, otadata>>
  /\ ClientOnly

\* One chunk is written to the other partition; the stream may hold more than announced.
WriteChunk ==
  /\ Loop("downloading") /\ ota.got <= Size
  /\ \E last \in {1, 2} :
        /\ ota.got + last <= Size + 1
        /\ ota' = [ota EXCEPT !.got = @ + last,
                              !.state = IF ota.got + last >= Size THEN "applying" ELSE @]
        /\ slot' = [slot EXCEPT ![Other(running)] =
                      [ver |-> ota.ver, whole |-> ota.fit /\ ota.got + last = Size]]
  /\ UNCHANGED <<img, otadata>> /\ ClientOnly

\* Mutant: the five minutes are not counted.
NoDataWaiting == Loop("downloading") /\ UNCHANGED vars

\* No more data: the connection is lost, a write fails or the five minutes are over.
NoData ==
  /\ Loop("downloading")
  /\ ota' = Idle
  /\ UNCHANGED flash /\ ClientOnly

\* Mutant: a failed check leaves the update handle open.
VerifyLeaking ==
  /\ Loop("applying")
  /\ \/ /\ ~ (ota.fit /\ ota.got = Size)
        /\ ota' = [ota EXCEPT !.state = "idle"]
     \/ /\ ota.fit /\ ota.got = Size
        /\ \/ ota' = [ota EXCEPT !.state = "ended", !.handle = FALSE, !.sha = FALSE]
           \/ ota' = Idle
  /\ UNCHANGED flash /\ ClientOnly

\* Mutant: the hash is compared after the image was taken.
VerifyNothing ==
  /\ Loop("applying")
  /\ ota' = [ota EXCEPT !.state = "ended", !.handle = FALSE, !.sha = FALSE]
  /\ UNCHANGED flash /\ ClientOnly

\* APPLYING: size, then SHA-256, else esp_ota_abort(); then esp_ota_end(), which may fail.
Verify ==
  /\ Loop("applying")
  /\ \/ ota' = Idle
     \/ /\ ota.got = Size /\ ota.fit
        /\ ota' = [ota EXCEPT !.state = "ended", !.handle = FALSE, !.sha = FALSE]
  /\ UNCHANGED flash /\ ClientOnly

\* esp_ota_set_boot_partition(), in the same call of loop_ota_client().
SetBoot ==
  /\ ota.state = "ended"
  /\ \/ ota' = Idle /\ UNCHANGED flash
     \/ /\ otadata' = Other(running)
        /\ img' = [img EXCEPT ![Other(running)] = "new"]
        /\ ota' = [ota EXCEPT !.state = "rebooting", !.http = FALSE]
        /\ UNCHANGED slot
  /\ ClientOnly

\* mark_clean_shutdown() and cleanup_download(); ESP.restart() is then due.
OtaRestart == Online /\ ota.state = "rebooting" /\ Mark

Next ==
  \/ Reset \/ CountBoot \/ ClearFlag \/ Reboot \/ FactoryReset
  \/ Tick \/ ConfirmValid \/ CreateRelease \/ WifiUp \/ WifiDown \/ StartCheck
  \/ CheckFails \/ BeginDownload \/ WriteChunk \/ NoData \/ Verify \/ SetBoot \/ OtaRestart

Spec == Init /\ [][Next]_vars

\* The network task runs its loop and WiFi comes back; nothing is assumed of the server's data.
FairSpec ==
  /\ Spec
  /\ WF_vars(WifiUp) /\ SF_vars(NoData) /\ SF_vars(Verify)
  /\ WF_vars(SetBoot) /\ WF_vars(OtaRestart)

-----------------------------------------------------------------------------
(* Properties.                                                              *)

\* Whatever is downloaded, cut short or reset, the partition that runs and the one the
\* bootloader would fall back to during probation are whole: only a verified image is selected.
BootsWholeImage ==
  /\ slot[running].whole
  /\ slot[BootSlot].whole
  /\ img[running] = "pending" => slot[Other(running)].whole

\* The download's connection, update handle and hash are held exactly while a download is under
\* way: no error path of the nine keeps one, no check starts over one.
DownloadHoldsItsHandles ==
  /\ ota.http <=> ota.state \in {"downloading", "applying", "ended"}
  /\ ota.handle <=> ota.state \in {"downloading", "applying"}
  /\ ota.sha <=> ota.state \in {"downloading", "applying"}

\* The running version only goes down by the roll-back of an image that was not confirmed.
OnlyRollbackDowngrades ==
  [][slot'[running'].ver < slot[running].ver => img[running] = "pending" /\ img'[running] = "aborted"]_vars

\* Crash accounting: the count in NVS is that of the boots that no mark_clean_shutdown() preceded,
\* one more or less for each boot that was itself cut before both puts were made and for each put
\* that failed; so without those safe mode is entered after CrashLimit of them and no sooner, and
\* a planned restart does not bring it nearer.
CountsUnmarkedBoots ==
  /\ boot # "count" => crashCount =< unmarked + slips /\ unmarked =< crashCount + slips
  /\ safe => unmarked + slips >= CrashLimit
  /\ boot # "count" /\ ~ safe => unmarked < CrashLimit + slips

\* A download ends: it fails or the device restarts into the new image, if WiFi keeps coming back.
DownloadEnds ==
  (ota.state \in {"downloading", "applying", "ended"}) ~> (ota.state \in {"idle", "rebooting"})
=============================================================================
