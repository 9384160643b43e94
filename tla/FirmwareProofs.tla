--------------------------- MODULE FirmwareProofs ---------------------------
(***************************************************************************)
(* What is proved of Firmware for every number of versions, chunks and     *)
(* resets, every grace period and every crash limit.                       *)
(***************************************************************************)
EXTENDS Firmware, TLAPS

Near(a, b) == a =< b + slips /\ b =< a + slips
Close(a, b) == a < b + slips /\ b < a + slips

\* Crash accounting, with what makes it inductive.  A boot that has not been counted is one more
\* unless the flag is set; a flag that is not what the history of marks says is a slip already.
Accounting ==
  /\ boot = "count" => /\ clean => Near(crashCount, unmarked)
                       /\ ~ clean => Near(crashCount + 1, unmarked)
                       /\ crashCount =< resets /\ ~ safe
  /\ boot # "count" => /\ Near(crashCount, unmarked)
                       /\ ~ safe => CrashLimit > 0 /\ unmarked < CrashLimit + slips
  /\ boot # "up" => ~ marked
  /\ boot = "up" /\ clean # marked => Close(crashCount, unmarked)
  /\ safe => unmarked + slips >= CrashLimit
  /\ crashCount =< resets + 1 /\ unmarked =< resets + 1 /\ slips =< MaxSlips + resets

\* The partition that runs was booted: it is whole, and on probation only beside a whole
\* partition to fall back to, which is not on probation itself.
Booted ==
  /\ slot[running].whole
  /\ img[running] \in {"undefined", "valid", "pending"}
  /\ img[running] = "pending" => /\ slot[Other(running)].whole
                                 /\ img[Other(running)] \in {"undefined", "valid"}

Loading == ota.state \in {"downloading", "applying", "ended", "rebooting"}

\* The other partition holds what has been written of the newer version under way, and is selected
\* only when that is all of it.
Loaded ==
  /\ Loading => img[running] # "pending" /\ ota.ver > slot[running].ver
  /\ ota.state \in {"downloading", "applying"} /\ ota.got > 0 =>
       slot[Other(running)] = [ver |-> ota.ver, whole |-> ota.fit /\ ota.got = Size]
  /\ ota.state = "applying" => ota.got > 0
  /\ ota.state \in {"ended", "rebooting"} => slot[Other(running)] = [ver |-> ota.ver, whole |-> TRUE]
  /\ \/ otadata = running
     \/ otadata = Other(running) /\ img[otadata] = "new" /\ ota.state = "rebooting"

FirmwareInvariant == TypeOK /\ Accounting /\ Booted /\ Loaded /\ DownloadHoldsItsHandles

-----------------------------------------------------------------------------
LEMMA Others == \A s \in Slot : Other(s) \in Slot /\ Other(s) # s /\ Other(Other(s)) = s
  BY DEF Slot, Other

LEMMA IdleTyped == Idle \in OtaState
  BY FirmwareAssumption DEF Idle, OtaState

LEMMA Sums ==
  ASSUME NEW a \in Nat, NEW m \in Nat, NEW n \in Nat, NEW r \in Nat, n =< a + r, r =< m
  PROVE  n \in 0 .. a + m
  OBVIOUS

LEMMA InvariantInit == Init => FirmwareInvariant
<1> SUFFICES ASSUME Init PROVE FirmwareInvariant
  OBVIOUS
<1> USE FirmwareAssumption DEF Init
<1>1. TypeOK
  <2>1. slot \in [Slot -> Image]
    BY DEF Slot, Image, NoImage
  <2>2. ota \in OtaState /\ otadata \in Slot /\ running \in Slot
    BY IdleTyped DEF Slot
  <2>3. /\ safe \in BOOLEAN /\ boot \in {"count", "flag", "up"}
        /\ release \in [ver : 0 .. MaxVersion, fit : BOOLEAN]
    <3>1. [ver |-> 0, fit |-> FALSE] \in [ver : 0 .. MaxVersion, fit : BOOLEAN]
      OBVIOUS
    <3> QED
      BY <3>1
  <2>4. /\ crashCount \in 0 .. MaxResets + 1 /\ unmarked \in 0 .. MaxResets + 1
        /\ resets \in 0 .. MaxResets /\ uptime \in 0 .. Grace
    OBVIOUS
  <2>6. slips \in 0 .. MaxSlips + MaxResets
    BY Sums
  <2>5. img \in [Slot -> {"undefined", "new", "pending", "valid", "aborted"}]
    OBVIOUS
  <2> QED
    BY <2>1, <2>2, <2>3, <2>4, <2>5, <2>6 DEF TypeOK
<1>2. Accounting
  BY DEF Accounting, Near
<1>3. Booted /\ Loaded
  BY DEF Booted, Loaded, Loading, Slot, Idle
<1>4. DownloadHoldsItsHandles
  BY DEF DownloadHoldsItsHandles, Idle
<1> QED
  BY <1>1, <1>2, <1>3, <1>4 DEF FirmwareInvariant

\* What the accounting speaks about, typed.
LEMMA Counters ==
  ASSUME TypeOK
  PROVE  /\ crashCount \in Nat /\ unmarked \in Nat /\ slips \in Nat /\ resets \in Nat
         /\ CrashLimit \in Nat /\ MaxResets \in Nat /\ MaxSlips \in Nat
         /\ clean \in BOOLEAN /\ marked \in BOOLEAN /\ safe \in BOOLEAN
         /\ boot \in {"count", "flag", "up"}
  BY FirmwareAssumption DEF TypeOK

LEMMA PutTypes ==
  ASSUME clean \in BOOLEAN, slips \in Nat, NEW value \in BOOLEAN, Put(clean, value)
  PROVE  clean' \in BOOLEAN /\ slips' \in Nat
<1>1. clean' = value \/ clean' = clean
  BY DEF Put
<1>2. slips' = slips \/ slips' = slips + 1
  BY DEF Put
<1> QED
  BY <1>1, <1>2

LEMMA ResetCounts == TypeOK /\ Accounting /\ Reset => Accounting'
<1> SUFFICES ASSUME TypeOK, Accounting, Reset PROVE Accounting'
  OBVIOUS
<1>1. /\ crashCount' = crashCount /\ clean' = clean /\ resets' = resets + 1
      /\ boot' = "count" /\ safe' = FALSE /\ marked' = FALSE
      /\ unmarked' = IF marked THEN unmarked ELSE unmarked + 1
      /\ slips' = IF boot = "up" THEN slips ELSE slips + 1
  BY DEF Reset, nvs
<1>2. (clean => Near(crashCount, unmarked))' /\ (~ clean => Near(crashCount + 1, unmarked))'
  <2>1. CASE boot = "up"
    <3>1. CASE clean = marked
      BY <1>1, <2>1, <3>1, Counters DEF Accounting, Near
    <3>2. CASE clean # marked
      BY <1>1, <2>1, <3>2, Counters DEF Accounting, Near, Close
    <3> QED
      BY <3>1, <3>2
  <2>2. CASE boot = "flag"
    BY <1>1, <2>2, Counters DEF Accounting, Near
  <2>3. CASE boot = "count"
    BY <1>1, <2>3, Counters DEF Accounting, Near
  <2> QED
    BY <2>1, <2>2, <2>3, Counters
<1>3. crashCount' =< resets' /\ unmarked' =< resets' + 1 /\ slips' =< MaxSlips + resets'
  BY <1>1, Counters DEF Accounting
<1> QED
  BY <1>1, <1>2, <1>3, Counters DEF Accounting

LEMMA CountStep == TypeOK /\ Accounting /\ CountBoot => Accounting'
<1> SUFFICES ASSUME TypeOK, Accounting, CountBoot PROVE Accounting'
  OBVIOUS
<1> DEFINE count == IF clean THEN crashCount ELSE crashCount + 1
<1>1. /\ boot = "count" /\ boot' = "flag" /\ safe' = (count >= CrashLimit)
      /\ UNCHANGED <<clean, resets, marked, unmarked>>
      /\ \/ crashCount' = count /\ slips' = slips
         \/ crashCount' = crashCount /\ slips < MaxSlips /\ slips' = slips + 1
  BY DEF CountBoot, Put
<1>2. count \in Nat /\ count =< unmarked + slips /\ unmarked =< count + slips /\ ~ marked
  BY <1>1, Counters DEF Accounting, Near
<1>3. /\ slips' \in Nat /\ slips' >= slips /\ slips' =< MaxSlips + resets
      /\ crashCount' \in Nat /\ crashCount' =< resets + 1
  BY <1>1, <1>2, Counters DEF Accounting
<1>4. crashCount' =< unmarked + slips' /\ unmarked =< crashCount' + slips'
  <2>1. crashCount =< count /\ count =< crashCount + 1
    BY Counters
  <2> HIDE DEF count
  <2> QED
    BY <1>1, <1>2, <2>1, Counters
<1> HIDE DEF count
<1>5. safe' => unmarked + slips' >= CrashLimit
  <2>1. safe' => count >= CrashLimit
    BY <1>1, Zenon
  <2>2. count >= CrashLimit => unmarked + slips' >= CrashLimit
    BY <1>2, <1>3, Counters
  <2> QED
    BY <2>1, <2>2
<1>6. ~ safe' => CrashLimit > 0 /\ unmarked < CrashLimit + slips'
  <2>1. ~ safe' => ~ (count >= CrashLimit)
    BY <1>1, Zenon
  <2>2. ~ (count >= CrashLimit) => CrashLimit > 0 /\ unmarked < CrashLimit + slips'
    BY <1>2, <1>3, Counters
  <2> QED
    BY <2>1, <2>2
<1>7. unmarked' = unmarked /\ resets' = resets /\ marked' = marked
  BY <1>1
<1>8. unmarked =< resets + 1
  BY DEF Accounting
<1> QED
  BY <1>1, <1>2, <1>3, <1>4, <1>5, <1>6, <1>7, <1>8 DEF Accounting, Near

\* The put of the flag, whether at the end of a boot or by a mark.
LEMMA FlagStep ==
  ASSUME TypeOK, Accounting, boot \in {"flag", "up"}, boot' = "up", NEW value \in BOOLEAN,
         Put(clean, value), marked' = value,
         UNCHANGED <<crashCount, safe, resets, unmarked>>
  PROVE  Accounting'
<1>1. \/ clean' = value /\ slips' = slips
      \/ clean' = clean /\ slips < MaxSlips /\ slips' = slips + 1
  BY DEF Put
<1>2. CASE clean' = value /\ slips' = slips
  BY <1>2, Counters DEF Accounting, Near
<1>3. CASE clean' = clean /\ slips < MaxSlips /\ slips' = slips + 1
  <2>1. /\ Near(crashCount, unmarked)' /\ Close(crashCount, unmarked)'
        /\ slips' =< MaxSlips + resets'
    BY <1>3, Counters DEF Accounting, Near, Close
  <2>2. safe' => unmarked' + slips' >= CrashLimit
    BY <1>3, Counters DEF Accounting
  <2>3. ~ safe' => CrashLimit > 0 /\ unmarked' < CrashLimit + slips'
    BY <1>3, Counters DEF Accounting
  <2> QED
    BY <2>1, <2>2, <2>3, Counters DEF Accounting
<1> QED
  BY <1>1, <1>2, <1>3

LEMMA AccountingStep == TypeOK /\ Accounting /\ [Next]_vars => Accounting'
<1> SUFFICES ASSUME TypeOK, Accounting, [Next]_vars PROVE Accounting'
  OBVIOUS
<1>1. CASE Reset \/ CountBoot
  BY <1>1, ResetCounts, CountStep
<1>2. CASE ClearFlag
  <2>1. ~ marked
    BY <1>2 DEF ClearFlag, Accounting
  <2>2. marked = FALSE
    BY <2>1, Counters
  <2> QED
    BY <1>2, <2>2, FlagStep DEF ClearFlag
<1>3. CASE Reboot \/ OtaRestart
  <2>1. boot = "up"
    BY <1>3 DEF Reboot, Online, Up, OtaRestart
  <2> QED
    BY <1>3, <2>1, FlagStep DEF Reboot, OtaRestart, Mark, life
<1>4. CASE FactoryReset
  <2>1. /\ boot = "up" /\ ~ safe /\ UNCHANGED <<boot, safe, resets>>
        /\ crashCount' = 0 /\ unmarked' = 0 /\ slips' = 0 /\ clean' = FALSE /\ marked' = FALSE
    BY <1>4 DEF FactoryReset, Online, Up, ram, life
  <2> QED
    <3>1. CrashLimit > 0 /\ CrashLimit \in Nat /\ MaxSlips + resets >= 0 /\ resets \in Nat
      BY <2>1, Counters DEF Accounting
    <3>3. clean' = marked' /\ ~ safe'
      BY <2>1
    <3>2. Near(crashCount, unmarked)'
      BY <2>1 DEF Near
    <3> QED
      <4>1. crashCount' =< resets' + 1 /\ unmarked' =< resets' + 1 /\ slips' =< MaxSlips + resets'
        BY <2>1, <3>1
      <4>2. unmarked' < CrashLimit + slips'
        BY <2>1, <3>1
      <4> QED
        BY <2>1, <3>1, <3>2, <3>3, <4>1, <4>2 DEF Accounting
<1>5. ASSUME UNCHANGED <<nvs, boot, safe, ghosts>> PROVE Accounting'
  BY <1>5 DEF nvs, ghosts, Accounting, Near, Close
<1>6. CASE Tick \/ ConfirmValid \/ CreateRelease \/ WifiUp \/ WifiDown \/ UNCHANGED vars
  BY <1>5, <1>6 DEF Tick, ConfirmValid, CreateRelease, WifiUp, WifiDown, WifiTurns, vars, ram, life
<1>7. CASE StartCheck \/ CheckFails \/ BeginDownload \/ WriteChunk \/ NoData \/ Verify \/ SetBoot
  <2>1. ClientOnly
    BY <1>7 DEF StartCheck, CheckFails, BeginDownload, WriteChunk, NoData, Verify, SetBoot
  <2> QED
    BY <1>5, <2>1 DEF ClientOnly, ram, life
<1> QED
  BY <1>1, <1>2, <1>3, <1>4, <1>6, <1>7 DEF Next

\* The client's state stays typed, and so does what it does to the partitions.
LEMMA ClientTypes ==
  ASSUME TypeOK, StartCheck \/ CheckFails \/ BeginDownload \/ WriteChunk \/ NoData \/ Verify \/ SetBoot
  PROVE  /\ ota' \in OtaState /\ slot' \in [Slot -> Image] /\ otadata' \in Slot
         /\ img' \in [Slot -> {"undefined", "new", "pending", "valid", "aborted"}]
         /\ ClientOnly
<1>1. /\ ota \in OtaState /\ slot \in [Slot -> Image] /\ otadata \in Slot /\ running \in Slot
      /\ img \in [Slot -> {"undefined", "new", "pending", "valid", "aborted"}]
      /\ release \in [ver : 0 .. MaxVersion, fit : BOOLEAN]
  BY DEF TypeOK
<1>2. CASE StartCheck \/ CheckFails
  BY <1>1, <1>2 DEF StartCheck, CheckFails, OtaState, flash
<1>3. CASE NoData
  BY <1>1, <1>3, IdleTyped DEF NoData, flash
<1>4. CASE Verify
  <2>1. ota' \in OtaState
    BY <1>1, <1>4, IdleTyped DEF Verify, OtaState
  <2> QED
    BY <1>1, <1>4, <2>1 DEF Verify, flash
<1>5. CASE BeginDownload
  <2>1. ota' \in OtaState
    <3>1. CASE ota' = Idle
      BY <3>1, IdleTyped
    <3>2. CASE ota' = [state |-> "downloading", ver |-> release.ver, fit |-> release.fit, got |-> 0,
                       http |-> TRUE, handle |-> TRUE, sha |-> TRUE]
      BY <1>1, <3>2, FirmwareAssumption DEF OtaState
    <3> QED
      BY <1>5, <3>1, <3>2 DEF BeginDownload
  <2>2. slot' \in [Slot -> Image]
    <3>1. NoImage \in Image
      BY FirmwareAssumption DEF NoImage, Image
    <3>2. slot' = slot \/ slot' = [slot EXCEPT ![Other(running)] = NoImage]
      BY <1>5 DEF BeginDownload, flash
    <3> QED
      BY <1>1, <3>1, <3>2
  <2> QED
    BY <1>1, <1>5, <2>1, <2>2 DEF BeginDownload, flash
<1>6. CASE WriteChunk
  <2>1. PICK last \in {1, 2} :
          /\ ota.got + last <= Size + 1
          /\ ota' = [ota EXCEPT !.got = @ + last,
                                !.state = IF ota.got + last >= Size THEN "applying" ELSE @]
          /\ slot' = [slot EXCEPT ![Other(running)] = [ver |-> ota.ver, whole |-> ota.fit /\ ota.got + last = Size]]
    BY <1>6 DEF WriteChunk
  <2>2. ota' \in OtaState
    <3>1. ota.got + last \in 0 .. Size + 1
      BY <1>1, <2>1, FirmwareAssumption DEF OtaState
    <3>2. CASE ota.got + last >= Size
      <4>1. ota' = [ota EXCEPT !.got = ota.got + last, !.state = "applying"]
        BY <2>1, <3>2
      <4> QED
        BY <1>1, <3>1, <4>1 DEF OtaState
    <3>3. CASE ~ (ota.got + last >= Size)
      <4>1. ota' = [ota EXCEPT !.got = ota.got + last, !.state = ota.state]
        BY <2>1, <3>3
      <4> QED
        BY <1>1, <3>1, <4>1 DEF OtaState
    <3> QED
      BY <3>2, <3>3
  <2>3. [ver |-> ota.ver, whole |-> ota.fit /\ ota.got + last = Size] \in Image
    BY <1>1 DEF OtaState, Image
  <2>4. slot' \in [Slot -> Image]
    BY <1>1, <2>1, <2>3
  <2> QED
    BY <1>1, <1>6, <2>2, <2>4 DEF WriteChunk
<1>7. CASE SetBoot
  <2>1. ota' \in OtaState
    BY <1>1, <1>7, IdleTyped DEF SetBoot, OtaState
  <2> QED
    BY <1>1, <1>7, <2>1, Others DEF SetBoot, flash
<1> QED
  BY <1>2, <1>3, <1>4, <1>5, <1>6, <1>7

LEMMA TypeStep == TypeOK /\ Accounting /\ [Next]_vars => TypeOK'
<1> SUFFICES ASSUME TypeOK, Accounting, [Next]_vars PROVE TypeOK'
  OBVIOUS
<1>0. crashCount' =< resets' + 1 /\ unmarked' =< resets' + 1 /\ slips' =< MaxSlips + resets'
  BY AccountingStep DEF Accounting
<1>1. CASE Reset
  <2>1. running' \in Slot /\ otadata' \in Slot
    BY <1>1, Others DEF Reset, Bootloader, BootSlot, TypeOK
  <2>2. img' \in [Slot -> {"undefined", "new", "pending", "valid", "aborted"}] /\ slot' \in [Slot -> Image]
    BY <1>1 DEF Reset, Bootloader, TypeOK
  <2>3. ota' \in OtaState /\ uptime' \in 0 .. Grace
    BY <1>1, IdleTyped, FirmwareAssumption DEF Reset
  <2>4. /\ clean' \in BOOLEAN /\ confirmed' \in BOOLEAN /\ wifi' \in BOOLEAN /\ safe' \in BOOLEAN
        /\ restarting' \in BOOLEAN /\ marked' \in BOOLEAN /\ boot' \in {"count", "flag", "up"}
    BY <1>1 DEF Reset, nvs, TypeOK
  <2>5. /\ resets' \in 0 .. MaxResets /\ crashCount' \in Nat /\ unmarked' \in Nat /\ slips' \in Nat
    BY <1>1, Counters DEF Reset, nvs, TypeOK
  <2>6. /\ crashCount' \in 0 .. MaxResets + 1 /\ unmarked' \in 0 .. MaxResets + 1
        /\ slips' \in 0 .. MaxSlips + MaxResets
    <3>1. /\ MaxResets \in Nat /\ MaxSlips \in Nat
          /\ resets' \in Nat /\ resets' =< MaxResets /\ resets' + 1 =< MaxResets + 1
      BY <2>5, Counters
    <3>2. slips' \in 0 .. MaxSlips + MaxResets
      BY <1>0, <2>5, <3>1, Sums
    <3>3. \A n, r, m \in Nat : n =< r + 1 /\ r =< m => n \in 0 .. m + 1
      OBVIOUS
    <3>4. crashCount' \in 0 .. MaxResets + 1 /\ unmarked' \in 0 .. MaxResets + 1
      BY <1>0, <2>5, <3>1, <3>3
    <3> QED
      BY <3>2, <3>4
  <2>7. release' \in [ver : 0 .. MaxVersion, fit : BOOLEAN] /\ released' \subseteq Version
    BY <1>1 DEF Reset, backend, TypeOK
  <2> QED
    BY <2>1, <2>2, <2>3, <2>4, <2>5, <2>6, <2>7 DEF TypeOK
<1>2. ASSUME crashCount' \in Nat, slips' \in Nat, UNCHANGED <<resets, unmarked>>
      PROVE  crashCount' \in 0 .. MaxResets + 1 /\ slips' \in 0 .. MaxSlips + MaxResets
  BY <1>0, <1>2, Counters DEF TypeOK
<1>3. CASE CountBoot
  <2>1. crashCount' \in Nat /\ slips' \in Nat /\ safe' \in BOOLEAN
    BY <1>3, Counters DEF CountBoot, Put
  <2>2. crashCount' \in 0 .. MaxResets + 1 /\ slips' \in 0 .. MaxSlips + MaxResets
    BY <1>2, <1>3, <2>1 DEF CountBoot
  <2> QED
    BY <1>3, <2>1, <2>2 DEF TypeOK, CountBoot, backend, flash
<1>10. CASE ClearFlag \/ Reboot \/ OtaRestart
  <2>1. /\ slips' \in Nat /\ crashCount' \in Nat /\ clean' \in BOOLEAN /\ marked' \in BOOLEAN
        /\ UNCHANGED <<resets, unmarked>>
    <3>1. CASE ClearFlag
      BY <3>1, Counters, PutTypes DEF ClearFlag
    <3>2. CASE Mark
      BY <3>2, Counters, PutTypes DEF Mark
    <3> QED
      BY <1>10, <3>1, <3>2 DEF Reboot, OtaRestart
  <2>2. crashCount' \in 0 .. MaxResets + 1 /\ slips' \in 0 .. MaxSlips + MaxResets
    BY <1>2, <2>1
  <2>3. CASE ClearFlag
    BY <2>1, <2>2, <2>3 DEF TypeOK, ClearFlag, backend, flash
  <2>4. CASE Mark
    BY <2>1, <2>2, <2>4 DEF TypeOK, Mark, backend, flash, life
  <2> QED
    BY <1>10, <2>3, <2>4 DEF Reboot, OtaRestart
<1>11. CASE FactoryReset
  <2>1. /\ crashCount' = 0 /\ unmarked' = 0 /\ slips' = 0 /\ clean' = FALSE /\ marked' = FALSE
        /\ UNCHANGED <<backend, flash, ram, life, wifi, ota, resets>>
    BY <1>11 DEF FactoryReset, ram
  <2>2. /\ crashCount' \in 0 .. MaxResets + 1 /\ unmarked' \in 0 .. MaxResets + 1
        /\ slips' \in 0 .. MaxSlips + MaxResets
    BY <2>1, Counters
  <2> QED
    BY <2>1, <2>2 DEF TypeOK, backend, flash, ram, life
<1>4. CASE Tick
  BY <1>4, FirmwareAssumption DEF TypeOK, Tick, backend, flash, nvs, ghosts, life
<1>5. CASE WifiUp \/ WifiDown
  BY <1>5 DEF TypeOK, WifiUp, WifiDown, WifiTurns, backend, flash, nvs, ram, ghosts, life
<1>6. CASE ConfirmValid
  BY <1>6 DEF TypeOK, ConfirmValid, backend, nvs, ghosts, life
<1>7. CASE CreateRelease
  BY <1>7 DEF TypeOK, CreateRelease, Version, flash, nvs, ram, ghosts, life
<1>8. CASE StartCheck \/ CheckFails \/ BeginDownload \/ WriteChunk \/ NoData \/ Verify \/ SetBoot
  BY <1>8, ClientTypes DEF TypeOK, ClientOnly, backend, nvs, ram, ghosts, life
<1>9. CASE UNCHANGED vars
  BY <1>9 DEF TypeOK, vars, backend, flash, nvs, ram, ghosts, life
<1> QED
  BY <1>1, <1>3, <1>4, <1>5, <1>6, <1>7, <1>8, <1>9, <1>10, <1>11 DEF Next

LEMMA Releases ==
  ASSUME ota \in OtaState,
         \/ ota.http /\ ota' = [ota EXCEPT !.state = "ended", !.handle = FALSE, !.sha = FALSE]
         \/ /\ ota.state = "ended" /\ DownloadHoldsItsHandles
            /\ ota' = [ota EXCEPT !.state = "rebooting", !.http = FALSE]
  PROVE  DownloadHoldsItsHandles'
<1>1. CASE ota.http /\ ota' = [ota EXCEPT !.state = "ended", !.handle = FALSE, !.sha = FALSE]
  BY <1>1 DEF OtaState, DownloadHoldsItsHandles
<1>2. CASE /\ ota.state = "ended" /\ DownloadHoldsItsHandles
           /\ ota' = [ota EXCEPT !.state = "rebooting", !.http = FALSE]
  BY <1>2 DEF OtaState, DownloadHoldsItsHandles
<1> QED
  BY <1>1, <1>2

LEMMA HandlesStep == TypeOK /\ DownloadHoldsItsHandles /\ [Next]_vars => DownloadHoldsItsHandles'
<1> SUFFICES ASSUME ota \in OtaState, DownloadHoldsItsHandles, [Next]_vars PROVE DownloadHoldsItsHandles'
  BY DEF TypeOK
<1> USE DEF OtaState, DownloadHoldsItsHandles
<1>1. ASSUME ota' = Idle PROVE DownloadHoldsItsHandles'
  BY <1>1 DEF Idle
<1>2. CASE Reset \/ NoData
  BY <1>1, <1>2 DEF Reset, NoData
<1>3. ASSUME UNCHANGED ota PROVE DownloadHoldsItsHandles'
  BY <1>3
<1>4. CASE \/ Reboot \/ CountBoot \/ ClearFlag \/ FactoryReset \/ OtaRestart
           \/ Tick \/ ConfirmValid \/ CreateRelease \/ WifiUp \/ WifiDown \/ UNCHANGED vars
  BY <1>3, <1>4 DEF Reboot, CountBoot, ClearFlag, FactoryReset, OtaRestart, Mark, ram, life,
     Tick, ConfirmValid, CreateRelease, WifiUp, WifiDown, WifiTurns, vars
<1>5. CASE StartCheck \/ CheckFails
  BY <1>5 DEF StartCheck, CheckFails, Loop
<1>6. CASE BeginDownload
  BY <1>1, <1>6 DEF BeginDownload
<1>7. CASE WriteChunk
  BY <1>7 DEF WriteChunk, Loop
<1>8. CASE Verify
  <2>1. \/ ota' = Idle
        \/ ota.http /\ ota' = [ota EXCEPT !.state = "ended", !.handle = FALSE, !.sha = FALSE]
    BY <1>8 DEF Verify, Loop
  <2> HIDE DEF DownloadHoldsItsHandles, OtaState
  <2> QED
    BY <1>1, <2>1, Releases
<1>9. CASE SetBoot
  <2>1. \/ ota' = Idle
        \/ ota.state = "ended" /\ ota' = [ota EXCEPT !.state = "rebooting", !.http = FALSE]
    BY <1>9 DEF SetBoot
  <2> HIDE DEF DownloadHoldsItsHandles, OtaState
  <2> QED
    BY <1>1, <2>1, Releases
<1> QED
  BY <1>2, <1>4, <1>5, <1>6, <1>7, <1>8, <1>9 DEF Next

\* A boot: the selected partition is whole, and one that starts its probation has the partition
\* that ran before, whole and off probation, beside it.
LEMMA BootStep ==
  ASSUME TypeOK, Booted, Loaded, Reset
  PROVE  Booted' /\ Loaded'
<1>1. /\ running \in Slot /\ otadata \in Slot
      /\ img \in [Slot -> {"undefined", "new", "pending", "valid", "aborted"}]
      /\ Other(running) \in Slot /\ Other(running) # running /\ Other(Other(running)) = running
  BY Others DEF TypeOK
<1>2. /\ running' = BootSlot /\ otadata' = BootSlot /\ slot' = slot /\ ota' = Idle
      /\ img' = [img EXCEPT ![otadata] = CASE @ = "new" -> "pending" [] @ = "pending" -> "aborted" [] OTHER -> @]
  BY DEF Reset, Bootloader
<1>3. Loaded'
  BY <1>2 DEF Loaded, Loading, Idle
<1>4. CASE otadata = running /\ img[running] # "pending"
  <2>1. running' = running /\ img' = img
    BY <1>1, <1>2, <1>4 DEF BootSlot, Booted
  <2> QED
    BY <1>2, <1>3, <1>4, <2>1 DEF Booted
<1>5. CASE otadata = running /\ img[running] = "pending"
  <2>1. running' = Other(running) /\ img'[Other(running)] = img[Other(running)]
    BY <1>1, <1>2, <1>5 DEF BootSlot
  <2> QED
    BY <1>2, <1>3, <1>5, <2>1 DEF Booted
<1>6. CASE otadata = Other(running) /\ img[otadata] = "new" /\ ota.state = "rebooting"
  <2>1. running' = Other(running) /\ img'[Other(running)] = "pending" /\ img'[running] = img[running]
    BY <1>1, <1>2, <1>6 DEF BootSlot
  <2>2. slot[Other(running)].whole /\ img[running] # "pending"
    BY <1>6 DEF Loaded, Loading
  <2>3. Other(running') = running
    BY <1>1, <2>1
  <2> QED
    BY <1>1, <1>2, <1>3, <2>1, <2>2, <2>3 DEF Booted
<1> QED
  BY <1>3, <1>4, <1>5, <1>6 DEF Loaded

\* What the client does is done to the other partition.
LEMMA ClientStep ==
  ASSUME TypeOK, Booted, Loaded,
         StartCheck \/ CheckFails \/ BeginDownload \/ WriteChunk \/ NoData \/ Verify \/ SetBoot
  PROVE  Booted' /\ Loaded'
<1>1. /\ running \in Slot /\ ota \in OtaState /\ slot \in [Slot -> Image]
      /\ img \in [Slot -> {"undefined", "new", "pending", "valid", "aborted"}]
      /\ Other(running) \in Slot /\ Other(running) # running
  BY Others DEF TypeOK
<1>2. running' = running
  BY ClientTypes DEF ClientOnly, ram, life
<1>3. ASSUME UNCHANGED <<slot, img>> PROVE Booted'
  BY <1>2, <1>3 DEF Booted
<1>4. CASE StartCheck \/ CheckFails
  <2>1. ota.state \in {"idle", "checking"} /\ ota'.state \in {"idle", "checking"} /\ UNCHANGED <<slot, img, otadata>>
    BY <1>1, <1>4 DEF StartCheck, CheckFails, Loop, flash, OtaState
  <2> QED
    BY <1>2, <1>3, <2>1 DEF Loaded, Loading
<1>5. ASSUME ota' = Idle, UNCHANGED <<slot, img, otadata>>, ota.state # "rebooting" PROVE Loaded'
  BY <1>2, <1>5 DEF Loaded, Loading, Idle
<1>6. CASE NoData
  BY <1>3, <1>5, <1>6 DEF NoData, Loop, flash
<1>7. CASE BeginDownload
  <2>1. CASE ota' = Idle /\ UNCHANGED flash
    BY <1>3, <1>5, <1>7, <2>1 DEF BeginDownload, Loop, flash
  <2>2. CASE /\ img[running] # "pending"
             /\ ota' = [state |-> "downloading", ver |-> release.ver, fit |-> release.fit, got |-> 0,
                        http |-> TRUE, handle |-> TRUE, sha |-> TRUE]
             /\ slot' = [slot EXCEPT ![Other(running)] = NoImage] /\ UNCHANGED <<img, otadata>>
    <3>1. slot'[running] = slot[running] /\ release.ver > slot[running].ver /\ ota.state # "rebooting"
      BY <1>1, <1>7, <2>2 DEF BeginDownload, Loop, Offered
    <3>2. Loaded'
      BY <1>2, <2>2, <3>1 DEF Loaded, Loading
    <3> QED
      BY <1>2, <2>2, <3>1, <3>2 DEF Booted
  <2> QED
    BY <1>7, <2>1, <2>2 DEF BeginDownload
<1>8. CASE WriteChunk
  <2>1. PICK last \in {1, 2} :
          /\ ota.got + last <= Size + 1
          /\ ota' = [ota EXCEPT !.got = @ + last,
                                !.state = IF ota.got + last >= Size THEN "applying" ELSE @]
          /\ slot' = [slot EXCEPT ![Other(running)] = [ver |-> ota.ver, whole |-> ota.fit /\ ota.got + last = Size]]
    BY <1>8 DEF WriteChunk
  <2>2. ota.state = "downloading" /\ UNCHANGED <<img, otadata>> /\ img[running] # "pending" /\ ota.ver > slot[running].ver
    BY <1>8 DEF WriteChunk, Loop, Loaded, Loading
  <2>3. /\ ota'.got = ota.got + last /\ ota'.ver = ota.ver /\ ota'.fit = ota.fit
        /\ ota'.state \in {"downloading", "applying"}
    BY <1>1, <2>1, <2>2 DEF OtaState
  <2>4. /\ slot'[running] = slot[running]
        /\ slot'[Other(running)] = [ver |-> ota'.ver, whole |-> ota'.fit /\ ota'.got = Size]
    BY <1>1, <2>1, <2>3
  <2>5. ota'.got > 0
    BY <1>1, <2>1, <2>3 DEF OtaState
  <2>6. Loaded'
    BY <1>2, <2>2, <2>3, <2>4, <2>5 DEF Loaded, Loading
  <2> QED
    BY <1>2, <2>2, <2>4, <2>6 DEF Booted
<1>9. CASE Verify
  <2>1. UNCHANGED <<slot, img, otadata>> /\ ota.state = "applying"
    BY <1>9 DEF Verify, Loop, flash
  <2>2. CASE ota' = Idle
    BY <1>3, <1>5, <2>1, <2>2
  <2>3. CASE ota.got = Size /\ ota.fit /\ ota' = [ota EXCEPT !.state = "ended", !.handle = FALSE, !.sha = FALSE]
    <3>1. ota'.state = "ended" /\ ota'.ver = ota.ver
      BY <1>1, <2>3 DEF OtaState
    <3>2. slot[Other(running)] = [ver |-> ota.ver, whole |-> TRUE]
      BY <2>1, <2>3 DEF Loaded
    <3> QED
      BY <1>2, <1>3, <2>1, <3>1, <3>2 DEF Loaded, Loading
  <2> QED
    BY <1>9, <2>2, <2>3 DEF Verify
<1>10. CASE SetBoot
  <2>1. CASE ota' = Idle /\ UNCHANGED flash
    BY <1>3, <1>5, <1>10, <2>1 DEF SetBoot, flash
  <2>2. CASE /\ otadata' = Other(running) /\ img' = [img EXCEPT ![Other(running)] = "new"]
             /\ ota' = [ota EXCEPT !.state = "rebooting", !.http = FALSE] /\ UNCHANGED slot
    <3>1. ota'.state = "rebooting" /\ ota'.ver = ota.ver /\ img'[running] = img[running] /\ img'[Other(running)] = "new"
      BY <1>1, <2>2 DEF OtaState
    <3>2. img[running] # "pending" /\ ota.ver > slot[running].ver /\ slot[Other(running)] = [ver |-> ota.ver, whole |-> TRUE]
      BY <1>10 DEF SetBoot, Loaded, Loading
    <3>3. Loaded'
      BY <1>2, <2>2, <3>1, <3>2 DEF Loaded, Loading
    <3> QED
      BY <1>2, <2>2, <3>1, <3>2, <3>3 DEF Booted
  <2> QED
    BY <1>10, <2>1, <2>2 DEF SetBoot
<1> QED
  BY <1>4, <1>6, <1>7, <1>8, <1>9, <1>10

LEMMA ImagesStep == TypeOK /\ Booted /\ Loaded /\ [Next]_vars => Booted' /\ Loaded'
<1> SUFFICES ASSUME TypeOK, Booted, Loaded, [Next]_vars PROVE Booted' /\ Loaded'
  OBVIOUS
<1>1. CASE Reset
  BY <1>1, BootStep
<1>2. CASE StartCheck \/ CheckFails \/ BeginDownload \/ WriteChunk \/ NoData \/ Verify \/ SetBoot
  BY <1>2, ClientStep
<1>3. ASSUME UNCHANGED <<flash, running, ota>> PROVE Booted' /\ Loaded'
  BY <1>3 DEF Booted, Loaded, Loading, flash
<1>4. CASE Reboot \/ CountBoot \/ ClearFlag \/ FactoryReset \/ OtaRestart
  BY <1>3, <1>4 DEF Reboot, CountBoot, ClearFlag, FactoryReset, OtaRestart, Mark, life, ram
<1>5. CASE Tick \/ CreateRelease \/ WifiUp \/ WifiDown \/ UNCHANGED vars
  BY <1>3, <1>5 DEF Tick, CreateRelease, WifiUp, WifiDown, WifiTurns, vars, ram, life
<1>6. CASE ConfirmValid
  <2>1. running \in Slot /\ img \in [Slot -> {"undefined", "new", "pending", "valid", "aborted"}]
        /\ Other(running) \in Slot /\ Other(running) # running
    BY Others DEF TypeOK
  <2>2. UNCHANGED <<slot, otadata, running, ota>> /\ (UNCHANGED img \/ img' = [img EXCEPT ![running] = "valid"])
    BY <1>6 DEF ConfirmValid, life
  <2>3. CASE UNCHANGED img
    BY <1>3, <2>2, <2>3 DEF flash
  <2>4. CASE img' = [img EXCEPT ![running] = "valid"]
    BY <2>1, <2>2, <2>4 DEF Booted, Loaded, Loading
  <2> QED
    BY <2>2, <2>3, <2>4
<1> QED
  BY <1>1, <1>2, <1>4, <1>5, <1>6 DEF Next

LEMMA InvariantHolds == Spec => []FirmwareInvariant
<1>1. FirmwareInvariant /\ [Next]_vars => FirmwareInvariant'
  BY TypeStep, AccountingStep, ImagesStep, HandlesStep DEF FirmwareInvariant
<1> QED
  BY <1>1, InvariantInit, PTL DEF Spec

-----------------------------------------------------------------------------
\* Every reachable state is well typed.
THEOREM FirmwareTypeCorrect == Spec => []TypeOK
<1>1. FirmwareInvariant => TypeOK
  BY DEF FirmwareInvariant
<1> QED
  BY <1>1, InvariantHolds, PTL

\* Crash accounting: init_device_identity() counts the boots that no mark_clean_shutdown()
\* preceded, up to the boots cut before both puts were made and the puts that failed.
THEOREM CrashesAreCounted == Spec => []CountsUnmarkedBoots
<1>1. FirmwareInvariant => CountsUnmarkedBoots
  BY DEF FirmwareInvariant, Accounting, Near, CountsUnmarkedBoots, Up
<1> QED
  BY <1>1, InvariantHolds, PTL

\* The client holds its connection, update handle and hash exactly as long as it needs them.
THEOREM HandlesAreHeld == Spec => []DownloadHoldsItsHandles
<1>1. FirmwareInvariant => DownloadHoldsItsHandles
  BY DEF FirmwareInvariant
<1> QED
  BY <1>1, InvariantHolds, PTL

\* No cut download, failed check, reset or roll-back leads to a partition that is not whole.
THEOREM ImagesAreWhole == Spec => []BootsWholeImage
<1>1. FirmwareInvariant => BootsWholeImage
  <2> SUFFICES ASSUME FirmwareInvariant PROVE BootsWholeImage
    OBVIOUS
  <2>1. slot[running].whole /\ (img[running] = "pending" => slot[Other(running)].whole)
    BY DEF FirmwareInvariant, Booted
  <2>2. slot[BootSlot].whole
    <3>1. CASE otadata = running
      BY <2>1, <3>1 DEF FirmwareInvariant, Booted, BootSlot
    <3>2. CASE otadata = Other(running) /\ img[otadata] = "new" /\ ota.state = "rebooting"
      BY <3>2 DEF FirmwareInvariant, Loaded, BootSlot
    <3> QED
      BY <3>1, <3>2 DEF FirmwareInvariant, Loaded
  <2> QED
    BY <2>1, <2>2 DEF BootsWholeImage
<1> QED
  BY <1>1, InvariantHolds, PTL

\* The version that runs goes down only when the bootloader gives up an image on probation: the
\* client installs newer versions alone, and the partition that runs is never written.
THEOREM DowngradesAreRollbacks == Spec => OnlyRollbackDowngrades
<1>1. FirmwareInvariant /\ [Next]_vars
        => [slot'[running'].ver < slot[running].ver => img[running] = "pending" /\ img'[running] = "aborted"]_vars
  <2> SUFFICES ASSUME FirmwareInvariant, [Next]_vars, slot'[running'].ver < slot[running].ver
               PROVE  img[running] = "pending" /\ img'[running] = "aborted"
    OBVIOUS
  <2>1. /\ running \in Slot /\ otadata \in Slot /\ slot \in [Slot -> Image] /\ ota \in OtaState
        /\ img \in [Slot -> {"undefined", "new", "pending", "valid", "aborted"}]
        /\ Other(running) \in Slot /\ Other(running) # running
    BY Others DEF FirmwareInvariant, TypeOK
  <2>2. slot[running].ver \in Nat
    BY <2>1 DEF Image
  <2>3. ~ (running' = running /\ slot'[running] = slot[running])
    BY <2>2
  <2>4. CASE Reset
    <3>1. /\ running' = BootSlot /\ slot' = slot
          /\ img' = [img EXCEPT ![otadata] = CASE @ = "new" -> "pending" [] @ = "pending" -> "aborted" [] OTHER -> @]
      BY <2>4 DEF Reset, Bootloader
    <3>2. CASE otadata = running
      <4>1. img[running] = "pending"
        BY <2>3, <3>1, <3>2 DEF FirmwareInvariant, Booted, BootSlot
      <4> QED
        BY <2>1, <3>1, <3>2, <4>1
    <3>3. CASE otadata = Other(running) /\ img[otadata] = "new" /\ ota.state = "rebooting"
      <4>1. slot'[running'].ver = ota.ver /\ ota.ver > slot[running].ver
        BY <3>1, <3>3 DEF FirmwareInvariant, Loaded, Loading, BootSlot
      <4> QED
        BY <2>1, <2>2, <4>1 DEF OtaState
    <3> QED
      BY <3>2, <3>3 DEF FirmwareInvariant, Loaded
  <2>5. CASE BeginDownload \/ WriteChunk
    <3>1. running' = running
      BY <2>5, ClientTypes DEF FirmwareInvariant, ClientOnly, ram, life
    <3>2. slot'[running] = slot[running]
      BY <2>1, <2>5 DEF BeginDownload, WriteChunk, flash
    <3> QED
      BY <2>3, <3>1, <3>2
  <2>6. CASE StartCheck \/ CheckFails \/ NoData \/ Verify \/ SetBoot
    BY <2>3, <2>6 DEF StartCheck, CheckFails, NoData, Verify, SetBoot, flash, ClientOnly, ram, life
  <2>7. CASE Reboot \/ CountBoot \/ ClearFlag \/ FactoryReset \/ OtaRestart
    BY <2>3, <2>7 DEF Reboot, CountBoot, ClearFlag, FactoryReset, OtaRestart, Mark, ram, life, flash
  <2>8. CASE Tick \/ ConfirmValid \/ CreateRelease \/ WifiUp \/ WifiDown \/ UNCHANGED vars
    BY <2>3, <2>8 DEF Tick, ConfirmValid, CreateRelease, WifiUp, WifiDown, WifiTurns, vars, flash, ram, life
  <2> QED
    BY <2>4, <2>5, <2>6, <2>7, <2>8 DEF Next
<1> QED
  BY <1>1, InvariantHolds, PTL DEF Spec, OnlyRollbackDowngrades
=============================================================================
