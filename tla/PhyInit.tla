------------------------------ MODULE PhyInit ------------------------------
(***************************************************************************)
(* PHY/RF enable reference count and RF calibration data handling of      *)
(* src/components/esp_wifi/src/phy_init.c.                                 *)
(*                                                                         *)
(* Clients (the WiFi and BT stacks) call esp_phy_enable/esp_phy_disable,   *)
(* which run under the mutex s_phy_access_lock.  The first enable after a *)
(* reset runs esp_phy_load_cal_and_init: it loads the calibration record  *)
(* from the NVS namespace "phy", lets libphy calibrate, and stores the    *)
(* record again when the load failed or libphy rejected it.  The record   *)
(* is three NVS keys written one after another; each nvs_set_* is assumed *)
(* durable when it returns (the NVS API allows it), so a reset or a       *)
(* failed write between them leaves a mix of old and new keys.            *)
(* esp_phy_erase_cal_data_in_nvs is called by the application outside the *)
(* mutex.  A reset clears RAM, keeps NVS, and may boot another firmware   *)
(* whose libphy has another calibration format version.                    *)
(***************************************************************************)
EXTENDS Naturals, FiniteSets

CONSTANTS
  Clients,        \* tasks that enable the PHY (WiFi, BT)
  Versions,       \* calibration format versions of the firmware images
  AllowRollback,  \* a reset may boot an older image (OTA rollback)
  NoValue,        \* an NVS key that is not present
  OwnMac,         \* the station MAC in this chip's eFuse
  OtherMac,       \* the MAC of another chip
  InitDataInPartition,  \* CONFIG_ESP32_PHY_INIT_DATA_IN_PARTITION
  ReducePhyTxPower      \* CONFIG_ESP32_REDUCE_PHY_TX_POWER

ASSUME Versions \subseteq Nat /\ Versions # {}
ASSUME AllowRollback \in BOOLEAN
ASSUME InitDataInPartition \in BOOLEAN /\ ReducePhyTxPower \in BOOLEAN

(* esp_phy_calibration_mode_t *)
PHY_RF_CAL_PARTIAL == 0
PHY_RF_CAL_NONE    == 1
PHY_RF_CAL_FULL    == 2
CalModes == {PHY_RF_CAL_PARTIAL, PHY_RF_CAL_NONE, PHY_RF_CAL_FULL}

(* A calibration blob (esp_phy_calibration_data_t) is abstracted to the   *)
(* format version and MAC it was produced with and whether its contents  *)
(* were damaged.  Its size is the same for every version, so the length  *)
(* checks of the loader never fail on a blob written by this code.        *)
Macs  == {OwnMac, OtherMac}
Blobs == [ver : Versions, mac : Macs, corrupt : BOOLEAN]

(* The keys PHY_CAL_VERSION_KEY, PHY_CAL_MAC_KEY and PHY_CAL_DATA_KEY. *)
NvsRecords == [cal_version : Versions \cup {NoValue},
               cal_mac     : Macs \cup {NoValue},
               cal_data    : Blobs \cup {NoValue}]
EmptyNvs == [cal_version |-> NoValue, cal_mac |-> NoValue, cal_data |-> NoValue]

MinVersion == CHOOSE v \in Versions : \A w \in Versions : v <= w

(* Steps of the client holding s_phy_access_lock while it calibrates. *)
Steps == {"idle", "init", "load", "register", "st_open", "st_set", "st_commit",
          "finish"}

VARIABLES
  s_phy_access_ref,        \* uint8_t reference count
  s_is_phy_calibrated,
  s_phy_digital_regs_mem,  \* TRUE once the backup buffer is allocated
  backupValid,             \* the backup buffer holds a valid register setup
  backupLost,              \* a backup malloc failed since the last reset
  lockHolder,              \* client holding s_phy_access_lock, or NoValue
  step,                    \* where the holder is in esp_phy_load_cal_and_init
  storeIdx,                \* next key store_cal_data_to_nvs_handle writes
  held,                    \* held[c]: client c has enabled the PHY
  clockOn, rfOn,           \* WiFi/BT common clock and PHY/RF power
  digRegsValid,            \* the PHY digital registers hold a valid setup
  nvs,                     \* the NVS namespace "phy"
  curVer,                  \* phy_get_rf_cal_version() & ~BIT(16) of this image
  deepSleepReset,          \* rtc_get_reset_reason(0) == DEEPSLEEP_RESET
  calMode, loadErr, calData, regRet,   \* locals of esp_phy_load_cal_and_init
  heapBlocks,              \* buffers it allocated and has not freed
  nvsFault                 \* an NVS call failed or NVS was erased since boot

backupVars == <<s_phy_digital_regs_mem, backupValid, backupLost>>
phyVars   == <<s_phy_access_ref, s_is_phy_calibrated, backupVars>>
hwVars    == <<clockOn, rfOn, digRegsValid>>
bootVars  == <<curVer, deepSleepReset>>
localVars == <<calMode, loadErr, calData, regRet, heapBlocks>>
vars == <<phyVars, lockHolder, step, storeIdx, held, hwVars, nvs, bootVars, localVars,
          nvsFault>>

(* The locals of esp_phy_load_cal_and_init when it is not running. *)
LocalsInit ==
  /\ calMode = PHY_RF_CAL_PARTIAL /\ loadErr = FALSE
  /\ calData = NoValue /\ regRet = "ok" /\ heapBlocks = 0

LocalsReset ==
  /\ calMode' = PHY_RF_CAL_PARTIAL /\ loadErr' = FALSE
  /\ calData' = NoValue /\ regRet' = "ok"

(* RAM after a reset: the static initialisers of phy_init.c. *)
RamInit ==
  /\ s_phy_access_ref = 0 /\ s_is_phy_calibrated = FALSE
  /\ s_phy_digital_regs_mem = FALSE /\ backupValid = FALSE /\ backupLost = FALSE
  /\ lockHolder = NoValue /\ step = "idle" /\ storeIdx = 1
  /\ held = [c \in Clients |-> FALSE]
  /\ clockOn = FALSE /\ rfOn = FALSE
  /\ digRegsValid = FALSE

RamReset ==
  /\ s_phy_access_ref' = 0 /\ s_is_phy_calibrated' = FALSE
  /\ s_phy_digital_regs_mem' = FALSE /\ backupValid' = FALSE /\ backupLost' = FALSE
  /\ lockHolder' = NoValue /\ step' = "idle" /\ storeIdx' = 1
  /\ held' = [c \in Clients |-> FALSE]
  /\ clockOn' = FALSE /\ rfOn' = FALSE
  /\ digRegsValid' = FALSE

(* First boot: NVS is empty or holds a record flashed from another chip. *)
Init ==
  /\ RamInit
  /\ LocalsInit
  /\ curVer = MinVersion
  /\ deepSleepReset = FALSE
  /\ nvs \in {EmptyNvs,
              [cal_version |-> MinVersion, cal_mac |-> OtherMac,
               cal_data |-> [ver |-> MinVersion, mac |-> OtherMac,
                             corrupt |-> FALSE]]}
  /\ nvsFault = FALSE

-----------------------------------------------------------------------------
(* load_cal_data_from_nvs_handle (lines 323-370): the version key must be *)
(* this image's format, the MAC key this chip's MAC, and the data key     *)
(* present; a missing key is an error of nvs_get_*.                        *)
load_cal_data_from_nvs_handle(rec) ==
  IF \/ rec.cal_version = NoValue \/ rec.cal_version # curVer
     \/ rec.cal_mac = NoValue \/ rec.cal_mac # OwnMac
     \/ rec.cal_data = NoValue
  THEN [ok |-> FALSE, data |-> NoValue]
  ELSE [ok |-> TRUE, data |-> rec.cal_data]

(* esp_phy_load_cal_data_from_nvs (lines 267-282): nvs_open may fail (NVS *)
(* not initialised, or another error), and then nothing is read.          *)
esp_phy_load_cal_data_from_nvs(openOk) ==
  IF openOk THEN load_cal_data_from_nvs_handle(nvs)
  ELSE [ok |-> FALSE, data |-> NoValue]

(* Fault: the version key is written before the data it describes. *)
StoreOrderVersionFirst == <<"cal_version", "cal_data", "cal_mac">>

(* The order of the nvs_set_* calls of store_cal_data_to_nvs_handle       *)
(* (lines 377, 385, 393).                                                  *)
StoreOrder == <<"cal_data", "cal_mac", "cal_version">>

(* Fault: the calibration buffer is passed for the MAC key. *)
StoreValueSwapped(key) ==
  CASE key = "cal_data" -> calData
    [] key = "cal_mac"  -> calData
    [] OTHER            -> curVer

(* The value written under each key (lines 377-393): the calibration     *)
(* buffer, the station MAC and the format version.                         *)
StoreValue(key) ==
  CASE key = "cal_data" -> calData
    [] key = "cal_mac"  -> OwnMac
    [] OTHER            -> curVer

(* Fault: a checksum failure reported by libphy does not cause a store. *)
NeedStoreLoadOnly(mode, err, ret) == mode # PHY_RF_CAL_NONE /\ err

(* The condition of lines 481-482 under which the new calibration data is *)
(* written back to NVS.                                                    *)
NeedStore(mode, err, ret) ==
  \/ mode # PHY_RF_CAL_NONE /\ err
  \/ mode # PHY_RF_CAL_FULL /\ ret = "check_fail"

(* phy_digital_regs_store (lines 129-138): the backup buffer is allocated *)
(* on the first power-down; malloc may fail, and then nothing is saved.   *)
(* phy_dig_reg_backup copies the registers as they are (regs).            *)
phy_digital_regs_store(regs) ==
  \E allocOk \in IF s_phy_digital_regs_mem THEN {TRUE} ELSE BOOLEAN :
    /\ s_phy_digital_regs_mem' = allocOk
    /\ backupValid' = IF allocOk THEN regs ELSE backupValid
    /\ backupLost' = (backupLost \/ ~allocOk)

(* phy_digital_regs_load (lines 140-145): the registers are restored only *)
(* if a backup buffer exists.                                              *)
phy_digital_regs_load == s_phy_digital_regs_mem /\ backupValid

-----------------------------------------------------------------------------
(* esp_phy_enable (lines 147-176).  The first enable after a reset enters *)
(* esp_phy_load_cal_and_init with the mutex held; every other enable runs *)
(* to the end at once: on the 0 -> 1 transition the clock is enabled and  *)
(* the PHY woken (phy_wakeup_init, phy_digital_regs_load).                 *)
esp_phy_enable(c) ==
  /\ lockHolder = NoValue
  /\ ~held[c]
  /\ IF s_phy_access_ref = 0 /\ ~s_is_phy_calibrated
       THEN /\ lockHolder' = c
            /\ step' = "init"
            /\ clockOn' = TRUE
            /\ UNCHANGED <<phyVars, held, rfOn, digRegsValid>>
       ELSE /\ s_phy_access_ref' = (s_phy_access_ref + 1) % 256
            /\ held' = [held EXCEPT ![c] = TRUE]
            /\ IF s_phy_access_ref = 0
                 THEN /\ clockOn' = TRUE /\ rfOn' = TRUE
                      /\ digRegsValid' = phy_digital_regs_load
                 ELSE UNCHANGED <<clockOn, rfOn, digRegsValid>>
            /\ UNCHANGED <<s_is_phy_calibrated, backupVars, lockHolder, step>>
  /\ UNCHANGED <<storeIdx, nvs, bootVars, localVars, nvsFault>>

(* esp_phy_get_init_data: whether it returns the data and how many heap  *)
(* blocks it leaves allocated.  Built into the binary (lines 240-244) it   *)
(* always succeeds.  From the partition (lines 201-229): the validated     *)
(* buffer; NULL when no partition is found or malloc fails; NULL with the  *)
(* buffer not freed when esp_partition_read fails or a magic word differs. *)
esp_phy_get_init_data ==
  IF InitDataInPartition
    THEN {[ok |-> TRUE, blocks |-> 1], [ok |-> FALSE, blocks |-> 0],
          [ok |-> FALSE, blocks |-> 1]}
    ELSE {[ok |-> TRUE, blocks |-> 0]}

(* esp_phy_release_init_data: the blocks it frees (lines 231-234, 246-249). *)
esp_phy_release_init_data == IF InitDataInPartition THEN 1 ELSE 0

(* abort() in esp_phy_load_cal_and_init: the chip restarts the same image *)
(* (the reset reason is a panic, not a deep-sleep wake); NVS is kept.      *)
Abort ==
  /\ RamReset
  /\ LocalsReset /\ heapBlocks' = 0
  /\ deepSleepReset' = FALSE
  /\ nvsFault' = FALSE
  /\ UNCHANGED <<curVer, nvs>>

(* Lines 427-460: calloc of the calibration buffer, the init data, and     *)
(* with ReducePhyTxPower a malloc'ed copy of it; each failure aborts.      *)
CalInit ==
  /\ step = "init"
  /\ \E callocOk \in BOOLEAN, r \in esp_phy_get_init_data,
        copyOk \in IF ReducePhyTxPower THEN BOOLEAN ELSE {TRUE} :
       IF callocOk /\ r.ok /\ copyOk
         THEN /\ heapBlocks' = 1 + r.blocks + (IF ReducePhyTxPower THEN 1 ELSE 0)
              /\ step' = "load"
              /\ UNCHANGED <<phyVars, lockHolder, storeIdx, held, hwVars, nvs,
                             bootVars, calMode, loadErr, calData, regRet, nvsFault>>
         ELSE Abort

(* Lines 462-472: the calibration mode is PARTIAL, NONE after a deep-sleep *)
(* reset, and FULL whenever loading from NVS failed.                       *)
CalLoad ==
  /\ step = "load"
  /\ \E openOk \in BOOLEAN :
       LET r == esp_phy_load_cal_data_from_nvs(openOk)
       IN /\ calMode' = IF ~r.ok THEN PHY_RF_CAL_FULL
                        ELSE IF deepSleepReset THEN PHY_RF_CAL_NONE
                        ELSE PHY_RF_CAL_PARTIAL
          /\ loadErr' = ~r.ok
          /\ calData' = r.data
          /\ nvsFault' = (nvsFault \/ ~openOk)
  /\ step' = "register"
  /\ UNCHANGED <<phyVars, lockHolder, storeIdx, held, hwVars, nvs, bootVars,
                 regRet, heapBlocks>>

(* Lines 474-486: register_chipv7_phy powers and calibrates the PHY.  It  *)
(* reports ESP_CAL_DATA_CHECK_FAIL for damaged data; whether it detects   *)
(* data of another format version is up to libphy.  The buffer then holds *)
(* this chip's calibration (the MAC is copied in at line 475), and it is  *)
(* stored if NeedStore says so.                                            *)
CalRegister ==
  /\ step = "register"
  /\ \E ret \in
          IF calMode = PHY_RF_CAL_FULL THEN {"ok"}
          ELSE IF calData.corrupt THEN {"check_fail"}
          ELSE IF calData.ver = curVer /\ calData.mac = OwnMac THEN {"ok"}
          ELSE {"ok", "check_fail"} :
       /\ regRet' = ret
       /\ step' = IF NeedStore(calMode, loadErr, ret) THEN "st_open"
                  ELSE "finish"
  /\ rfOn' = TRUE
  /\ digRegsValid' = TRUE
  /\ calData' = [ver |-> curVer, mac |-> OwnMac, corrupt |-> FALSE]
  /\ UNCHANGED <<phyVars, lockHolder, storeIdx, held, clockOn, nvs, bootVars,
                 calMode, loadErr, heapBlocks, nvsFault>>

(* esp_phy_store_cal_data_to_nvs (lines 284-297): nvs_open may fail. *)
StoreOpen ==
  /\ step = "st_open"
  /\ \E ok \in BOOLEAN :
       /\ step' = IF ok THEN "st_set" ELSE "finish"
       /\ nvsFault' = (nvsFault \/ ~ok)
  /\ UNCHANGED <<phyVars, lockHolder, storeIdx, held, hwVars, nvs, bootVars,
                 localVars>>

(* One nvs_set_* call of store_cal_data_to_nvs_handle (lines 377-397).    *)
(* A failed call returns at once and leaves the keys written so far.      *)
StoreSet ==
  /\ step = "st_set"
  /\ \E ok \in BOOLEAN :
       IF ok
         THEN /\ nvs' = [nvs EXCEPT ![StoreOrder[storeIdx]] =
                                      StoreValue(StoreOrder[storeIdx])]
              /\ storeIdx' = IF storeIdx = 3 THEN 1 ELSE storeIdx + 1
              /\ step' = IF storeIdx = 3 THEN "st_commit" ELSE "st_set"
              /\ UNCHANGED nvsFault
         ELSE /\ storeIdx' = 1
              /\ step' = "finish"
              /\ nvsFault' = TRUE
              /\ UNCHANGED nvs
  /\ UNCHANGED <<phyVars, lockHolder, held, hwVars, bootVars, localVars>>

(* nvs_commit (lines 399-404); the keys are already durable. *)
StoreCommit ==
  /\ step = "st_commit"
  /\ \E ok \in BOOLEAN : nvsFault' = (nvsFault \/ ~ok)
  /\ step' = "finish"
  /\ UNCHANGED <<phyVars, lockHolder, storeIdx, held, hwVars, nvs, bootVars,
                 localVars>>

(* Fault: the init data is not handed back to esp_phy_release_init_data. *)
CalFinishNoRelease ==
  /\ step = "finish"
  /\ s_is_phy_calibrated' = TRUE
  /\ s_phy_access_ref' = (s_phy_access_ref + 1) % 256
  /\ held' = [held EXCEPT ![lockHolder] = TRUE]
  /\ lockHolder' = NoValue
  /\ step' = "idle"
  /\ LocalsReset
  /\ heapBlocks' = heapBlocks - (IF ReducePhyTxPower THEN 1 ELSE 0) - 1
  /\ UNCHANGED <<backupVars, storeIdx, hwVars, nvs, bootVars,
                 nvsFault>>

(* End of esp_phy_enable after esp_phy_load_cal_and_init (lines 162, 173, *)
(* 175).                                                                    *)
CalFinish ==
  /\ step = "finish"
  /\ s_is_phy_calibrated' = TRUE
  /\ s_phy_access_ref' = (s_phy_access_ref + 1) % 256
  /\ held' = [held EXCEPT ![lockHolder] = TRUE]
  /\ lockHolder' = NoValue
  /\ step' = "idle"
  /\ LocalsReset
  /\ heapBlocks' = heapBlocks - esp_phy_release_init_data
                  - (IF ReducePhyTxPower THEN 1 ELSE 0) - 1
  /\ UNCHANGED <<backupVars, storeIdx, hwVars, nvs, bootVars,
                 nvsFault>>

(* Fault: the count is tested before it is decremented. *)
DisableTestFirst(c) ==
  /\ lockHolder = NoValue
  /\ held[c]
  /\ s_phy_access_ref' = (s_phy_access_ref + 255) % 256
  /\ held' = [held EXCEPT ![c] = FALSE]
  /\ IF s_phy_access_ref = 0
       THEN /\ phy_digital_regs_store(digRegsValid)
            /\ rfOn' = FALSE /\ clockOn' = FALSE /\ digRegsValid' = FALSE
       ELSE UNCHANGED <<backupVars, hwVars>>
  /\ UNCHANGED <<s_is_phy_calibrated, lockHolder, step, storeIdx, nvs,
                 bootVars, localVars, nvsFault>>

(* Fault: RF is closed before the digital registers are backed up. *)
DisableCloseFirst(c) ==
  /\ lockHolder = NoValue
  /\ held[c]
  /\ s_phy_access_ref' = (s_phy_access_ref + 255) % 256
  /\ held' = [held EXCEPT ![c] = FALSE]
  /\ IF (s_phy_access_ref + 255) % 256 = 0
       THEN /\ phy_digital_regs_store(FALSE)
            /\ rfOn' = FALSE /\ clockOn' = FALSE /\ digRegsValid' = FALSE
       ELSE UNCHANGED <<backupVars, hwVars>>
  /\ UNCHANGED <<s_is_phy_calibrated, lockHolder, step, storeIdx, nvs,
                 bootVars, localVars, nvsFault>>

(* esp_phy_disable (lines 178-196), by a client that enabled the PHY.  On *)
(* the 1 -> 0 transition the digital registers are backed up, RF is       *)
(* closed and the common clock disabled.                                   *)
esp_phy_disable(c) ==
  /\ lockHolder = NoValue
  /\ held[c]
  /\ s_phy_access_ref' = (s_phy_access_ref + 255) % 256
  /\ held' = [held EXCEPT ![c] = FALSE]
  /\ IF (s_phy_access_ref + 255) % 256 = 0
       THEN /\ phy_digital_regs_store(digRegsValid)
            /\ rfOn' = FALSE /\ clockOn' = FALSE /\ digRegsValid' = FALSE
       ELSE UNCHANGED <<backupVars, hwVars>>
  /\ UNCHANGED <<s_is_phy_calibrated, lockHolder, step, storeIdx, nvs,
                 bootVars, localVars, nvsFault>>

(* esp_phy_erase_cal_data_in_nvs (lines 299-321), called by the           *)
(* application without s_phy_access_lock.  nvs_open or nvs_erase_all may  *)
(* fail and leave NVS as it was; a failed nvs_commit leaves it erased.    *)
esp_phy_erase_cal_data_in_nvs ==
  /\ \E erased \in BOOLEAN : nvs' = IF erased THEN EmptyNvs ELSE nvs
  /\ nvsFault' = TRUE
  /\ UNCHANGED <<phyVars, lockHolder, step, storeIdx, held, hwVars, bootVars,
                 localVars>>

(* A reset, at any point: RAM is reinitialised and NVS kept.  The flash   *)
(* may have damaged the calibration data, the reset may be a wake from    *)
(* deep sleep, and the image booted may be a newer one (OTA update) or,   *)
(* with AllowRollback, an older one.                                       *)
Reset ==
  /\ RamReset
  /\ LocalsReset /\ heapBlocks' = 0
  /\ \E v \in IF AllowRollback THEN Versions
              ELSE {w \in Versions : w >= curVer} : curVer' = v
  /\ deepSleepReset' \in BOOLEAN
  /\ \E d \in {nvs.cal_data} \cup
              (IF nvs.cal_data = NoValue THEN {}
               ELSE {[nvs.cal_data EXCEPT !.corrupt = TRUE]}) :
       nvs' = [nvs EXCEPT !.cal_data = d]
  /\ nvsFault' = FALSE

Next ==
  \/ \E c \in Clients : esp_phy_enable(c) \/ esp_phy_disable(c)
  \/ CalInit \/ CalLoad \/ CalRegister \/ StoreOpen \/ StoreSet \/ StoreCommit
  \/ CalFinish
  \/ esp_phy_erase_cal_data_in_nvs
  \/ Reset

Spec == Init /\ [][Next]_vars

-----------------------------------------------------------------------------
(* Properties *)

TypeOK ==
  /\ s_phy_access_ref \in 0 .. 255
  /\ s_is_phy_calibrated \in BOOLEAN /\ s_phy_digital_regs_mem \in BOOLEAN
  /\ backupValid \in BOOLEAN /\ backupLost \in BOOLEAN
  /\ lockHolder \in Clients \cup {NoValue}
  /\ step \in Steps /\ storeIdx \in 1 .. 3
  /\ held \in [Clients -> BOOLEAN]
  /\ clockOn \in BOOLEAN /\ rfOn \in BOOLEAN /\ digRegsValid \in BOOLEAN
  /\ nvs \in NvsRecords
  /\ curVer \in Versions /\ deepSleepReset \in BOOLEAN
  /\ calMode \in CalModes /\ loadErr \in BOOLEAN
  /\ calData \in Blobs \cup {NoValue} /\ regRet \in {"ok", "check_fail"}
  /\ heapBlocks \in 0 .. 3
  /\ nvsFault \in BOOLEAN

(* The reference count of esp_phy_enable/esp_phy_disable agrees with the *)
(* clients and the hardware whenever s_phy_access_lock is free: it is the *)
(* number of clients that enabled the PHY, RF and the common clock are on *)
(* exactly when it is positive, and a powered PHY has been calibrated     *)
(* since the last reset.                                                   *)
PhyPowerConsistent ==
  lockHolder = NoValue =>
    /\ s_phy_access_ref = Cardinality({c \in Clients : held[c]})
    /\ rfOn = (s_phy_access_ref > 0)
    /\ clockOn = (s_phy_access_ref > 0)
    /\ s_phy_access_ref > 0 => s_is_phy_calibrated

(* esp_phy_load_cal_data_from_nvs accepts only calibration data obtained *)
(* for this chip's MAC and this software's calibration format (the       *)
(* promise of esp_phy_init.h), across resets and failed writes in the    *)
(* middle of store_cal_data_to_nvs_handle and concurrent erases.          *)
LoadedCalCurrent ==
  step = "register" /\ ~loadErr =>
    /\ calData.ver = curVer
    /\ calData.mac = OwnMac

(* A record that loads for this image and holds this chip's undamaged    *)
(* calibration data of this format.                                       *)
NvsValid ==
  /\ nvs.cal_version = curVer
  /\ nvs.cal_mac = OwnMac
  /\ nvs.cal_data = [ver |-> curVer, mac |-> OwnMac, corrupt |-> FALSE]

(* Once esp_phy_load_cal_and_init has run in this boot and no NVS call    *)
(* failed and nobody erased the namespace, NVS holds a valid calibration *)
(* record, so the next boot can skip full calibration: whatever the       *)
(* record was before (absent, another chip's, another format's, damaged), *)
(* the store decision of lines 481-482 rewrote it.                         *)
NvsHoldsCalibration ==
  lockHolder = NoValue /\ s_is_phy_calibrated /\ ~nvsFault => NvsValid

(* Every power-up after the first restores the PHY digital registers     *)
(* that the last power-down saved: esp_phy_disable backs them up before   *)
(* phy_close_rf, and esp_phy_enable reloads them after phy_wakeup_init,   *)
(* across any sequence of WiFi and BT enables and disables.  Only a       *)
(* failed malloc of the backup buffer (phy_init.c:132) since the last     *)
(* reset may leave a powered PHY without them.                             *)
PhyRegistersRestored ==
  lockHolder = NoValue /\ rfOn /\ ~backupLost => digRegsValid

(* esp_phy_load_cal_and_init leaves nothing allocated once the first    *)
(* esp_phy_enable returns: the calibration buffer, the init data read     *)
(* from the partition and its TX-power copy are freed on the path that    *)
(* returns, and every path that fails to obtain one of them (including    *)
(* esp_phy_get_init_data returning NULL with its buffer still allocated)  *)
(* ends in abort() and a restart, through any number of enable/disable    *)
(* rounds and resets.                                                      *)
InitBuffersFreed ==
  lockHolder = NoValue => heapBlocks = 0

====
