------------------------------ MODULE PmModes ------------------------------
(***************************************************************************)
(* The power modes of components/esp32s2beta/pm_esp32s2beta.c and the     *)
(* pure parts of mode arbitration, shared by PmImpl (frequency switching) *)
(* and PmProfiling (time-in-mode accounting).                             *)
(***************************************************************************)
EXTENDS Integers, Bitwise

(* pm_mode_t, ordered from most power saving to most performance. *)
PM_MODE_LIGHT_SLEEP == 0
PM_MODE_APB_MIN     == 1
PM_MODE_APB_MAX     == 2
PM_MODE_CPU_MAX     == 3
Modes == PM_MODE_LIGHT_SLEEP .. PM_MODE_CPU_MAX
BIT(m) == 2^m
AllModeBits == BIT(PM_MODE_CPU_MAX + 1) - 1

(* Fault: strict comparison against the CPU_MAX bit. *)
LowestAllowedStrict(mask, light_sleep_en) ==
  CASE mask > BIT(PM_MODE_CPU_MAX) -> PM_MODE_CPU_MAX
    [] mask >= BIT(PM_MODE_APB_MAX) -> PM_MODE_APB_MAX
    [] mask >= BIT(PM_MODE_APB_MIN) \/ ~light_sleep_en -> PM_MODE_APB_MIN
    [] OTHER -> PM_MODE_LIGHT_SLEEP

(* get_lowest_allowed_mode (lines 243-255), on a given mask. *)
get_lowest_allowed_mode(mask, light_sleep_en) ==
  CASE mask >= BIT(PM_MODE_CPU_MAX) -> PM_MODE_CPU_MAX
    [] mask >= BIT(PM_MODE_APB_MAX) -> PM_MODE_APB_MAX
    [] mask >= BIT(PM_MODE_APB_MIN) \/ ~light_sleep_en -> PM_MODE_APB_MIN
    [] OTHER -> PM_MODE_LIGHT_SLEEP

(* Fault: the bit is left set when the last lock of the mode goes. *)
ModeMaskAfterNoClear(mask, mode, lock, count) ==
  IF count # 1 THEN mask ELSE mask | BIT(mode)

(* Lines 269-276 of esp_pm_impl_switch_mode: when `count` is 1 the mode's *)
(* bit is set on a lock and cleared on an unlock.                          *)
ModeMaskAfter(mask, mode, lock, count) ==
  IF count # 1 THEN mask
  ELSE IF lock THEN mask | BIT(mode)
  ELSE mask & (AllModeBits - BIT(mode))

(* esp_pm_lock_type_t values a lock is created with. *)
LockTypes == {"ESP_PM_CPU_FREQ_MAX", "ESP_PM_APB_FREQ_MAX", "ESP_PM_NO_LIGHT_SLEEP"}

(* esp_pm_impl_get_mode (lines 153-167): the mode a lock of a type holds.  *)
(* Any other type aborts; esp_pm_lock_create only passes these three.     *)
esp_pm_impl_get_mode(type) ==
  CASE type = "ESP_PM_CPU_FREQ_MAX"   -> PM_MODE_CPU_MAX
    [] type = "ESP_PM_APB_FREQ_MAX"   -> PM_MODE_APB_MAX
    [] type = "ESP_PM_NO_LIGHT_SLEEP" -> PM_MODE_APB_MIN

====
