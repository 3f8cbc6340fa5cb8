------------------------------- MODULE PmImpl -------------------------------
(***************************************************************************)
(* Power-management mode arbitration and CPU frequency switching of        *)
(* components/esp32s2beta/pm_esp32s2beta.c.                                *)
(*                                                                         *)
(* Every core is an actor that runs one operation at a time: a client      *)
(* esp_pm_lock_acquire/release, the idle hook, or the ISR hook.  These run *)
(* with interrupts masked on their core (the lock layer and the idle hook  *)
(* hold a critical section), so an operation is a sequence of steps with   *)
(* pc[c] naming the next one; the steps of two cores interleave.  A step   *)
(* is one portENTER_CRITICAL section of the code, or one statement run     *)
(* outside it that reads or writes shared state.                           *)
(*                                                                         *)
(* The per-handle reference counting of esp_pm_lock_acquire/release lives  *)
(* in pm_locks.c, which is not in this repository; it is modelled from the *)
(* spec (section 6): a handle is bound to one mode, nests, and calls       *)
(* esp_pm_impl_switch_mode on its 0->1 and 1->0 transitions.               *)
(*                                                                         *)
(* Timer state is abstracted to the frequency a value is scaled for:       *)
(* ccompareFreq[c] is the CPU tick rate the pending CCOMPARE of core c was *)
(* computed for, tickFreq the rate _xt_tick_divisor was computed from.     *)
(***************************************************************************)
EXTENDS PmModes, FiniteSets

CONSTANTS
  Cores,        \* core ids: {0} (portNUM_PROCESSORS == 1) or {0, 1}
  ClientType,   \* ClientType[k]: esp_pm_lock_type_t of client handle k
  ClientCore,   \* ClientCore[k]: core from which client handle k is used
  MaxNest,      \* bound on nested acquires of one client handle
  XtalMHz,      \* rtc_clk_xtal_freq_get()
  DefaultFreq,  \* CONFIG_ESP32S2_DEFAULT_CPU_FREQ_MHZ as an rtc_cpu_freq_t
  ConfigFreqs,  \* rtc_cpu_freq_t values offered to esp_pm_configure
  Tickless      \* CONFIG_FREERTOS_USE_TICKLESS_IDLE

(* rtc_cpu_freq_t and s_cpu_freq_to_ticks (lines 103-109). *)
CpuFreqs == {"XTAL", "80M", "160M", "240M", "2M"}
s_cpu_freq_to_ticks ==
  [f \in CpuFreqs |-> CASE f = "XTAL" -> XtalMHz
                        [] f = "80M"  -> 80
                        [] f = "160M" -> 160
                        [] f = "240M" -> 240
                        [] f = "2M"   -> 2]
MinOf(a, b) == IF a <= b THEN a ELSE b

Clients == DOMAIN ClientType
MultiCore == Cardinality(Cores) = 2
Other(c) == CHOOSE o \in Cores : o # c

(* Lock handles: s_rtos_lock_handle[c] (ESP_PM_CPU_FREQ_MAX) and clients. *)
Rtos(c) == <<"rtos", c>>
Client(k) == <<"client", k>>
Handles == {Rtos(c) : c \in Cores} \cup {Client(k) : k \in Clients}
HandleMode(h) ==
  esp_pm_impl_get_mode(IF h[1] = "rtos" THEN "ESP_PM_CPU_FREQ_MAX" ELSE ClientType[h[2]])

ASSUME Cores \in {{0}, {0, 1}}
ASSUME ClientType \in [Clients -> LockTypes]
ASSUME ClientCore \in [Clients -> Cores]
ASSUME MaxNest \in Nat \ {0}
ASSUME DefaultFreq \in CpuFreqs /\ ConfigFreqs \subseteq CpuFreqs
ASSUME Tickless \in BOOLEAN

VARIABLES
  s_mode, s_is_switching, s_mode_lock_counts, s_mode_mask,
  s_ccount_div, s_ccount_mul, s_need_update_ccompare, s_core_idle,
  s_cpu_freq_by_mode, s_light_sleep_en, s_config_changed,
  cpuFreq,       \* rtc_cpu_freq_t the clock runs at (rtc_clk_cpu_freq_get)
  apbFreq,       \* ticks/us last passed to esp_timer_impl_update_apb_freq
  tickFreq,      \* ticks/us _xt_tick_divisor was computed from
  ccompareFreq,  \* per core: ticks/us its pending CCOMPARE is scaled for
  handleCount,   \* lock layer: reference count of each handle
  pc,            \* per core: next step of its current operation
  newMode,       \* per core, do_switch argument new_mode
  newFreq,       \* per core, do_switch local new_freq
  oldTicks,      \* per core, do_switch local old_ticks_per_us
  cfgChanged     \* per core, do_switch local config_changed

pmVars    == <<s_mode, s_is_switching, s_mode_lock_counts, s_mode_mask,
               s_light_sleep_en, s_config_changed, s_cpu_freq_by_mode>>
syncVars  == <<s_ccount_div, s_ccount_mul, s_need_update_ccompare>>
hwVars    == <<cpuFreq, apbFreq, tickFreq, ccompareFreq>>
localVars == <<pc, newMode, newFreq, oldTicks, cfgChanged>>
vars == <<pmVars, syncVars, hwVars, localVars, s_core_idle, handleCount>>

(* pc values of the steps of do_switch that run with s_is_switching set. *)
SwitchingSteps == {"ds_freq", "set_freq", "of_update", "of_wait", "ds_commit"}
Steps == {"idle", "ds_spin"} \cup SwitchingSteps
Quiescent == \A c \in Cores : pc[c] = "idle"

(* do_switch local switch_down (line 387). *)
SwitchDown(c) == s_cpu_freq_to_ticks[newFreq[c]] < oldTicks[c]

(* The locals of do_switch once it has returned: they are dead, and are    *)
(* given fixed values so that finished switches leave no trace.            *)
LocalsReset(c) ==
  /\ newMode' = [newMode EXCEPT ![c] = PM_MODE_CPU_MAX]
  /\ newFreq' = [newFreq EXCEPT ![c] = DefaultFreq]
  /\ oldTicks' = [oldTicks EXCEPT ![c] = s_cpu_freq_to_ticks[DefaultFreq]]
  /\ cfgChanged' = [cfgChanged EXCEPT ![c] = FALSE]

-----------------------------------------------------------------------------
(* Initial state: after esp_pm_impl_init (lines 563-588) has taken both    *)
(* rtos locks and filled s_cpu_freq_by_mode with the default frequency.    *)
Init ==
  /\ s_mode = PM_MODE_CPU_MAX
  /\ s_is_switching = FALSE
  /\ s_mode_lock_counts = [m \in Modes |->
                             IF m = PM_MODE_CPU_MAX THEN Cardinality(Cores) ELSE 0]
  /\ s_mode_mask = BIT(PM_MODE_CPU_MAX)
  /\ s_ccount_div = 0
  /\ s_ccount_mul = 0
  /\ s_need_update_ccompare = [c \in Cores |-> FALSE]
  /\ s_core_idle = [c \in Cores |-> FALSE]
  /\ s_cpu_freq_by_mode = [m \in Modes |-> DefaultFreq]
  /\ s_light_sleep_en = FALSE
  /\ s_config_changed = FALSE
  /\ cpuFreq = DefaultFreq
  /\ apbFreq = MinOf(s_cpu_freq_to_ticks[DefaultFreq], 80)
  /\ tickFreq = s_cpu_freq_to_ticks[DefaultFreq]
  /\ ccompareFreq = [c \in Cores |-> s_cpu_freq_to_ticks[DefaultFreq]]
  /\ handleCount = [h \in Handles |-> IF h[1] = "rtos" THEN 1 ELSE 0]
  /\ pc = [c \in Cores |-> "idle"]
  /\ newMode = [c \in Cores |-> PM_MODE_CPU_MAX]
  /\ newFreq = [c \in Cores |-> DefaultFreq]
  /\ oldTicks = [c \in Cores |-> s_cpu_freq_to_ticks[DefaultFreq]]
  /\ cfgChanged = [c \in Cores |-> FALSE]

-----------------------------------------------------------------------------
(* Fault: pre-decrement (--count) on unlock. *)
LockCountPreDecrement(mode, lock) ==
  IF lock THEN s_mode_lock_counts[mode] + 1 ELSE s_mode_lock_counts[mode] - 1

(* Value of `count` in esp_pm_impl_switch_mode (lines 263-268): the count  *)
(* after a lock, the count before an unlock (post-decrement).              *)
LockCount(mode, lock) ==
  IF lock THEN s_mode_lock_counts[mode] + 1 ELSE s_mode_lock_counts[mode]

(* esp_pm_impl_switch_mode (lines 257-293): the critical section updates   *)
(* the count and, when it went 0->1 or 1->0, the mask and the target mode; *)
(* do_switch(new_mode) is then called outside the critical section.        *)
esp_pm_impl_switch_mode(c, mode, lock) ==
  LET need_switch == LockCount(mode, lock) = 1
      mask == ModeMaskAfter(s_mode_mask, mode, lock, LockCount(mode, lock))
  IN /\ s_mode_lock_counts' = [s_mode_lock_counts EXCEPT
                                 ![mode] = IF lock THEN @ + 1 ELSE @ - 1]
     /\ s_mode_mask' = mask
     /\ IF need_switch
          THEN /\ newMode' = [newMode EXCEPT
                     ![c] = get_lowest_allowed_mode(mask, s_light_sleep_en)]
               /\ pc' = [pc EXCEPT ![c] = "ds_spin"]
          ELSE UNCHANGED <<newMode, pc>>

RegistryVars == <<s_mode_lock_counts, s_mode_mask, newMode, pc>>

(* esp_pm_lock_acquire (lock layer, from the spec): count the handle and   *)
(* tell the implementation on the 0->1 transition.                         *)
esp_pm_lock_acquire(c, h) ==
  /\ handleCount' = [handleCount EXCEPT ![h] = @ + 1]
  /\ IF handleCount[h] = 0
       THEN esp_pm_impl_switch_mode(c, HandleMode(h), TRUE)
       ELSE UNCHANGED RegistryVars

(* Fault: no check that the handle is held. *)
ReleaseUnchecked(c, h) ==
  /\ handleCount' = [handleCount EXCEPT ![h] = @ - 1]
  /\ IF handleCount[h] = 1
       THEN esp_pm_impl_switch_mode(c, HandleMode(h), FALSE)
       ELSE UNCHANGED RegistryVars

(* esp_pm_lock_release (lock layer, from the spec): releasing a handle     *)
(* that is not held returns ESP_ERR_INVALID_STATE and changes nothing.     *)
esp_pm_lock_release(c, h) ==
  /\ handleCount[h] > 0
  /\ handleCount' = [handleCount EXCEPT ![h] = @ - 1]
  /\ IF handleCount[h] = 1
       THEN esp_pm_impl_switch_mode(c, HandleMode(h), FALSE)
       ELSE UNCHANGED RegistryVars

OtherVars == <<s_mode, s_is_switching, s_light_sleep_en, s_config_changed,
               s_cpu_freq_by_mode, syncVars, hwVars,
               newFreq, oldTicks, cfgChanged>>

(* A task on core c acquires client handle k. *)
ClientAcquire(c, k) ==
  /\ pc[c] = "idle"
  /\ ClientCore[k] = c
  /\ handleCount[Client(k)] < MaxNest
  /\ esp_pm_lock_acquire(c, Client(k))
  /\ UNCHANGED <<OtherVars, s_core_idle>>

(* A task on core c releases client handle k. *)
ClientRelease(c, k) ==
  /\ pc[c] = "idle"
  /\ ClientCore[k] = c
  /\ esp_pm_lock_release(c, Client(k))
  /\ UNCHANGED <<OtherVars, s_core_idle>>

(* esp_pm_impl_idle_hook (lines 437-447).  s_core_idle[c] is written after *)
(* the release returns; only core c reads it and core c runs this         *)
(* operation to its end with interrupts masked, so it is set in the first *)
(* step.                                                                    *)
esp_pm_impl_idle_hook(c) ==
  /\ pc[c] = "idle"
  /\ ~s_core_idle[c]
  /\ esp_pm_lock_release(c, Rtos(c))
  /\ s_core_idle' = [s_core_idle EXCEPT ![c] = TRUE]
  /\ UNCHANGED OtherVars

(* update_ccompare (lines 413-425) on a CCOMPARE scaled for `freq` ticks/us: *)
(* the remaining cycles are multiplied by mul/div, which lands at the same *)
(* instant only if the value was scaled for div; otherwise it is skewed    *)
(* (0).  The branches that leave an already-due or a more-than-one-tick     *)
(* value untouched are abstracted away.                                     *)
update_ccompare(freq, div, mul) == IF freq = div THEN mul ELSE 0

(* esp_pm_impl_isr_hook (lines 467-482), branch taken when the other core  *)
(* asked for a CCOMPARE update with the cross-core interrupt.               *)
IsrHookUpdateCcompare(c) ==
  /\ pc[c] = "idle"
  /\ MultiCore
  /\ s_need_update_ccompare[c]
  /\ ccompareFreq' = [ccompareFreq EXCEPT
                        ![c] = update_ccompare(@, s_ccount_div, s_ccount_mul)]
  /\ s_need_update_ccompare' = [s_need_update_ccompare EXCEPT ![c] = FALSE]
  /\ UNCHANGED <<pmVars, s_ccount_div, s_ccount_mul, cpuFreq, apbFreq,
                 tickFreq, localVars, s_core_idle, handleCount>>

(* esp_pm_impl_isr_hook, other branch: leave_idle (lines 427-435) takes    *)
(* the rtos lock back if the idle hook had released it.                     *)
IsrHookLeaveIdle(c) ==
  /\ pc[c] = "idle"
  /\ ~(MultiCore /\ s_need_update_ccompare[c])
  /\ s_core_idle[c]
  /\ esp_pm_lock_acquire(c, Rtos(c))
  /\ s_core_idle' = [s_core_idle EXCEPT ![c] = FALSE]
  /\ UNCHANGED OtherVars

(* Fault: the spin loop leaves this core's update request pending. *)
DoSwitchSpinKeepFlag(c) ==
  /\ pc[c] = "ds_spin"
  /\ s_is_switching
  /\ s_need_update_ccompare[c]
  /\ UNCHANGED vars

(* do_switch (lines 356-365): while another switch is in progress, spin,   *)
(* clearing this core's pending CCOMPARE update request without doing the  *)
(* update (the other core waits for it with this core's interrupts masked). *)
(* A spin iteration that finds the flag clear changes nothing.             *)
DoSwitchSpin(c) ==
  /\ pc[c] = "ds_spin"
  /\ s_is_switching
  /\ s_need_update_ccompare[c]
  /\ s_need_update_ccompare' = [s_need_update_ccompare EXCEPT ![c] = FALSE]
  /\ UNCHANGED <<pmVars, s_ccount_div, s_ccount_mul, hwVars, localVars,
                 s_core_idle, handleCount>>

(* Fault: the switch is claimed without checking s_is_switching. *)
DoSwitchEnterNoWait(c) ==
  /\ pc[c] = "ds_spin"
  /\ IF newMode[c] = s_mode
       THEN /\ pc' = [pc EXCEPT ![c] = "idle"]
            /\ LocalsReset(c)
            /\ UNCHANGED <<s_is_switching, s_config_changed>>
       ELSE /\ s_is_switching' = TRUE
            /\ cfgChanged' = [cfgChanged EXCEPT ![c] = s_config_changed]
            /\ s_config_changed' = FALSE
            /\ pc' = [pc EXCEPT ![c] = "ds_freq"]
            /\ UNCHANGED <<newMode, newFreq, oldTicks>>
  /\ UNCHANGED <<s_mode, s_mode_lock_counts, s_mode_mask, s_light_sleep_en,
                 s_cpu_freq_by_mode, syncVars, hwVars, s_core_idle, handleCount>>

(* do_switch (lines 357-373): the loop exits holding the lock; a switch to *)
(* the current mode returns, otherwise the switch is claimed and           *)
(* s_config_changed is taken and cleared.                                   *)
DoSwitchEnter(c) ==
  /\ pc[c] = "ds_spin"
  /\ ~s_is_switching
  /\ IF newMode[c] = s_mode
       THEN /\ pc' = [pc EXCEPT ![c] = "idle"]
            /\ LocalsReset(c)
            /\ UNCHANGED <<s_is_switching, s_config_changed>>
       ELSE /\ s_is_switching' = TRUE
            /\ cfgChanged' = [cfgChanged EXCEPT ![c] = s_config_changed]
            /\ s_config_changed' = FALSE
            /\ pc' = [pc EXCEPT ![c] = "ds_freq"]
            /\ UNCHANGED <<newMode, newFreq, oldTicks>>
  /\ UNCHANGED <<s_mode, s_mode_lock_counts, s_mode_mask, s_light_sleep_en,
                 s_cpu_freq_by_mode, syncVars, hwVars, s_core_idle, handleCount>>

(* Fault: the old frequency is always taken from the table. *)
OldFreqFromTable(c) == s_cpu_freq_by_mode[s_mode]

(* do_switch old_freq (lines 376-381): after a reconfiguration the table   *)
(* entry of the current mode may be stale, so the clock itself is read.    *)
OldFreq(c) == IF ~cfgChanged[c] THEN s_cpu_freq_by_mode[s_mode] ELSE cpuFreq

(* do_switch (lines 375-392), outside the lock: old and new frequency from *)
(* the table, or the clock itself after a reconfiguration; the direction   *)
(* decides whether timers are rescaled before or after the clock changes.  *)
DoSwitchReadFreqs(c) ==
  LET new_freq == s_cpu_freq_by_mode[newMode[c]]
      old_freq == OldFreq(c)
      old_ticks_per_us == s_cpu_freq_to_ticks[cpuFreq]
      switch_down == s_cpu_freq_to_ticks[new_freq] < old_ticks_per_us
  IN /\ pc[c] = "ds_freq"
     /\ IF new_freq = old_freq
          THEN /\ pc' = [pc EXCEPT ![c] = "ds_commit"]
               /\ UNCHANGED <<newFreq, oldTicks>>
          ELSE /\ newFreq' = [newFreq EXCEPT ![c] = new_freq]
               /\ oldTicks' = [oldTicks EXCEPT ![c] = old_ticks_per_us]
               /\ pc' = [pc EXCEPT ![c] =
                           IF switch_down THEN "of_update" ELSE "set_freq"]
     /\ cfgChanged' = [cfgChanged EXCEPT ![c] = FALSE]
     /\ UNCHANGED <<pmVars, syncVars, hwVars, newMode, s_core_idle, handleCount>>

(* Where do_switch continues after on_freq_update (lines 390-396). *)
AfterFreqUpdate(c) == IF SwitchDown(c) THEN "set_freq" ELSE "ds_commit"

(* rtc_clk_cpu_freq_set_fast(new_freq) (line 393); it also updates         *)
(* g_ticks_per_us_pro.                                                      *)
SetCpuFreq(c) ==
  /\ pc[c] = "set_freq"
  /\ cpuFreq' = newFreq[c]
  /\ pc' = [pc EXCEPT ![c] = IF SwitchDown(c) THEN "ds_commit" ELSE "of_update"]
  /\ UNCHANGED <<pmVars, syncVars, apbFreq, tickFreq, ccompareFreq,
                 newMode, newFreq, oldTicks, cfgChanged, s_core_idle, handleCount>>

(* Fault: this core's CCOMPARE is not rescaled. *)
RescaleLocalSkipped(c, old, new) == UNCHANGED ccompareFreq

(* on_freq_update (lines 319-323): scale factors, then update_ccompare on  *)
(* the calling core.                                                        *)
RescaleLocal(c, old, new) ==
  ccompareFreq' = [ccompareFreq EXCEPT ![c] = update_ccompare(@, old, new)]

(* on_freq_update (lines 301-331): new APB frequency for esp_timer, new    *)
(* tick divisor, scale factors, CCOMPARE of this core, then on two cores   *)
(* the request to the other core (flag, then cross-core interrupt).        *)
on_freq_update(c) ==
  LET old == oldTicks[c]
      new == s_cpu_freq_to_ticks[newFreq[c]]
  IN /\ pc[c] = "of_update"
     /\ apbFreq' = IF MinOf(old, 80) # MinOf(new, 80) THEN MinOf(new, 80)
                                                      ELSE apbFreq
     /\ tickFreq' = new
     /\ RescaleLocal(c, old, new)
     /\ IF MultiCore
          THEN /\ s_ccount_div' = old
               /\ s_ccount_mul' = new
               /\ s_need_update_ccompare' =
                    [s_need_update_ccompare EXCEPT ![Other(c)] = TRUE]
               /\ pc' = [pc EXCEPT ![c] = "of_wait"]
          ELSE /\ UNCHANGED syncVars
               /\ pc' = [pc EXCEPT ![c] = AfterFreqUpdate(c)]
     /\ UNCHANGED <<pmVars, cpuFreq, newMode, newFreq, oldTicks, cfgChanged,
                    s_core_idle, handleCount>>

(* Fault: the scale factors are cleared without waiting for the other core. *)
OnFreqUpdateNoWait(c) ==
  /\ pc[c] = "of_wait"
  /\ s_ccount_div' = 0
  /\ s_ccount_mul' = 0
  /\ pc' = [pc EXCEPT ![c] = AfterFreqUpdate(c)]
  /\ UNCHANGED <<pmVars, s_need_update_ccompare, hwVars, newMode, newFreq,
                 oldTicks, cfgChanged, s_core_idle, handleCount>>

(* on_freq_update (lines 332-341): busy-wait until the other core cleared  *)
(* its flag, then clear the scale factors.  The CCOMPARE_UPDATE_TIMEOUT    *)
(* assert is not modelled as a counter: SwitchCompletes says it is never   *)
(* needed.                                                                  *)
OnFreqUpdateWait(c) ==
  /\ pc[c] = "of_wait"
  /\ ~s_need_update_ccompare[Other(c)]
  /\ s_ccount_div' = 0
  /\ s_ccount_mul' = 0
  /\ pc' = [pc EXCEPT ![c] = AfterFreqUpdate(c)]
  /\ UNCHANGED <<pmVars, s_need_update_ccompare, hwVars, newMode, newFreq,
                 oldTicks, cfgChanged, s_core_idle, handleCount>>

(* do_switch (lines 400-403): commit the mode and end the switch. *)
DoSwitchCommit(c) ==
  /\ pc[c] = "ds_commit"
  /\ s_mode' = newMode[c]
  /\ s_is_switching' = FALSE
  /\ pc' = [pc EXCEPT ![c] = "idle"]
  /\ LocalsReset(c)
  /\ UNCHANGED <<s_mode_lock_counts, s_mode_mask, s_light_sleep_en,
                 s_config_changed, s_cpu_freq_by_mode, syncVars, hwVars,
                 s_core_idle, handleCount>>

(* max_freq_of (lines 171-181). *)
max_freq_of(f1, f2) ==
  IF s_cpu_freq_to_ticks[f1] >= s_cpu_freq_to_ticks[f2] THEN f1 ELSE f2

(* esp_pm_configure (lines 183-241), called by a task on a core.  The      *)
(* rejected configurations (light sleep without tickless idle, a 2 MHz     *)
(* minimum, min above max) return an error and change nothing.              *)
esp_pm_configure(c, min_freq, max_freq, light_sleep_enable) ==
  LET apb0 == CASE max_freq = "240M" -> "240M"
                [] max_freq \in {"160M", "80M"} -> "80M"
                [] OTHER -> max_freq
      apb_max_freq == max_freq_of(apb0, min_freq)
  IN /\ pc[c] = "idle"
     /\ light_sleep_enable => Tickless
     /\ min_freq # "2M"
     /\ s_cpu_freq_to_ticks[min_freq] <= s_cpu_freq_to_ticks[max_freq]
     /\ s_cpu_freq_by_mode' =
          [m \in Modes |-> CASE m = PM_MODE_CPU_MAX -> max_freq
                             [] m = PM_MODE_APB_MAX -> apb_max_freq
                             [] OTHER -> min_freq]
     /\ s_light_sleep_en' = light_sleep_enable
     /\ s_config_changed' = TRUE
     /\ UNCHANGED <<s_mode, s_is_switching, s_mode_lock_counts, s_mode_mask,
                    syncVars, hwVars, localVars, s_core_idle, handleCount>>

-----------------------------------------------------------------------------
(* The steps of an operation already under way on core c. *)
CoreStep(c) ==
  \/ DoSwitchSpin(c)
  \/ DoSwitchEnter(c)
  \/ DoSwitchReadFreqs(c)
  \/ SetCpuFreq(c)
  \/ on_freq_update(c)
  \/ OnFreqUpdateWait(c)
  \/ DoSwitchCommit(c)

(* Operations a core may start when it runs task code with interrupts on. *)
CoreCall(c) ==
  \/ \E k \in Clients : ClientAcquire(c, k) \/ ClientRelease(c, k)
  \/ esp_pm_impl_idle_hook(c)
  \/ IsrHookUpdateCcompare(c)
  \/ IsrHookLeaveIdle(c)
  \/ \E mn, mx \in ConfigFreqs, ls \in BOOLEAN : esp_pm_configure(c, mn, mx, ls)

Next == \E c \in Cores : CoreStep(c) \/ CoreCall(c)

(* A core that has begun an operation keeps running it, and a core running *)
(* task code takes a pending cross-core interrupt.  The spin loop of       *)
(* do_switch retakes s_switch_lock without pause, so a core in it that     *)
(* finds s_is_switching clear infinitely often does leave it (strong       *)
(* fairness).  Client calls, hooks and reconfiguration are the environment *)
(* and need not happen.                                                     *)
Fairness ==
  \A c \in Cores : /\ WF_vars(CoreStep(c))
                  /\ SF_vars(DoSwitchEnter(c))
                  /\ WF_vars(IsrHookUpdateCcompare(c))

Spec == Init /\ [][Next]_vars /\ Fairness

-----------------------------------------------------------------------------
(* Refinement mapping to PmAbstract: the registry is s_mode_lock_counts,   *)
(* the live mode s_mode, and a core's pending decision the new_mode of the *)
(* do_switch call it is in (from the critical section of                   *)
(* esp_pm_impl_switch_mode until do_switch commits or returns early).      *)
Abstract == INSTANCE PmAbstract WITH
              lockCounts <- s_mode_lock_counts,
              mode <- s_mode,
              pending <- [c \in Cores |-> IF pc[c] = "idle" THEN -1 ELSE newMode[c]],
              lightSleep <- s_light_sleep_en

-----------------------------------------------------------------------------
(* Properties *)

TypeOK ==
  /\ s_mode \in Modes
  /\ s_is_switching \in BOOLEAN
  /\ s_mode_lock_counts \in [Modes -> Nat]
  /\ s_mode_mask \in 0 .. AllModeBits
  /\ s_ccount_div \in Nat /\ s_ccount_mul \in Nat
  /\ s_need_update_ccompare \in [Cores -> BOOLEAN]
  /\ s_core_idle \in [Cores -> BOOLEAN]
  /\ s_cpu_freq_by_mode \in [Modes -> CpuFreqs]
  /\ s_light_sleep_en \in BOOLEAN /\ s_config_changed \in BOOLEAN
  /\ cpuFreq \in CpuFreqs
  /\ apbFreq \in Nat /\ tickFreq \in Nat /\ ccompareFreq \in [Cores -> Nat]
  /\ handleCount \in [Handles -> Nat]
  /\ pc \in [Cores -> Steps]
  /\ newMode \in [Cores -> Modes] /\ newFreq \in [Cores -> CpuFreqs]
  /\ oldTicks \in [Cores -> Nat]
  /\ cfgChanged \in [Cores -> BOOLEAN]

(* The registry of esp_pm_impl_switch_mode agrees with the lock handles    *)
(* across every interleaving of acquires, releases and idle/ISR hooks on   *)
(* both cores: s_mode_lock_counts[m] is the number of held handles of mode *)
(* m, BIT(m) of s_mode_mask is set iff that count is positive, and the     *)
(* rtos lock of a core is held iff the core is not marked idle.            *)
RegistryConsistent ==
  /\ \A m \in Modes :
       /\ s_mode_lock_counts[m] =
            Cardinality({h \in Handles : HandleMode(h) = m /\ handleCount[h] > 0})
       /\ ((s_mode_mask \div BIT(m)) % 2 = 1) <=> s_mode_lock_counts[m] > 0
  /\ \A c \in Cores : handleCount[Rtos(c)] = IF s_core_idle[c] THEN 0 ELSE 1

(* do_switch's s_is_switching flag is a mutex: at most one core is between *)
(* claiming a switch and committing it, and the flag is set exactly while  *)
(* one is.                                                                  *)
SwitchExclusive ==
  /\ \A c, d \in Cores : c # d => ~(pc[c] \in SwitchingSteps /\ pc[d] \in SwitchingSteps)
  /\ s_is_switching <=> \E c \in Cores : pc[c] \in SwitchingSteps

(* Whenever a core has a pending CCOMPARE update request, the scale        *)
(* factors its ISR hook will divide by are set (update_ccompare divides by *)
(* s_ccount_div): on_freq_update must not clear them before the other core *)
(* has acknowledged.                                                        *)
ScaleFactorsValid ==
  \A c \in Cores : s_need_update_ccompare[c] => s_ccount_div # 0 /\ s_ccount_mul # 0

(* When no operation is under way, the tick divisor and esp_timer's APB    *)
(* frequency match the CPU clock, and unless a reconfiguration is still    *)
(* pending the clock runs at the configured frequency of the current mode, *)
(* despite esp_pm_configure rewriting the table while do_switch reads it   *)
(* outside the lock.                                                        *)
ClockConsistent ==
  Quiescent =>
    /\ tickFreq = s_cpu_freq_to_ticks[cpuFreq]
    /\ apbFreq = MinOf(s_cpu_freq_to_ticks[cpuFreq], 80)
    /\ ~s_config_changed => cpuFreq = s_cpu_freq_by_mode[s_mode]

(* The guarantee of a performance lock (spec section 5): when no operation *)
(* is under way, the current mode is at least the mode of every held lock. *)
ModeCoversLocks ==
  Quiescent => \A h \in Handles : handleCount[h] > 0 => s_mode >= HandleMode(h)

(* When no operation is under way, the pending CCOMPARE of every core is   *)
(* scaled for the clock the CPU runs at (spec section 4.4: every core's    *)
(* compare value is rescaled on a frequency change).                       *)
TimerResynced ==
  Quiescent => \A c \in Cores : ccompareFreq[c] = s_cpu_freq_to_ticks[cpuFreq]

(* Every operation a core begins comes to an end: the cross-core CCOMPARE  *)
(* handshake of on_freq_update never leaves the initiator waiting forever  *)
(* on a core that itself spins in do_switch (the deadlock the              *)
(* CCOMPARE_UPDATE_TIMEOUT assert is there to detect).                     *)
SwitchCompletes == \A c \in Cores : pc[c] # "idle" ~> pc[c] = "idle"

(* PmImpl implements PmAbstract: every step of the lock layer, the hooks,  *)
(* do_switch and esp_pm_configure either stutters on the abstract state or *)
(* is one atomic lock/unlock that decides the mode get_lowest_allowed_mode *)
(* gives for the counts (so the incremental s_mode_mask never drifts from  *)
(* them), or applies a core's own decision; and every decision is applied. *)
AbstractSpec == Abstract!Spec

=============================================================================
