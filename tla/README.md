# Model-checking esp-idf-tribeapp: power manager, PHY and PPP

This directory holds TLA+ models of the esp-idf-tribeapp sources under
`src/`. TLC checks them. The main subject is dynamic frequency scaling in
`src/components/esp32s2beta/pm_esp32s2beta.c`. This is the part of the
repository in which several cores, interrupt hooks and the idle task share
state.

## The system

### Parts

| Part | Source | State | Operations |
|---|---|---|---|
| Mode table | `pm_esp32s2beta.c` | `s_cpu_freq_by_mode`, `s_light_sleep_en`, `s_config_changed` | `esp_pm_impl_init`, `esp_pm_configure` |
| Lock registry | `pm_esp32s2beta.c` (plus `pm_locks.c`, which is not in the repository) | `s_mode_lock_counts[]`, `s_mode_mask`, the per-handle counts | `esp_pm_impl_switch_mode` (lock, unlock), `esp_pm_lock_acquire/release` |
| Mode arbiter | `pm_esp32s2beta.c` | none | `get_lowest_allowed_mode`; its promise is stated in `PmAbstract` |
| Switch protocol | `pm_esp32s2beta.c` | `s_mode`, `s_is_switching`, `s_ccount_div/mul`, `s_need_update_ccompare[]`, and the CPU, APB and tick frequencies and the CCOMPARE of each core | `do_switch`, `on_freq_update`, `update_ccompare` |
| Idle integration | `pm_esp32s2beta.c` | `s_core_idle[]`, the rtos lock of each core | `esp_pm_impl_idle_hook`, `esp_pm_impl_isr_hook` / `leave_idle`, `vApplicationSleep`, `esp_pm_impl_waiti` |
| Profiling | `pm_esp32s2beta.c` (`CONFIG_PM_PROFILING`) | `s_time_in_mode[]`, `s_last_mode_change_time` | inside `esp_pm_impl_switch_mode`, and `esp_pm_impl_dump_stats` |
| PHY enable and calibration | `esp_wifi/src/phy_init.c` | `s_phy_access_ref`, `s_is_phy_calibrated`, calibration data in NVS | `esp_phy_enable/disable`, `esp_phy_load_cal_and_init` |
| PPP netif | `esp_netif/lwip/esp_netif_lwip_ppp.c` | `lwip_ppp_ctx` (the pcb and two event flags) | `esp_netif_new/start/stop/destroy_ppp`, `esp_netif_ppp_set_params`, and the lwIP callbacks `on_ppp_status_changed` and `on_ppp_notify_phase`, which post events |
| Start-up, bootloader, CAN and Modbus headers | `cpu_start.c`, `bootloader_esp32s2beta.c`, `can.h`, `port.h` | boot-time registers only | sequential bring-up and declarations |

### How the parts interact

A task or interrupt takes or releases a lock. The registry changes under
`s_switch_lock`, and `get_lowest_allowed_mode` picks the new mode from the
mask. `do_switch` is then called outside the critical section.

`do_switch` takes the lock again and spins while another core is switching.
In that spin loop it clears its own CCOMPARE request. It then claims the
switch and reads the old and new frequencies. Switching down, it rescales
first and then sets the CPU clock. Switching up, it sets the clock first and
then rescales.

Rescaling is done by `on_freq_update`. It updates the APB frequency and the
tick divisor and publishes `s_ccount_div/mul`. It rescales the local
CCOMPARE, then sets the other core's request flag and interrupts that core.
It busy-waits until that core's ISR hook has cleared the flag, and clears the
factors afterwards.

The idle hook of each core releases that core's rtos lock (CPU_MAX). The
first interrupt afterwards retakes it (`leave_idle`).

With profiling, every lock call reads the clock before it takes any lock
(`pm_locks.c`). The decision in `esp_pm_impl_switch_mode` charges the time
since the last recorded change to `s_mode` and records the caller's
timestamp.

The PPP adapter is separate from the power manager. The application
creates, starts, stops and destroys the interface. lwIP's tcpip thread runs
the PPP state machine and calls back into the adapter, which posts events
with timeout 0 to the default event loop.

## Modules

### `PmImpl.tla`

This module covers the mode table, the registry, the arbiter, the switch
protocol and the idle and ISR hooks, for one or two cores (`Cores`).

**Variables.** Each C global is a variable of the same name. The hardware is
represented by `cpuFreq`, `apbFreq` and `tickFreq`. `ccompareFreq[c]`
records the frequency for which core `c`'s compare value is currently scaled.
The per-handle counts of the lock layer are `handleCount`. The locals of a
`do_switch` in progress on core `c` are `newMode[c]`, `newFreq[c]`,
`oldTicks[c]` and `cfgChanged[c]`. Its program counter is `pc[c]`.

**Actions.** Each step between two lock operations or two waits of the code
is one action.

The switch protocol:

| Action | Code it models |
|---|---|
| `DoSwitchSpin` | one iteration of the spin loop |
| `DoSwitchEnter` | the critical section that claims the switch, or returns early |
| `DoSwitchReadFreqs` | the unlocked table read and the choice of direction |
| `on_freq_update` | everything up to the cross-core interrupt |
| `OnFreqUpdateWait` | the busy-wait and the clearing of the factors |
| `SetCpuFreq` | `rtc_clk_cpu_freq_set_config_fast` |
| `DoSwitchCommit` | the final critical section |

Registry and hooks:

| Action | Code it models |
|---|---|
| `esp_pm_impl_switch_mode` | its critical section |
| `ClientAcquire` / `ClientRelease` | a client's `esp_pm_lock_acquire` / `esp_pm_lock_release` |
| `esp_pm_impl_idle_hook` | the idle hook |
| `IsrHookUpdateCcompare` | the ISR hook with the request flag set |
| `IsrHookLeaveIdle` | the ISR hook with the flag clear |
| `esp_pm_configure` | a whole call with arguments from small sets, rejected inputs included |

A client handle is fixed to one lock type and one core (`ClientType`,
`ClientCore`); `esp_pm_impl_get_mode` (in `PmModes`) gives its mode, and
the rtos handles are of type ESP_PM_CPU_FREQ_MAX as `esp_pm_impl_init`
creates them. `MaxNest` bounds how often it may be nested.

**What is abstracted.** Timer values are not modelled. The model tracks for
which frequency each CCOMPARE is scaled, and `update_ccompare` scales it only
when the published divisor matches. Frequencies are the five configurations
of `s_cpu_freq_to_ticks`. `Init` is the state after `esp_pm_impl_init`: every
core's rtos lock is held, the mode is CPU_MAX and the table is all
`DefaultFreq`.

### `PhyInit.tla`

This module covers `src/components/esp_wifi/src/phy_init.c`. The WiFi and
BT stacks (`Clients`) call `esp_phy_enable` and `esp_phy_disable` under the
mutex `s_phy_access_lock`.

**Enable and disable.** The first enable after a reset keeps the mutex
while `esp_phy_load_cal_and_init` runs, and that routine is split into the
steps at which a reset or an NVS error can intervene:

| Action | Code it models |
|---|---|
| `CalInit` | `calloc` of the calibration buffer, `esp_phy_get_init_data` and the TX-power copy; any failure is `Abort` |
| `CalLoad` | the load and the calibration-mode choice |
| `CalRegister` | `register_chipv7_phy` and the store decision |
| `StoreOpen` | `nvs_open` |
| `StoreSet` | one `nvs_set_*`, in the order of `StoreOrder` |
| `StoreCommit` | `nvs_commit` |
| `CalFinish` | the frees at the end of the routine and the end of `esp_phy_enable` |

Other enables and every disable are single actions. Power state is
`clockOn` and `rfOn`. The digital-register backup (`s_phy_digital_regs_mem`)
has its failing `malloc`. `backupValid` says whether the buffer holds the
registers as they were when `esp_phy_disable` copied them, before
`phy_close_rf`, and a wake restores the registers only from such a buffer.
`backupLost` records a failed backup `malloc` since the last reset.

**Allocations.** `heapBlocks` counts the buffers of
`esp_phy_load_cal_and_init` that are not freed yet. With
`InitDataInPartition`, `esp_phy_get_init_data` may find no partition, fail
its `malloc`, or return NULL while still holding its buffer (a failed read
or a wrong magic word). With `ReducePhyTxPower` the routine also
allocates a copy of the init data. Every NULL ends in `Abort`: `abort()`
restarts the same image with RAM cleared and NVS kept, and the reset reason
is not a deep-sleep wake. Both options are on in the runs.

**NVS.** The namespace "phy" is the record `nvs`, with the keys
`cal_version`, `cal_mac` and `cal_data`. A calibration blob is abstracted
to the format version and MAC it was made with and a damage flag. Its size
is the same in every version, so the length checks never fail on data this
code wrote.

Each `nvs_set_*` is assumed durable when it returns. The NVS API allows
this, and it is the pessimistic case for a reset between writes.

**Environment.** `esp_phy_erase_cal_data_in_nvs` runs without the mutex at
any time. `Reset` reinitialises RAM, keeps NVS, and may do any of these:
- corrupt the stored blob;
- be a deep-sleep wake (calibration mode NONE);
- boot a newer image with another calibration format (`curVer`);
- with `AllowRollback`, boot an older image.

libphy's `register_chipv7_phy` reports a checksum failure for damaged data.
Whether it also rejects data of another format is left open.

### `PmModes.tla`

The mode numbers, `get_lowest_allowed_mode` (and a faulty variant used as a
mutant) and `ModeMaskAfter`, the mask update of `esp_pm_impl_switch_mode`.
`PmImpl`, `PmAbstract` and `PmProfiling` extend it.

### `PmAbstract.tla`

This module states what the registry and the arbiter promise, with no
frequencies, timers or `do_switch` steps. The state is the per-mode counts
`lockCounts`, the live `mode`, `lightSleep`, and `pending[c]`, a decided
mode that core `c` has not applied yet.
- `Lock(c, m)` and `Unlock(c, m)` change a count atomically. On a 0->1 or
  1->0 change they decide, in the same step, the mode that
  `get_lowest_allowed_mode` gives for the mask of the counts.
- `Apply(c)` makes core `c`'s own decision the live mode. Decisions of two
  cores may be applied in either order.
- `Configure` switches light sleep on or off.
- `Apply` is weakly fair: every decision is applied.

`PmImpl` instantiates it as `Abstract`. The refinement mapping takes the
counts from `s_mode_lock_counts` and the mode from `s_mode`. A core's pending
decision is the `new_mode` of the `do_switch` it is in: from the critical
section of `esp_pm_impl_switch_mode` until `DoSwitchCommit`, or until
`DoSwitchEnter` returns early. Every other step of `PmImpl` leaves the
abstract state unchanged. That includes the frequency and timer steps, nested
acquires and esp_pm_configure's table. The mapping decides from the counts,
not from `s_mode_mask`, so the refinement also shows that the incremental mask
never drifts from the counts.

### `CcompareArith.tla`

This module covers the arithmetic of `update_ccompare`, which `PmImpl`
abstracts to "scaled for the right frequency or not". `UpdateCcompare`
translates lines 412-425 in unsigned arithmetic of `Width` bits:
- the wrapped `ccompare - 1000 - ccount` test against `UINT32_MAX / 2`;
- the product `diff * s_ccount_mul`;
- the rounding-up division;
- the commit test against the new `_xt_tick_divisor`.

The reference `Rescaled` works in mathematical integers. It takes the signed
distance on the counter circle, and when that distance is at least 1000
cycles it computes ceil(d * new / old). It commits only if the result is
under one tick. One call is one step: `Init` picks the inputs and `Update`
runs the routine. The inputs cover:
- the counter at 0, at mid-range and at the maximum;
- distances of -1000, -1, 0, 1, 999, 1000, 1001, 1234, one tick period minus
  one, and one tick period at the old rate;
- every ordered pair of distinct rates among 2, 40, 80, 160 and 240 ticks/us.

### `PmProfiling.tla`

This module covers the time-in-mode accounting. Each core runs two
lock-taking contexts (`Ctx`): its client task, which toggles one lock of
type `ClientType[c]`, and the rtos path (`leave_idle` from the ISR hook, or
the idle hook). A lock call is three steps:
- `pm_get_time`: the clock read before the handle's spinlock;
- `LockSection`: the handle count and the critical section of
  `esp_pm_impl_switch_mode`, including `ChargeTimeInMode`;
- `do_switch`: reduced to its commit of `s_mode`, since `PmImpl` models
  the frequency protocol.

`LockDone` sets or clears `s_core_idle`. `MayStart` is the scheduling
rule: a task runs only on a core that is out of idle and not in its ISR,
and the idle hook runs only while the task is blocked. The idle hook masks
interrupts of its own core only, so the other core still interleaves.
`Tick` advances the clock, and `esp_pm_impl_dump_stats` records the report
it would print in `dumped`. `LightSleepEn` is assumed FALSE: `esp_pm_configure`
rejects light sleep without `CONFIG_FREERTOS_USE_TICKLESS_IDLE` (lines
190-191), and with that option the file does not build (line 453).

### `PppNetif.tla`

This module covers `esp_netif_lwip_ppp.c`.
- **State.** `ctx` is the `lwip_ppp_ctx` (none, alive, freed), `pcb` the
  lwIP pcb reduced to its phase (dead, establish, running, terminate) or
  NULL or freed, `phase_ev`/`error_ev` the two flags, `err_code` the code
  lwIP reports at the end, and `evq` the bounded event queue.
- **Application calls.** Each API function is one action: the `pppapi_*`
  calls run synchronously in the tcpip thread. `ppp_close` is modelled per
  phase (immediate USER report in DEAD, TERMINATE from ESTABLISH or
  RUNNING, ERR_INPROGRESS while terminating), and so is `pppapi_free`
  (ERR_CONN unless DEAD).
- **lwIP.** `PppIpUp`, `PppLinkDown` (CONNECT or PEERDEAD) and
  `PppTerminated` are the environment. Each calls the phase callback and
  the status callback in lwIP's order.
- **Callbacks.** They are sequences of events with their real ids (error
  codes, and phases offset by `NETIF_PP_PHASE_OFFSET`). `PostAll` drops
  what does not fit, as a timeout-0 post does, and sets the history flag
  `dropped`. A callback after the context is freed sets `fault`.
- **Application.** `AppConsume` handles the oldest event. `AppStop` stops
  a started interface. `AppDestroy` destroys it either once stop returned
  ESP_OK (`DestroyAfterStop`) or once a NETIF_PPP_STATUS error was seen.
  `AppSetParams` sets the two event flags only between sessions, as an
  application does before `esp_netif_start`. `appSignalled` records that
  the application has seen the end of the session (a status error or
  LOST_IP).
- **Fairness.** `Fairness` is weak fairness on `AppConsume` (the default
  event loop task keeps draining its queue) and on `PppTerminated` (lwIP's
  LCP timers end a TERMINATE phase once the Terminate-Request retries run
  out). The application and the peer get no fairness.

### `MC_PmImpl.tla`

This module gives the constant values used by the cfgs: one or two cores,
two clients and small sets of configurable frequencies. `MC_PhyInit.tla`
gives WiFi and BT as the clients and two format versions.
`MC_PmProfiling.tla` gives two cores whose client locks are APB_MAX and
APB_MIN, and one core with an APB_MAX client. `MC_PppNetif.tla` only extends its module; the cfgs give every
constant. `MC_CcompareArith.tla` gives the five CCOUNT rates.

## Runs

| Run | Cfg | Expect | What it shows |
|---|---|---|---|
| pm_core | `MC_PmImpl_core.cfg` | pass | On two cores the following hold: `RegistryConsistent` (the counts are the held handles per mode, and a mask bit is set iff its count is positive); `SwitchExclusive` (at most one core switches, and `s_is_switching` says so); `ScaleFactorsValid` (a pending CCOMPARE request always finds nonzero `s_ccount_div/mul`); `ClockConsistent` (at rest the tick divisor and APB frequency match the CPU clock, and the clock is the table's entry for `s_mode` unless a reconfiguration is pending). |
| pm_live | `MC_PmImpl_live.cfg` | pass | `SwitchCompletes`: every started operation returns. The handshake does not deadlock against a core spinning in `do_switch`, because that core clears its own flag. `AbstractSpec`: `PmImpl` implements `PmAbstract`, liveness included. The mode race of the first finding is allowed by the abstract specification, because decisions of two cores may be applied in either order. |
| ccompare_ref | `MC_CcompareArith_ref.cfg` | pass | `RescaleMatchesReference`: for all 20 rate pairs and every boundary input, `update_ccompare` leaves the value the reference gives. This holds also when the counter wraps between now and the compare value. Of the 1,185 states, 600 are inputs. |
| pm_single | `MC_PmImpl_single.cfg` | pass | With one core, `ModeCoversLocks` holds (at rest the mode is at or above every held lock) and so does `TimerResynced` (every CCOMPARE is scaled for the current clock). |
| pm_mode_race | `MC_PmImpl_moderace.cfg` | violation | `ModeCoversLocks` fails on two cores. See the first finding below. |
| pm_resync_drop | `MC_PmImpl_resyncdrop.cfg` | violation | `TimerResynced` fails on two cores. See the second finding below. |
| phy_safety | `MC_PhyInit_safety.cfg` | pass | `PhyPowerConsistent`: whenever the mutex is free, the count is the number of enabling clients, RF and clock are on exactly while it is positive, and a powered PHY is calibrated. `LoadedCalCurrent`: the loader accepts only this chip's data of the running format. `NvsHoldsCalibration`: after calibration in a boot with no NVS error and no erase, NVS holds a valid, undamaged record. `PhyRegistersRestored`: a powered PHY has valid digital registers unless a backup `malloc` failed since the reset. `InitBuffersFreed`: once the first enable returns, no calibration or init-data buffer is left allocated. |
| phy_rollback | `MC_PhyInit_rollback.cfg` | violation | `LoadedCalCurrent` fails once rollback is allowed. See the third finding below. |
| prof_safety | `MC_PmProfiling_safety.cfg` | pass | On one core, with the client task, the idle hook and `leave_idle` interleaved and the clock running, `DumpNonNegative`: every time `esp_pm_impl_dump_stats` prints is non-negative. |
| prof_negative | `MC_PmProfiling_negative.cfg` | violation | `DumpNonNegative` fails. See the fourth finding below. |
| ppp_safety | `MC_PppNetif_safety.cfg` | pass | For one session, with both event kinds on and a 3-entry queue that overflows: `SessionEndSignalled`: once the pcb is dead with error events on, the application eventually sees a status error or LOST_IP unless an event was dropped, also for a user close. |
| ppp_destroy_after_stop | `MC_PppNetif_destroy.cfg` | violation | `NoUseAfterFree` fails when the application destroys after a successful stop. See the fifth finding below. |

### Findings

1. **Stale mode decision (`pm_esp32s2beta.c:290`).** `esp_pm_impl_switch_mode`
   computes the new mode under the lock but calls `do_switch` after releasing
   it. In the 8-state trace, both cores' idle hooks run. Core 1's hook drops
   the last CPU_MAX lock and decides APB_MIN. Core 0's ISR hook retakes its
   rtos lock; its `do_switch(CPU_MAX)` returns early because `s_mode` is
   still CPU_MAX. Core 1 then applies APB_MIN while core 0 holds a CPU_MAX
   lock. Nothing raises the mode again until the mask changes.
2. **Dropped CCOMPARE update (`pm_esp32s2beta.c:361`).** A core that spins
   in `do_switch` clears its own request flag and does not call
   `update_ccompare`. This is what prevents the deadlock. But that core's
   compare value stays scaled for the old frequency, so its next tick
   arrives at the wrong time.

3. **Stale version key (`phy_init.c:393`).** `store_cal_data_to_nvs_handle`
   writes the version key last. If a store for format 2 is cut off after
   the data (by a reset or a failed `nvs_set`), the old key for format 1
   stays above format-2 data. After an OTA rollback to the format-1 image,
   `esp_phy_load_cal_data_from_nvs` returns `ESP_OK` for it. The header
   says data "obtained for a different version of software" is rejected.
   Without rollback, the write order makes the check sound, and the
   phy_safety run shows it. The version-first mutant breaks it even
   without rollback.

4. **Negative time in a mode (`pm_esp32s2beta.c:283`).** The timestamp is
   read before any lock (this is how `pm_locks.c`, which is not in the
   repository, calls `esp_pm_impl_switch_mode`). In the 12-state trace,
   with light sleep off:
   - core 0's idle hook gives back its rtos lock (states 2-4), and
     core 0's `leave_idle` then reads t=1 (state 5);
   - the clock ticks to 2 (state 6);
   - core 1's idle hook reads t=2, gives back the last CPU_MAX lock,
     charges 1 to CPU_MAX, records 2 and commits APB_MIN (states 7-9);
   - core 0's `leave_idle` charges 1 - 2 = -1 to APB_MIN and moves the
     record back to 1 (state 10), and commits CPU_MAX (state 11);
   - the dump prints -1 for APB_MIN (state 12).

   The overlap is counted twice, so the total stays right. On one core
   no negative value arises (prof_safety): while a task's timestamp is in
   flight its core holds the rtos lock, and the idle hook cannot run.
5. **Destroy during termination (`esp_netif_lwip_ppp.c:314`).**
   `esp_netif_stop_ppp` returns ESP_OK once `lcp_close` has started
   TERMINATE. `esp_netif_destroy_ppp` then ignores the ERR_CONN of
   `pppapi_free` and frees the context. The termination's phase and
   status callbacks dereference it (7-state trace), and the pcb leaks.
   Destroying after a status error is not safe either once the interface
   is restarted, because a status error carries no session identity: one
   queued by an earlier session may be handled during a later one (see
   the hazards in `PROJECT.json`).
6. **NULL pcb (`esp_netif_lwip_ppp.c:270`).** A failed
   `pppapi_pppos_create` is logged, but lines 274 and 276 use the NULL pcb.
   `PppNetif` models this outcome (`CreateMayFail` leads to fault
   `null_deref`). It has no run of its own, because the code shows it directly.
7. **No rescale close to the deadline (`pm_esp32s2beta.c:417`).** Section 4.4
   of the spec rescales every compare value that lies in the future.
   `update_ccompare` leaves one that is less than
   `CCOMPARE_MIN_CYCLES_IN_FUTURE` (1000) cycles ahead unchanged. After a
   switch up, that value fires early by at most 999 cycles at the old rate.
   The reference follows the code here.
8. **Leaked init-data buffer (`phy_init.c:221`, `:227`).** With
   `CONFIG_ESP32_PHY_INIT_DATA_IN_PARTITION`, `esp_phy_get_init_data`
   returns NULL after a failed `esp_partition_read` or a wrong magic word
   without freeing `init_data_store`. Inside this repository the only
   caller is `esp_phy_load_cal_and_init`, which aborts on NULL, so the
   restart reclaims the buffer and `InitBuffersFreed` holds. An
   application that calls the public function (`esp_phy_init.h:67`) and
   retries loses one buffer per failed call. This comes from reading the
   code; no run checks an application caller.

Findings 1, 2 and 4 need `portNUM_PROCESSORS == 2`. On the single-core
ESP32-S2 build, pm_single shows that findings 1 and 2 cannot happen, and
prof_safety shows the same for finding 4.

### Bounds

- **Two cores.** This is the most the code supports (`portNUM_PROCESSORS`).
- **Two clients at APB_MAX and APB_MIN.** Together with the rtos locks, this
  makes every mode reachable as the lowest allowed one.
- **`MaxNest`.** It is 1 on two cores and 2 on one core, where nesting is the
  only new behaviour.
- **Configurable frequencies.** The core run uses XTAL, 80, 240 and 2 MHz.
  These give switches both up and down, and a configuration that changes
  while a switch is in progress. 160 MHz is the initial value. The liveness
  run uses two frequencies, which is enough for both directions.

The PHY runs use two clients and two versions. Two clients are enough for
both transitions of the reference count and for one client enabling while
the other calibrates. Two versions are enough for an update and for a
rollback. Resets, erases and NVS failures are unbounded. The state space is
finite because the model has no counters beyond the reference count.

The negative-time run uses two cores, a clock of 1..3 (`MaxTime`) and six
lock calls (`MaxLockCalls`): enough for a timestamp to be overtaken, for
the mode to drop to APB_MIN and come back, and for a dump in between. The
single-core safety run uses a clock of 1..4 and eight calls, so the task
and the rtos path each make several lock round trips with ticks between
the clock read and the critical section. The call bound is needed because
the clock may stand still while locks are toggled.

The PPP runs use one session and a queue of three entries. A session posts
up to six events, so the queue overflows. A second session is where a
stale status error appears (see finding 5).

The update_ccompare run uses `Width = 30`, because TLC's integers end at
2^31 - 1. The wrap of the counter and the half-range test fall at the same
relative points as at 32 bits. Every input distance is at most one tick
period at the old rate (2.4 million cycles at 240 MHz with
`XT_TICK_PER_SEC = 100`), and that is the most the tick handler and
`vApplicationSleep` leave. So `diff * s_ccount_mul` stays below 2^30 and the
product wraps at neither width. A distance above 2^32 / 240 would wrap the
32-bit product, but no code path sets CCOMPARE that far ahead.

### Fairness

Weak fairness is assumed for each step of an operation that is in progress:
the code continues as long as the core runs. The cross-core ISR
(`IsrHookUpdateCcompare`) is weakly fair because the interrupt stays
pending.

The abstract specification's weak fairness on `Apply` is checked, not
assumed: it follows from the fairness of `PmImpl`.

`PmProfiling` and `CcompareArith` check safety only and assume no fairness.
`PppNetif` assumes weak fairness on the event loop task and on lwIP's
TERMINATE timeout only (see its section); with error events off (the
calloc default) a PEERDEAD or user close posts nothing, so
`SessionEndSignalled` assumes `error_ev`. Deadlock checking is turned
off only for `PppNetif`, where the program really stops once the
interface is destroyed.

`DoSwitchEnter` is strongly fair. The spin loop keeps retaking
`s_switch_lock`, so a core that finds the switch free infinitely often
eventually claims it. The starts of operations (lock, unlock, idle, configure)
are environment actions and have no fairness.

## Not modelled yet

- **`vApplicationSleep` and `esp_pm_impl_waiti`.** These are the tickless
  light-sleep path. `s_skipped_light_sleep`, which is used at line 453, is
  not declared in this file, so that path does not build with
  `CONFIG_FREERTOS_USE_TICKLESS_IDLE`. Without that option light sleep
  is rejected by `esp_pm_configure`, so LIGHT_SLEEP is never the mode.
- **The forwarding functions of the PPP adapter.** These are
  `esp_netif_ppp_set_auth`, `esp_netif_ppp_set_default_netif`,
  `pppos_low_level_output` and the IPv6 branch of the status callback.
  They only pass data to lwIP or the driver.
- **The libphy spinlock and the ESP32-only parts of `phy_init.c`.**
- **Start-up, bootloader and the headers.** These are not planned: they are
  sequential I/O or declarations.
