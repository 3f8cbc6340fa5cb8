---------------------------- MODULE PmProfiling ----------------------------
(***************************************************************************)
(* Time-in-mode accounting of pm_esp32s2beta.c (WITH_PROFILING).          *)
(*                                                                         *)
(* A lock handle's acquire/release (pm_locks.c, not in the repository)     *)
(* reads the clock `now = pm_get_time()` before it enters the handle's    *)
(* spinlock and passes it to esp_pm_impl_switch_mode, which, inside        *)
(* s_switch_lock, charges now - s_last_mode_change_time to s_mode and     *)
(* stores now.  Per core a client task toggles one lock handle in three    *)
(* steps (stamp, critical section, do_switch); the idle hook and the ISR   *)
(* hook release and take the core's "rtos" lock.  do_switch is abstracted *)
(* to its commit of s_mode (PmImpl models its frequency protocol).         *)
(***************************************************************************)
EXTENDS PmModes, FiniteSetsExt

CONSTANTS
  Cores,          \* the cores that run a client task
  ClientType,     \* [Cores -> LockTypes]: type of each core's client lock
  LightSleepEn,   \* s_light_sleep_en as set by esp_pm_configure
  BootTime,       \* pm_get_time() when esp_pm_impl_init takes the rtos locks
  MaxTime,        \* bound on the microsecond clock
  MaxLockCalls,   \* bound on the lock/unlock calls of a behaviour
  NoDump          \* no esp_pm_impl_dump_stats output yet

ASSUME BootTime > 0 /\ MaxTime >= BootTime
(* esp_pm_configure rejects light sleep without                           *)
(* CONFIG_FREERTOS_USE_TICKLESS_IDLE (lines 190-191), and with it the file *)
(* does not build (s_skipped_light_sleep, line 453).                       *)
ASSUME LightSleepEn = FALSE

VARIABLES
  now,                      \* esp_timer, what pm_get_time() returns
  s_mode_lock_counts, s_mode_mask, s_mode,
  s_time_in_mode,           \* lines 131-132
  s_last_mode_change_time,  \* lines 133-134
  s_core_idle,
  clientHeld,               \* count (0/1) of each core's client lock
  pc, stamp, lockOp, newMode, \* locals of each lock-taking context
  dumped,                   \* last esp_pm_impl_dump_stats result
  calls                     \* lock/unlock calls so far (bounded)

vars == <<now, s_mode_lock_counts, s_mode_mask, s_mode, s_time_in_mode,
          s_last_mode_change_time, s_core_idle, clientHeld, pc, stamp,
          lockOp, newMode, dumped, calls>>

Times == Int   \* pm_time_t is int64_t; the bounded clock keeps values small

(* A core runs two lock-taking contexts: its client task, and the rtos    *)
(* path (the ISR hook's leave_idle, or the idle hook).                     *)
Ctx == Cores \X {"task", "rtos"}
Task(c) == <<c, "task">>
Rtos(c) == <<c, "rtos">>

(* esp_pm_impl_init: both rtos locks are taken at boot, the first taking  *)
(* records BootTime; s_mode starts at CPU_MAX (line 62).                  *)
Init ==
  /\ now = BootTime
  /\ s_mode_lock_counts = [m \in Modes |->
                             IF m = PM_MODE_CPU_MAX THEN Cardinality(Cores) ELSE 0]
  /\ s_mode_mask = BIT(PM_MODE_CPU_MAX)
  /\ s_mode = PM_MODE_CPU_MAX
  /\ s_time_in_mode = [m \in Modes |-> 0]
  /\ s_last_mode_change_time = BootTime
  /\ s_core_idle = [c \in Cores |-> FALSE]
  /\ clientHeld = [c \in Cores |-> FALSE]
  /\ pc = [x \in Ctx |-> "idle"]
  /\ stamp = [x \in Ctx |-> BootTime]
  /\ lockOp = [x \in Ctx |-> TRUE]
  /\ newMode = [x \in Ctx |-> PM_MODE_CPU_MAX]
  /\ dumped = NoDump
  /\ calls = 0

(* The esp_timer keeps running. *)
Tick ==
  /\ now < MaxTime
  /\ now' = now + 1
  /\ UNCHANGED <<s_mode_lock_counts, s_mode_mask, s_mode, s_time_in_mode,
                 s_last_mode_change_time, s_core_idle, clientHeld, pc,
                 stamp, lockOp, newMode, dumped, calls>>

(* `count` of esp_pm_impl_switch_mode: ++ on lock, post-decrement on unlock. *)
SwitchModeCount(mode, lock) ==
  IF lock THEN s_mode_lock_counts[mode] + 1 ELSE s_mode_lock_counts[mode]

MaskAfter(mode, lock) ==
  ModeMaskAfter(s_mode_mask, mode, lock, SwitchModeCount(mode, lock))

(* new_mode as decided inside the critical section. *)
NewModeOf(mode, lock) ==
  IF SwitchModeCount(mode, lock) = 1
  THEN get_lowest_allowed_mode(MaskAfter(mode, lock), LightSleepEn)
  ELSE s_mode

(* The WITH_PROFILING block: charge the interval to the current mode. *)
ChargeTimeInMode(t) ==
  /\ s_time_in_mode' = IF s_last_mode_change_time # 0
                       THEN [s_time_in_mode EXCEPT ![s_mode] =
                               @ + (t - s_last_mode_change_time)]
                       ELSE s_time_in_mode
  /\ s_last_mode_change_time' = t

(* The critical section of esp_pm_impl_switch_mode with timestamp t. *)
esp_pm_impl_switch_mode(mode, lock, t) ==
  /\ s_mode_lock_counts' = [s_mode_lock_counts EXCEPT ![mode] =
                              IF lock THEN @ + 1 ELSE @ - 1]
  /\ s_mode_mask' = MaskAfter(mode, lock)
  /\ IF SwitchModeCount(mode, lock) = 1
     THEN ChargeTimeInMode(t)
     ELSE UNCHANGED <<s_time_in_mode, s_last_mode_change_time>>

MayStart(x) ==
  LET c == x[1] IN
  IF x[2] = "task" THEN ~s_core_idle[c] /\ pc[Rtos(c)] = "idle"
  ELSE s_core_idle[c] \/ pc[Task(c)] = "idle"

(* Whether the context takes (TRUE) or gives (FALSE) its lock. *)
Takes(x) ==
  IF x[2] = "task" THEN ~clientHeld[x[1]] ELSE s_core_idle[x[1]]

LockMode(x) ==
  esp_pm_impl_get_mode(IF x[2] = "task" THEN ClientType[x[1]] ELSE "ESP_PM_CPU_FREQ_MAX")

(* esp_pm_lock_acquire/release read pm_get_time() before taking the       *)
(* handle's spinlock; the idle hook masks interrupts of its own core only. *)
pm_get_time(x) ==
  /\ pc[x] = "idle"
  /\ MayStart(x)
  /\ calls < MaxLockCalls
  /\ calls' = calls + 1
  /\ pc' = [pc EXCEPT ![x] = "stamped"]
  /\ stamp' = [stamp EXCEPT ![x] = now]
  /\ lockOp' = [lockOp EXCEPT ![x] = Takes(x)]
  /\ UNCHANGED <<now, s_mode_lock_counts, s_mode_mask, s_mode, s_time_in_mode,
                 s_last_mode_change_time, s_core_idle, clientHeld, newMode,
                 dumped>>

(* The handle's count crosses 0 on every toggle of a single-owner lock, so *)
(* the section always calls esp_pm_impl_switch_mode, with the old stamp.   *)
LockSection(x) ==
  LET lock == lockOp[x]
      mode == LockMode(x)
  IN /\ pc[x] = "stamped"
     /\ clientHeld' = IF x[2] = "task"
                      THEN [clientHeld EXCEPT ![x[1]] = lock] ELSE clientHeld
     /\ esp_pm_impl_switch_mode(mode, lock, stamp[x])
     /\ newMode' = [newMode EXCEPT ![x] = NewModeOf(mode, lock)]
     /\ pc' = [pc EXCEPT ![x] = IF SwitchModeCount(mode, lock) = 1
                                THEN "switch" ELSE "done"]
     /\ UNCHANGED <<now, s_mode, s_core_idle, stamp, lockOp, dumped, calls>>

(* do_switch, reduced to the s_mode it commits (lines 400-402). *)
do_switch(x) ==
  /\ pc[x] = "switch"
  /\ s_mode' = newMode[x]
  /\ pc' = [pc EXCEPT ![x] = "done"]
  /\ UNCHANGED <<now, s_mode_lock_counts, s_mode_mask, s_time_in_mode,
                 s_last_mode_change_time, s_core_idle, clientHeld, stamp,
                 lockOp, newMode, dumped, calls>>

(* Fault: the idle hook leaves s_core_idle unset after its release. *)
LockDoneNoIdleFlag(x) ==
  /\ pc[x] = "done"
  /\ pc' = [pc EXCEPT ![x] = "idle"]
  /\ s_core_idle' = IF x[2] = "rtos" /\ lockOp[x]
                    THEN [s_core_idle EXCEPT ![x[1]] = FALSE]
                    ELSE s_core_idle
  /\ UNCHANGED <<now, s_mode_lock_counts, s_mode_mask, s_mode, s_time_in_mode,
                 s_last_mode_change_time, clientHeld, stamp, lockOp, newMode,
                 dumped, calls>>

(* leave_idle clears and the idle hook sets s_core_idle after the lock    *)
(* call returns.                                                           *)
LockDone(x) ==
  /\ pc[x] = "done"
  /\ pc' = [pc EXCEPT ![x] = "idle"]
  /\ s_core_idle' = IF x[2] = "rtos"
                    THEN [s_core_idle EXCEPT ![x[1]] = ~lockOp[x]]
                    ELSE s_core_idle
  /\ UNCHANGED <<now, s_mode_lock_counts, s_mode_mask, s_mode, s_time_in_mode,
                 s_last_mode_change_time, clientHeld, stamp, lockOp, newMode,
                 dumped, calls>>

(* esp_pm_impl_dump_stats: a snapshot under s_switch_lock, the clock read *)
(* inside it, then the current mode's open interval added.                *)
esp_pm_impl_dump_stats ==
  /\ dumped' = [s_time_in_mode EXCEPT ![s_mode] =
                  @ + (now - s_last_mode_change_time)]
  /\ UNCHANGED <<now, s_mode_lock_counts, s_mode_mask, s_mode, s_time_in_mode,
                 s_last_mode_change_time, s_core_idle, clientHeld, pc, stamp,
                 lockOp, newMode, calls>>

Next ==
  \/ Tick
  \/ esp_pm_impl_dump_stats
  \/ \E x \in Ctx :
       pm_get_time(x) \/ LockSection(x) \/ do_switch(x) \/ LockDone(x)

Spec == Init /\ [][Next]_vars

-----------------------------------------------------------------------------
TypeOK ==
  /\ now \in BootTime .. MaxTime
  /\ s_mode_lock_counts \in [Modes -> 0 .. 2 * Cardinality(Cores)]
  /\ s_mode \in Modes
  /\ s_time_in_mode \in [Modes -> Times]
  /\ s_last_mode_change_time \in BootTime .. MaxTime
  /\ s_core_idle \in [Cores -> BOOLEAN]
  /\ clientHeld \in [Cores -> BOOLEAN]
  /\ pc \in [Ctx -> {"idle", "stamped", "switch", "done"}]
  /\ stamp \in [Ctx -> BootTime .. MaxTime]
  /\ lockOp \in [Ctx -> BOOLEAN]
  /\ newMode \in [Ctx -> Modes]
  /\ dumped \in [Modes -> Times] \cup {NoDump}
  /\ calls \in 0 .. MaxLockCalls

(* Every per-mode time printed by esp_pm_impl_dump_stats is non-negative: *)
(* each charge of esp_pm_impl_switch_mode uses a timestamp read before    *)
(* the critical section, and the interval it charges must not start after *)
(* that timestamp, whatever the order in which the task and the rtos path  *)
(* of the cores reach it.                                                  *)
DumpNonNegative ==
  dumped # NoDump => \A m \in Modes : dumped[m] >= 0
====
