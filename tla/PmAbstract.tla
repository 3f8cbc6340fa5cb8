------------------------------ MODULE PmAbstract ------------------------------
(***************************************************************************)
(* What the mode arbiter of components/esp32s2beta/pm_esp32s2beta.c       *)
(* promises, without frequencies, timers or the steps of do_switch.        *)
(*                                                                         *)
(* A lock or unlock of a mode changes the per-mode count, and when the     *)
(* count goes 0->1 or 1->0 it decides, in the same atomic step, the lowest *)
(* mode the held locks allow; the decision waits in pending[c] of the core *)
(* that made it until that core applies it to the live mode.  Decisions of *)
(* two cores may be applied in either order, and each core's decision is   *)
(* eventually applied.  PmImpl implements this specification (see its      *)
(* Abstract instance).                                                     *)
(***************************************************************************)
EXTENDS PmModes, FiniteSetsExt

CONSTANT Cores

VARIABLES
  lockCounts,  \* per mode: number of held locks of that mode
  mode,        \* the live power mode
  pending,     \* per core: a decided mode not yet applied, or NoMode
  lightSleep   \* light sleep enabled by the configuration

avars == <<lockCounts, mode, pending, lightSleep>>

NoMode == -1

(* The mask of modes with a held lock. *)
MaskOf(counts) == SumSet({BIT(m) : m \in {n \in Modes : counts[n] > 0}})

(* The lowest mode allowed by the given counts. *)
Decide(counts) == get_lowest_allowed_mode(MaskOf(counts), lightSleep)

Init ==
  /\ lockCounts = [m \in Modes |->
                     IF m = PM_MODE_CPU_MAX THEN Cardinality(Cores) ELSE 0]
  /\ mode = PM_MODE_CPU_MAX
  /\ pending = [c \in Cores |-> NoMode]
  /\ lightSleep = FALSE

(* A core takes one more lock of mode m; a 0->1 count makes a decision.    *)
(* A core decides only when its previous decision has been applied.        *)
Lock(c, m) ==
  LET counts == [lockCounts EXCEPT ![m] = @ + 1]
  IN /\ pending[c] = NoMode
     /\ lockCounts' = counts
     /\ pending' = IF counts[m] = 1 THEN [pending EXCEPT ![c] = Decide(counts)]
                                    ELSE pending
     /\ UNCHANGED <<mode, lightSleep>>

(* A core gives back a lock of mode m; a 1->0 count makes a decision. *)
Unlock(c, m) ==
  LET counts == [lockCounts EXCEPT ![m] = @ - 1]
  IN /\ pending[c] = NoMode
     /\ lockCounts[m] > 0
     /\ lockCounts' = counts
     /\ pending' = IF counts[m] = 0 THEN [pending EXCEPT ![c] = Decide(counts)]
                                    ELSE pending
     /\ UNCHANGED <<mode, lightSleep>>

(* The decision of core c becomes the live mode. *)
Apply(c) ==
  /\ pending[c] # NoMode
  /\ mode' = pending[c]
  /\ pending' = [pending EXCEPT ![c] = NoMode]
  /\ UNCHANGED <<lockCounts, lightSleep>>

(* A reconfiguration enables or disables light sleep. *)
Configure(ls) ==
  /\ lightSleep' = ls
  /\ UNCHANGED <<lockCounts, mode, pending>>

Next ==
  \/ \E c \in Cores, m \in Modes : Lock(c, m) \/ Unlock(c, m)
  \/ \E c \in Cores : Apply(c)
  \/ \E ls \in BOOLEAN : Configure(ls)

Spec == Init /\ [][Next]_avars /\ \A c \in Cores : WF_avars(Apply(c))
=============================================================================
