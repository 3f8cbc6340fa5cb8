------------------------------ MODULE PppNetif ------------------------------
(***************************************************************************)
(* The PPP adapter of esp_netif (components/esp_netif/lwip/                *)
(* esp_netif_lwip_ppp.c): the lwip_ppp_ctx object, the API the            *)
(* application calls (new, set_params, start, stop, destroy) and the two  *)
(* callbacks lwIP makes from its tcpip thread (on_ppp_status_changed,     *)
(* on_ppp_notify_phase), which post events with timeout 0 to a bounded    *)
(* event-loop queue.  lwIP's PPP state machine is the environment: its    *)
(* phases are reduced to dead / init / establish / running / terminate.   *)
(* pppapi_* calls run synchronously in the tcpip thread, so each API call *)
(* and each lwIP step is one atomic action.  The application consumes the *)
(* queue and destroys the interface following DestroyAfterStop.           *)
(***************************************************************************)
EXTENDS Naturals, Sequences

CONSTANTS
  QueueLen,          \* capacity of the default event loop queue
  MaxSessions,       \* bound on esp_netif_start_ppp calls
  CreateMayFail,     \* pppapi_pppos_create may return NULL (pool exhausted)
  PhaseEvents,       \* ppp_phase_event_enabled given to set_params
  ErrorEvents,       \* ppp_error_event_enabled given to set_params
  DestroyAfterStop   \* the application destroys once stop returned ESP_OK,
                     \* else only after a NETIF_PPP_STATUS error event

(* lwIP ppp.h: error codes and phase numbers, and esp_netif_ppp.h. *)
PPPERR_NONE == 0
PPPERR_USER == 5
PPPERR_CONNECT == 6
PPPERR_PEERDEAD == 9
PPP_PHASE_DEAD == 0
PPP_PHASE_INITIALIZE == 3
PPP_PHASE_ESTABLISH == 6
PPP_PHASE_RUNNING == 10
PPP_PHASE_TERMINATE == 11
NETIF_PP_PHASE_OFFSET == 256

(* IP_EVENT ids of a PPP netif: get_ip_event and lost_ip_event. *)
IP_EVENT_PPP_GOT_IP == "got_ip"
IP_EVENT_PPP_LOST_IP == "lost_ip"

Events == [base : {"IP_EVENT"}, id : {IP_EVENT_PPP_GOT_IP, IP_EVENT_PPP_LOST_IP}]
          \cup [base : {"NETIF_PPP_STATUS"}, id : 0 .. 2 * NETIF_PP_PHASE_OFFSET]

Phases == {"dead", "init", "establish", "running", "terminate"}

VARIABLES
  ctx,          \* lwip_ppp_ctx: "none", "alive" or "freed" (with the netif)
  pcb,          \* "none" before create, "null", a phase, or "freed"
  phase_ev,     \* ctx->ppp_phase_event_enabled
  error_ev,     \* ctx->ppp_error_event_enabled
  err_code,     \* pcb->err_code reported when the link terminates
  evq,          \* the event loop queue
  appIp,        \* the application believes the netif has an IP
  appSawEnd,    \* ... has seen a NETIF_PPP_STATUS error since its start
  appStopped,   \* ... got ESP_OK from esp_netif_stop_ppp since its start
  appSignalled, \* ... has seen an end of session (status error or LOST_IP)
  sessions,     \* esp_netif_start_ppp calls so far
  fault,        \* "none", "null_deref" or "use_after_free"
  dropped       \* an event was dropped on a full queue (history)

vars == <<ctx, pcb, phase_ev, error_ev, err_code, evq, appIp, appSawEnd,
          appStopped, appSignalled, sessions, fault, dropped>>
appVars == <<appIp, appSawEnd, appStopped, appSignalled>>

Init ==
  /\ ctx = "none"
  /\ pcb = "none"
  /\ phase_ev = FALSE
  /\ error_ev = FALSE
  /\ err_code = PPPERR_NONE
  /\ evq = <<>>
  /\ appIp = FALSE
  /\ appSawEnd = FALSE
  /\ appStopped = FALSE
  /\ appSignalled = FALSE
  /\ sessions = 0
  /\ fault = "none"
  /\ dropped = FALSE

(* Events posted in one callback, in order, with esp_event_post(..., 0): *)
(* those that find the queue full are dropped.                            *)
(* Fault: off by one in the free-space check. *)
FitsOffByOne(q, es) ==
  IF QueueLen - Len(q) + 1 < Len(es) THEN QueueLen - Len(q) + 1 ELSE Len(es)

Fits(q, es) == IF QueueLen - Len(q) < Len(es) THEN QueueLen - Len(q) ELSE Len(es)

PostAll(q, es) == q \o SubSeq(es, 1, Fits(q, es))

StatusEv(id) == [base |-> "NETIF_PPP_STATUS", id |-> id]
IpEv(id) == [base |-> "IP_EVENT", id |-> id]

(* Fault: the phase is posted without NETIF_PP_PHASE_OFFSET. *)
NotifyPhaseNoOffset(ph) ==
  IF phase_ev THEN <<StatusEv(ph)>> ELSE <<>>

(* on_ppp_notify_phase: the event id is offset from the error codes. *)
on_ppp_notify_phase(ph) ==
  IF phase_ev THEN <<StatusEv(NETIF_PP_PHASE_OFFSET + ph)>> ELSE <<>>

(* Fault: a user close returns without the error event. *)
StatusChangedUserReturns(code, if4_up) ==
  CASE code = PPPERR_NONE -> IF if4_up THEN <<IpEv(IP_EVENT_PPP_GOT_IP)>> ELSE <<>>
    [] code = PPPERR_CONNECT -> <<IpEv(IP_EVENT_PPP_LOST_IP)>>
    [] code = PPPERR_USER -> <<>>
    [] OTHER -> IF error_ev THEN <<StatusEv(code)>> ELSE <<>>

(* on_ppp_status_changed: the connected case posts GOT_IP when IPv4 is   *)
(* up, CONNECT posts LOST_IP and returns, every other code posts itself  *)
(* as a NETIF_PPP_STATUS event when error events are enabled.            *)
on_ppp_status_changed(code, if4_up) ==
  CASE code = PPPERR_NONE -> IF if4_up THEN <<IpEv(IP_EVENT_PPP_GOT_IP)>> ELSE <<>>
    [] code = PPPERR_CONNECT -> <<IpEv(IP_EVENT_PPP_LOST_IP)>>
    [] OTHER -> IF error_ev THEN <<StatusEv(code)>> ELSE <<>>

(* Callbacks from the tcpip thread first dereference netif and its      *)
(* lwip_ppp_ctx, both freed by esp_netif_destroy.                        *)
Callbacks(es) ==
  IF ctx = "freed"
  THEN /\ fault' = "use_after_free"
       /\ UNCHANGED <<evq, dropped>>
  ELSE /\ evq' = PostAll(evq, es)
       /\ dropped' = (dropped \/ Fits(evq, es) < Len(es))
       /\ UNCHANGED fault

Running == fault = "none"

-----------------------------------------------------------------------------
(* Application calls into the adapter. *)

(* esp_netif_new_ppp: calloc the context and create the pcb.              *)
(* ppp_set_notify_phase_callback calls back at once, before the netif     *)
(* holds the context (obj is NULL, nothing is posted); it and             *)
(* ppp_set_usepeerdns dereference the pcb even when creation failed.      *)
esp_netif_new_ppp ==
  /\ Running
  /\ ctx = "none"
  /\ ctx' = "alive"
  /\ \E created \in IF CreateMayFail THEN {"dead", "null"} ELSE {"dead"} :
       /\ pcb' = created
       /\ fault' = IF created = "null" THEN "null_deref" ELSE fault
  /\ UNCHANGED <<phase_ev, error_ev, err_code, evq, appVars, sessions, dropped>>

esp_netif_ppp_set_params ==
  /\ Running
  /\ ctx = "alive"
  /\ phase_ev' = PhaseEvents
  /\ error_ev' = ErrorEvents
  /\ UNCHANGED <<ctx, pcb, err_code, evq, appVars, sessions, fault, dropped>>

(* esp_netif_start_ppp -> pppapi_connect: from DEAD, ppp_connect enters   *)
(* INITIALIZE and pppos_connect ESTABLISH; otherwise ERR_ALREADY.         *)
esp_netif_start_ppp ==
  /\ Running
  /\ ctx = "alive"
  /\ sessions < MaxSessions
  /\ sessions' = sessions + 1
  /\ appSawEnd' = FALSE
  /\ appStopped' = FALSE
  /\ appSignalled' = FALSE
  /\ IF pcb = "dead"
     THEN /\ pcb' = "establish"
          /\ err_code' = PPPERR_NONE
          /\ Callbacks(on_ppp_notify_phase(PPP_PHASE_INITIALIZE)
                         \o on_ppp_notify_phase(PPP_PHASE_ESTABLISH))
     ELSE UNCHANGED <<pcb, err_code, evq, fault, dropped>>
  /\ UNCHANGED <<ctx, phase_ev, error_ev, appIp>>

(* esp_netif_stop_ppp -> pppapi_close: ppp_close records PPPERR_USER; in *)
(* DEAD it reports it at once, in ESTABLISH or RUNNING lcp_close starts   *)
(* TERMINATE, in TERMINATE it returns ERR_INPROGRESS (ESP_FAIL).          *)
esp_netif_stop_ppp ==
  /\ Running
  /\ ctx = "alive"
  /\ pcb \in Phases
  /\ appStopped' = (pcb # "terminate")
  /\ CASE pcb = "dead" ->
            /\ err_code' = PPPERR_USER
            /\ Callbacks(on_ppp_status_changed(PPPERR_USER, FALSE))
            /\ UNCHANGED pcb
       [] pcb \in {"establish", "running"} ->
            /\ err_code' = PPPERR_USER
            /\ pcb' = "terminate"
            /\ Callbacks(on_ppp_notify_phase(PPP_PHASE_TERMINATE))
       [] OTHER -> UNCHANGED <<pcb, err_code, evq, fault, dropped>>
  /\ UNCHANGED <<ctx, phase_ev, error_ev, appIp, appSawEnd, appSignalled,
                 sessions>>

(* esp_netif_destroy_ppp: pppapi_free returns ERR_CONN unless the pcb is *)
(* DEAD, which is ignored, and the context is freed regardless.           *)
esp_netif_destroy_ppp ==
  /\ Running
  /\ ctx = "alive"
  /\ pcb' = IF pcb = "dead" THEN "freed" ELSE pcb
  /\ ctx' = "freed"
  /\ UNCHANGED <<phase_ev, error_ev, err_code, evq, appVars, sessions, fault,
                 dropped>>

-----------------------------------------------------------------------------
(* lwIP's PPP state machine, driven by esp_netif_lwip_ppp_input         *)
(* (pppos_input_tcpip) and its timers, in the tcpip thread.              *)

(* IPCP up: phase RUNNING, then the status callback with PPPERR_NONE. *)
PppIpUp ==
  /\ Running
  /\ pcb = "establish"
  /\ pcb' = "running"
  /\ Callbacks(on_ppp_notify_phase(PPP_PHASE_RUNNING)
                 \o on_ppp_status_changed(PPPERR_NONE, TRUE))
  /\ UNCHANGED <<ctx, phase_ev, error_ev, err_code, appVars, sessions>>

(* The link ends without a close: carrier lost (CONNECT) or the peer     *)
(* stops answering LCP echoes (PEERDEAD); phase DEAD, then the status.   *)
PppLinkDown ==
  /\ Running
  /\ pcb \in {"establish", "running"}
  /\ \E code \in {PPPERR_CONNECT, PPPERR_PEERDEAD} :
       /\ err_code' = code
       /\ pcb' = "dead"
       /\ Callbacks(on_ppp_notify_phase(PPP_PHASE_DEAD)
                      \o on_ppp_status_changed(code, FALSE))
  /\ UNCHANGED <<ctx, phase_ev, error_ev, appVars, sessions>>

(* LCP termination after a close completes with the recorded code. *)
PppTerminated ==
  /\ Running
  /\ pcb = "terminate"
  /\ pcb' = "dead"
  /\ Callbacks(on_ppp_notify_phase(PPP_PHASE_DEAD)
                 \o on_ppp_status_changed(err_code, FALSE))
  /\ UNCHANGED <<ctx, phase_ev, error_ev, err_code, appVars, sessions>>

(* The event loop task delivers the oldest event to the application. *)
IsEnd(e) == e.base = "NETIF_PPP_STATUS" /\ e.id # PPPERR_NONE
                                        /\ e.id < NETIF_PP_PHASE_OFFSET

AppConsume ==
  /\ Running
  /\ evq # <<>>
  /\ LET e == Head(evq) IN
       /\ appIp' = IF e = IpEv(IP_EVENT_PPP_GOT_IP) THEN TRUE
                   ELSE IF e = IpEv(IP_EVENT_PPP_LOST_IP) THEN FALSE
                   ELSE appIp
       /\ appSawEnd' = (appSawEnd \/ IsEnd(e))
       /\ appSignalled' = (appSignalled \/ IsEnd(e) \/ e = IpEv(IP_EVENT_PPP_LOST_IP))
  /\ evq' = Tail(evq)
  /\ UNCHANGED <<ctx, pcb, phase_ev, error_ev, err_code, appStopped, sessions,
                 fault, dropped>>

(* The application stops a started interface and destroys it once it    *)
(* got ESP_OK from stop, or once it saw a NETIF_PPP_STATUS error.         *)
AppStop == sessions > 0 /\ esp_netif_stop_ppp

(* The application sets the event flags before it starts the interface. *)
AppSetParams == sessions = 0 /\ esp_netif_ppp_set_params

AppDestroy ==
  /\ IF DestroyAfterStop THEN appStopped ELSE appSawEnd
  /\ esp_netif_destroy_ppp

Next ==
  \/ esp_netif_new_ppp \/ AppSetParams \/ esp_netif_start_ppp
  \/ AppStop \/ AppDestroy
  \/ PppIpUp \/ PppLinkDown \/ PppTerminated
  \/ AppConsume

(* The default event loop task keeps taking events off its queue, and    *)
(* lwIP's LCP timers end a TERMINATE phase (Terminate-Request retries run  *)
(* out).  The application and the link itself are the environment.        *)
Fairness == WF_vars(AppConsume) /\ WF_vars(PppTerminated)

Spec == Init /\ [][Next]_vars /\ Fairness

-----------------------------------------------------------------------------
TypeOK ==
  /\ ctx \in {"none", "alive", "freed"}
  /\ pcb \in Phases \cup {"none", "null", "freed"}
  /\ phase_ev \in BOOLEAN /\ error_ev \in BOOLEAN
  /\ err_code \in {PPPERR_NONE, PPPERR_USER, PPPERR_CONNECT, PPPERR_PEERDEAD}
  /\ evq \in Seq(Events) /\ Len(evq) <= QueueLen
  /\ appIp \in BOOLEAN /\ appSawEnd \in BOOLEAN /\ appStopped \in BOOLEAN
  /\ appSignalled \in BOOLEAN
  /\ sessions \in 0 .. MaxSessions
  /\ fault \in {"none", "null_deref", "use_after_free"}
  /\ dropped \in BOOLEAN

(* No lwIP callback runs after esp_netif_destroy_ppp freed the context:  *)
(* the interface is only destroyed once the pcb can no longer call back. *)
NoUseAfterFree == fault # "use_after_free"

(* With error events enabled, every end of a session reaches the          *)
(* application: once the pcb is DEAD again after esp_netif_start_ppp, the *)
(* application eventually handles a NETIF_PPP_STATUS error or LOST_IP,    *)
(* whether the link was lost, the peer died or the application closed it  *)
(* (on_ppp_status_changed breaks to the error post for every code but     *)
(* NONE and CONNECT), unless an event was dropped on a full queue.        *)
SessionEndSignalled ==
  (sessions > 0 /\ pcb = "dead" /\ error_ev) ~> (appSignalled \/ dropped)
====
