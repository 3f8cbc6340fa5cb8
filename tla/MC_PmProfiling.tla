--------------------------- MODULE MC_PmProfiling ---------------------------
EXTENDS PmProfiling

(* Two cores; the client locks ask for different modes so that each      *)
(* toggle may change the arbitrated mode.                                 *)
MC_Cores == {0, 1}
MC_ClientType == [c \in MC_Cores |-> IF c = 0 THEN "ESP_PM_APB_FREQ_MAX"
                                                ELSE "ESP_PM_NO_LIGHT_SLEEP"]

(* One core (portNUM_PROCESSORS == 1, the ESP32-S2 build). *)
MC_SingleCore == {0}
MC_ClientTypeSingle == [c \in MC_SingleCore |-> "ESP_PM_APB_FREQ_MAX"]
====
