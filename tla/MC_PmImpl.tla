------------------------------ MODULE MC_PmImpl ------------------------------
(* Instances of PmImpl for TLC. *)
EXTENDS PmImpl

(* Two cores (portNUM_PROCESSORS == 2) or one. *)
MC_DualCore == {0, 1}
MC_SingleCore == {0}

(* Client handles: an ESP_PM_APB_FREQ_MAX lock used on core 0 (a driver)  *)
(* and an ESP_PM_NO_LIGHT_SLEEP lock used on core 1 or 0.                 *)
MC_ClientType == <<"ESP_PM_APB_FREQ_MAX", "ESP_PM_NO_LIGHT_SLEEP">>
MC_ClientCoreDual == <<0, 1>>
MC_ClientCoreSingle == <<0, 0>>

(* 160 MHz default; configurations among XTAL (40 MHz), 80 and 240 MHz  *)
(* and the rejected 2 MHz minimum.                                       *)
MC_ConfigFreqs == {"XTAL", "80M", "240M", "2M"}

(* For the liveness run: a frequency below and one above the default.   *)
MC_LiveConfigFreqs == {"XTAL", "240M"}
=============================================================================
