----------------------------- MODULE MC_PhyInit -----------------------------
(* Model values for PhyInit: the WiFi and BT stacks as the two clients of *)
(* esp_phy_enable, and two firmware images with different calibration    *)
(* format versions.                                                        *)
EXTENDS PhyInit

MC_Clients == {"wifi", "bt"}

MC_Versions == {1, 2}
====
