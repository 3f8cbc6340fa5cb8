-------------------------- MODULE MC_CcompareArith --------------------------
(* update_ccompare for the five CCOUNT rates of the esp32s2beta clock tree *)
(* (XTAL 40 MHz, 80, 160, 240 MHz and the 2 MHz divided XTAL).             *)
EXTENDS CcompareArith

MC_TicksPerUs == {2, 40, 80, 160, 240}
=============================================================================
