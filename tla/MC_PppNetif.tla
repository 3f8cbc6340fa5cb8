---------------------------- MODULE MC_PppNetif ----------------------------
EXTENDS PppNetif
====
