---------------------------- MODULE MCWatchdog -----------------------------
(* The instances of Watchdog for TLC. *)
EXTENDS Watchdog
=============================================================================
