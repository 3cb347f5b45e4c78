---------------------------- MODULE EditEventsMC ----------------------------
(* Small instances of EditEvents.  With three events and a threshold of    *)
(* two a batch can be empty, logged one by one or aggregated, and timers   *)
(* and the main thread can log at the same time.                           *)
EXTENDS EditEvents
=============================================================================
