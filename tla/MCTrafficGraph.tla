---------------------------- MODULE MCTrafficGraph ----------------------------
(***************************************************************************)
(* TrafficGraph for TLC: two samples per direction, so that the third      *)
(* timeout drops one; a minute of two milliseconds, so that the ranges of  *)
(* one and two minutes give intervals of one and two ticks; two bytes per  *)
(* direction, enough for samples that differ and for a largest sample that *)
(* is dropped while a smaller one stays.                                   *)
(***************************************************************************)
EXTENDS TrafficGraph

MCGraphRanges == {1, 2}

=============================================================================
