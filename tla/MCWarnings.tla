----------------------------- MODULE MCWarnings -----------------------------
(***************************************************************************)
(* Warnings for TLC: two caller threads and one message are enough for a   *)
(* GetWarnings to meet a setter, or another GetWarnings, before, between   *)
(* and after each of its reads, and for two calls to contend for the mutex.*)
(***************************************************************************)
EXTENDS Warnings, TLC

\* Threads are interchangeable: no action or property names one.
Symmetry == Permutations(Threads)
=============================================================================
