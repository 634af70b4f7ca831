---------------------------- MODULE MC_DbtTrace ----------------------------
(* A small trace buffer for TLC: a ring of few records, written past its end. *)
EXTENDS DbtTrace
=============================================================================
