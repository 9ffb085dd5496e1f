----------------------------- MODULE MCPoliteHttp ------------------------------
(***************************************************************************)
(* PoliteHttp for TLC: three callers, a gap of two ticks, a hint below and *)
(* one above the cap, two retries.                                         *)
(***************************************************************************)
EXTENDS PoliteHttp

MCHints == {1, 5}
================================================================================
