---------------------------- MODULE MCMessageQueue -----------------------------
(***************************************************************************)
(* MessageQueue for TLC: two callers, a first connection and two more,     *)
(* two retries, calls of up to two messages or exchanges.                  *)
(***************************************************************************)
EXTENDS MessageQueue
================================================================================
