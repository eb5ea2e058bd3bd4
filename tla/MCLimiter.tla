----------------------------- MODULE MCLimiter -----------------------------
(* A small instance of Limiter for TLC. *)
EXTENDS Limiter
=============================================================================
