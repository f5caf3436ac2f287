----------------------------- MODULE MCTimeWheel -----------------------------
(* The wheel on a small instance: three entry addresses, three buckets, a   *)
(* tick of two units, and timeouts that round up, clamp up and clamp down.  *)
EXTENDS TimeWheel

MCTimeouts == {0, 3, 9}
=============================================================================
