----------------------------- MODULE MCEncoder -----------------------------
(* A 2-bit counter, which five lines of travel wrap in both directions.    *)
EXTENDS Encoder
=============================================================================
