-------------------------- MODULE MCCountingFilter --------------------------
(* Two rows of three counters in three bytes.  Keys 1 and 2 share counter  *)
(* 2, keys 1 and 3 counter 3 of the next row in the same byte; the sum of  *)
(* the checksums of key 3 wraps around.  Two keys together overflow.       *)
EXTENDS CountingFilter

MCH1 == <<5, 8, 250>>
MCH2 == <<1, 2, 15>>
=============================================================================
