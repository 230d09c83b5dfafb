-------------------------------- MODULE Sums --------------------------------
(***************************************************************************)
(* Sums of functions and sequences, as recursive functions so that they    *)
(* can be reasoned about.                                                  *)
(***************************************************************************)
EXTENDS Integers, Sequences

(* w[0] + ... + w[n - 1]                                                   *)
SumBelow(n, w) ==
    LET Sum[i \in 0 .. n] == IF i = 0 THEN 0 ELSE Sum[i - 1] + w[i - 1]
    IN  Sum[n]

=============================================================================
