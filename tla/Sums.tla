-------------------------------- MODULE Sums --------------------------------
(* Python's sum over a numbered collection.                                *)
EXTENDS Integers

(* w[1] + ... + w[n]                                                       *)
SumTo(w, n) ==
    LET s[i \in 0 .. n] == IF i = 0 THEN 0 ELSE s[i - 1] + w[i]
    IN  s[n]
=============================================================================
