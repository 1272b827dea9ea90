----------------------------- MODULE MCProviders -----------------------------
(* One call of three batches, the last of them short, and one of a single  *)
(* batch beside it.                                                        *)
EXTENDS Providers

CONSTANT Large      \* one of the calls

TextCountOf == [c \in Calls |-> IF c = Large THEN 5 ELSE 2]
=============================================================================
