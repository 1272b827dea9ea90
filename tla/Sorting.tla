-------------------------------- MODULE Sorting --------------------------------
(***************************************************************************)
(* Python's sorted() of distinct values: the members of a finite set in    *)
(* the order a comparison puts them in.  SetToSortSeq of the community     *)
(* modules has the same value, but by way of TLC's own SortSeq, which has  *)
(* no definition a proof could start from.                                 *)
(***************************************************************************)
EXTENDS Naturals, FiniteSets

SortedBy(S, Before(_, _)) ==
    CHOOSE f \in [1 .. Cardinality(S) -> S] :
        \A i, j \in DOMAIN f : i < j => Before(f[i], f[j])
=============================================================================
