-------------------------------- MODULE Fusion --------------------------------
(***************************************************************************)
(* Rank fusion (fusion.py).  A fan-out gives each size that answered a     *)
(* list of hits, best first; scores of different sizes are not comparable. *)
(* A search returns its list in the order of TierInterleave's own sort     *)
(* key, so that sort changes nothing, and a tier has at most one hit of a  *)
(* size, so that its tiebreak never looks past the size.                   *)
(***************************************************************************)
EXTENDS Integers, Sequences, FiniteSets, Sorting, SequencesExt

Depth(found) == Max({0} \cup {Len(found[s]) : s \in DOMAIN found})

(* The hits of rank t, by ascending size.                                  *)
Tier(found, t) ==
    LET sizes == SortedBy({s \in DOMAIN found : t <= Len(found[s])}, <)
    IN  [i \in DOMAIN sizes |-> found[sizes[i]][t]]

(* Mutant: the lists of the sizes one after another.                       *)
FuseBySize(found) ==
    LET sizes == SortedBy(DOMAIN found, <)
    IN  FlattenSeq([i \in DOMAIN sizes |-> found[sizes[i]]])

(* TierInterleave.fuse: the candidates; a candidate's place is its rank.   *)
Fuse(found) == FlattenSeq([t \in 1 .. Depth(found) |-> Tier(found, t)])

AllHits(found) == UNION {ToSet(found[s]) : s \in DOMAIN found}
=============================================================================
