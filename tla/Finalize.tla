------------------------------- MODULE Finalize -------------------------------
(***************************************************************************)
(* GreedyUpwardStrategy._finalize (selection.py): the order in which the   *)
(* live classes are shown, and which of them a reader may join.            *)
(***************************************************************************)
EXTENDS Selection, Sorting

-----------------------------------------------------------------------------
(* best_rank_by_doc.                                                       *)
BestRank(doc) == Min({cls[c].rank : c \in {d \in Live : cls[d].top.doc = doc}})

(* The sort key of the output.  Mutant: within a document the best class   *)
(* first.                                                                  *)
ShownBeforeByRankInDocument(c, d) ==
    LET s == cls[c].top
        t == cls[d].top
    IN  \/ BestRank(s.doc) < BestRank(t.doc)
        \/ BestRank(s.doc) = BestRank(t.doc) /\ s.doc < t.doc
        \/ s.doc = t.doc /\ cls[c].rank < cls[d].rank

ShownBefore(c, d) ==
    LET s == cls[c].top
        t == cls[d].top
    IN  \/ BestRank(s.doc) < BestRank(t.doc)
        \/ BestRank(s.doc) = BestRank(t.doc) /\ s.doc < t.doc
        \/ s.doc = t.doc /\ s.off < t.off

(* The slices of the selection: classes, in the order they are shown.      *)
Shown == SortedBy(Live, ShownBefore)

(* contiguous_with_next.                                                   *)
ContiguousWithNext(shown, i) ==
    /\ i < Len(shown)
    /\ LET s == cls[shown[i]].top
           t == cls[shown[i + 1]].top
       IN  t.doc = s.doc /\ t.off = EndOf(s)

-----------------------------------------------------------------------------
(* A selection reads like its documents: a document is shown in one piece, *)
(* in reading order and without repetition; the document of the best hit   *)
(* that was shown comes first; and two neighbours are marked contiguous    *)
(* exactly when the text between them is empty (selection.py _finalize).   *)
ReadsInOrder == (phase = "done" /\ OneGeneration) =>
    LET shown == Shown
        top(i) == cls[shown[i]].top
        best(i) == Min(UNION {cls[c].evidence : c \in {d \in Live : cls[d].top.doc = top(i).doc}})
    IN  \A i, j \in DOMAIN shown : i < j =>
            /\ top(i).doc = top(j).doc => EndOf(top(i)) <= top(j).off
            /\ top(i).doc = top(j).doc => \A k \in i .. j : top(k).doc = top(i).doc
            /\ top(i).doc # top(j).doc => best(i) <= best(j)
            /\ j = i + 1 => ContiguousWithNext(shown, i) =
                  (top(i).doc = top(j).doc /\ EndOf(top(i)) = top(j).off)
=============================================================================
