------------------------------- MODULE MCForest -------------------------------
(* Every document over a small alphabet, sliced; and every small set of    *)
(* hits that searches of its slices can return, built up one at a time.    *)
EXTENDS Forest, Ids

CONSTANTS
    Generations,    \* sets of texts: what one query may meet of a document
    MaxHits         \* bound: no search returns more hits

VARIABLES stored,       \* the texts whose slices this query's searches may return
          hits          \* the hits returned so far

vars == <<stored, hits>>

(* The two code points of ids.py serve as letters, so that each text is a  *)
(* document id as well.                                                    *)
a == Sep
b == Esc

TextsUpTo(n) == UNION {[1 .. m -> {a, b}] : m \in 0 .. n}

(* One generation: every text.  A replace in flight: searches see slices   *)
(* of the old text and of the new.                                         *)
Quiet == {{t} : t \in TextsUpTo(9)}
Racing ==
    {{<<a, b, a, a, b>>, <<b, b, a, a, b>>}, {<<a, a, b>>, <<a, b, b, b, a>>}}
QuietOrRacing == Quiet \cup Racing

(* A document's texts are finite sequences of code points, and a generation *)
(* has at least one; None, which stands for no slice, is not one.          *)
ASSUME GenerationsAssumption ==
    \A G \in Generations :
        /\ IsFiniteSet(G) /\ G # {}
        /\ \A t \in G : t \in Seq({a, b}) /\ \A s \in MultiView(1, t) : s # None

Runs(t) == Cardinality({i \in 1 .. Len(t) : i = 1 \/ t[i] # t[i - 1]})

View == UNION {MultiView(1, t) : t \in stored}

Init == stored \in Generations /\ hits = {}

Return(s) ==
    /\ Cardinality(hits) < MaxHits
    /\ \A h \in hits : Ref(h) # Ref(s)
    /\ hits' = hits \cup {s}
    /\ UNCHANGED stored

Next == \E s \in View : Return(s)

Spec == Init /\ [][Next]_vars

OneGeneration == Cardinality(stored) = 1

(* What depends on the text alone is looked at once, before any hit.       *)
Text == CHOOSE t \in stored : TRUE

Fresh == OneGeneration /\ hits = {}

(* Ids of documents and corpora, and numbers as they are written in names.  *)
Ids == UNION {[1 .. m -> {Sep, Esc, "1"}] : m \in 0 .. 2}
Numerals == {<<"0">>, <<"1">>, <<"1", "0">>}

-----------------------------------------------------------------------------
(* Lossless reconstruction: at every size, each code point of the document *)
(* is in exactly one slice, at its own place (concepts.md, reconstruct in  *)
(* slicer.py).                                                             *)
TilesAtEverySize == Fresh =>
    \A size \in Sizes : \A i \in 1 .. Len(Text) :
        LET holders == {s \in View : s.size = size /\ s.off < i /\ i <= EndOf(s)}
        IN  /\ Cardinality(holders) = 1
            /\ \A s \in holders : s.text[i - s.off] = Text[i]

(* The descendant markers the slicer enumerates by stepping through        *)
(* range(offset, end, child_size) are those of the slices positionally     *)
(* nested in the parent, clipped tails included, and of no other.          *)
DescendantsAreTheNested == Fresh =>
    \A p \in View :
        p.desc = {Marker(c) : c \in {d \in View : PositionallyNests(p, d)}}

(* Of hits of one generation the linear walk of build, which looks at no   *)
(* pair of hits, finds the whole nesting and nothing else: no anomaly is   *)
(* reported, for that would mean a replace in flight; the chain of minimal *)
(* parents of a hit is everything that encloses it; dedup keeps those that *)
(* enclose no other; and the density a trace reports is that of the text   *)
(* (forest.py build, edges, participation_rate, max_depth).                *)
NestingIsFound == OneGeneration =>
    LET nested(p, c) == Contains(p, c)
        nests == {C \in SUBSET hits : \A g, h \in C : g = h \/ nested(g, h) \/ nested(h, g)}
    IN  /\ Anomalies(hits) = {}
        /\ Leaves(hits) = {h \in hits : \A c \in hits : ~ nested(h, c)}
        /\ Edges(hits, TRUE) =
              {[parent |-> Ref(e[1]), child |-> Ref(e[2])] :
                  e \in {f \in hits \X hits : nested(f[1], f[2])}}
        /\ Edges(hits, FALSE) \subseteq Edges(hits, TRUE)
        /\ Participating(hits) =
              {h \in hits : \E g \in hits : nested(g, h) \/ nested(h, g)}
        /\ \E C \in nests : Cardinality(C) = MaxDepth(hits)
        /\ \A C \in nests : Cardinality(C) <= MaxDepth(hits)

(* The text of a hit occurs in that of another.                            *)
Shows(p, c) ==
    \E k \in 0 .. (Len(p.text) - Len(c.text)) : SubSeq(p.text, k + 1, k + Len(c.text)) = c.text

(* Whatever generations the hits are of, a stale slice at a parent's place *)
(* is never made one: the parent a hit is given shows its text; every      *)
(* enclosing hit below it that does not is reported as an anomaly, and     *)
(* passed over, for a hit left without a parent is one that no retrieved   *)
(* hit contains (forest.py build, anomalies, roots).                       *)
StaleParentsAreTold ==
    \A h \in hits :
        LET parent == MinimalParent(hits, h)
        IN  /\ parent # None => Shows(parent, h)
            /\ parent = None => \A p \in hits : ~ Contains(p, h)
            /\ \A p \in hits :
                  PositionallyNests(p, h) /\ ~ Shows(p, h) /\ (parent = None \/ p.size < parent.size)
                      => [parent |-> Ref(p), child |-> Ref(h)] \in Anomalies(hits)

(* Two slices never get one name, with or without the corpus in front:     *)
(* whatever separators, escapes and digits the ids are made of, the corpus, *)
(* the document, the size and the offset can be read off it (ids.py).      *)
NamesAreInjective == Fresh /\ Len(Text) <= 2 =>
    \A n, i, m, j \in Numerals : \A e \in Ids :
        /\ SliceName(e, m, j) = SliceName(Text, n, i) => e = Text /\ m = n /\ j = i
        /\ \A c, corpus \in Ids :
              CorpusSliceName(c, e, m, j) = CorpusSliceName(corpus, Text, n, i)
                  => c = corpus /\ e = Text /\ m = n /\ j = i
=============================================================================
