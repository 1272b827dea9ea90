------------------------------- MODULE Slicing -------------------------------
(***************************************************************************)
(* Multi-view slicing (slicer.py, model.py): one document cut at every     *)
(* size of the grid.  A text is a sequence of code points.                 *)
(*                                                                         *)
(* A marker is the SHA-256 digest of a slice's exact bytes; UTF-8 encoding *)
(* is injective and digests are taken not to collide, so a marker is       *)
(* modelled by the text it attests.  descendant_markers is a list whose    *)
(* order and repetitions nothing reads back; every reader turns it into a  *)
(* set or asks for membership, so it is a set here.                        *)
(***************************************************************************)
EXTENDS Grid, Sequences

CONSTANT Count(_)   \* TokenCounter.count: the tokens of a text

EndOf(s) == s.off + Len(s.text)             \* Slice.codepoint_end
Marker(s) == s.text                         \* Slice.own_marker
Ref(s) == [doc |-> s.doc, size |-> s.size, off |-> s.off]

-----------------------------------------------------------------------------
ClippedEnd(off, size, n) == IF off + size < n THEN off + size ELSE n

Passage(text, off, size) == SubSeq(text, off + 1, ClippedEnd(off, size, Len(text)))

(* range(from, to, size).  Mutant: no offset for a short final slice.      *)
WholeOffsets(from, to, size) == {o \in from .. (to - size) : (o - from) % size = 0}

Offsets(from, to, size) == {o \in from .. (to - 1) : (o - from) % size = 0}

(* Mutant: only whole descendants are listed, never the clipped last one.  *)
DescendantsOfWholeOnly(text, off, size) ==
    LET end == ClippedEnd(off, size, Len(text))
    IN  UNION {{Passage(text, o, s) : o \in {x \in Offsets(off, end, s) : x + s <= end}} :
                   s \in LevelsBelow(size)}

Descendants(text, off, size) ==
    LET end == ClippedEnd(off, size, Len(text))
    IN  UNION {{Passage(text, o, s) : o \in Offsets(off, end, s)} : s \in LevelsBelow(size)}

SliceAt(doc, text, off, size) ==
    [doc |-> doc, size |-> size, off |-> off,
     text |-> Passage(text, off, size), doclen |-> Len(text),
     desc |-> Descendants(text, off, size),
     tokens |-> Count(Passage(text, off, size))]

(* A slice as it is cut, from whatever text: it holds all of the document  *)
(* that its place on the grid covers, and lists as descendants what the    *)
(* slicing of its own text would.                                          *)
IsCut(s) ==
    /\ s.size \in Sizes
    /\ s.off \in Nat /\ OnGrid(s.off, s.size)
    /\ s.doclen \in Nat /\ s.off < s.doclen
    /\ s.text \in Seq({s.text[k] : k \in DOMAIN s.text})
    /\ EndOf(s) = ClippedEnd(s.off, s.size, s.doclen)
    /\ s.desc = Descendants(s.text, 0, s.size)

(* Every slice of the document, at every size of the grid.                 *)
MultiView(doc, text) ==
    UNION {{SliceAt(doc, text, o, s) : o \in Offsets(0, Len(text), s)} : s \in Sizes}
=============================================================================
