---------------------------------- MODULE Ids ----------------------------------
(***************************************************************************)
(* The name a slice's point id is hashed from (ids.py).  A name is a       *)
(* sequence of code points; UUIDv5 of the name is taken not to collide.    *)
(***************************************************************************)
EXTENDS Sequences

Lists == INSTANCE SequencesExt

(* The code points ids.py tells apart: the separator and the escape.  The  *)
(* numeric fields, as str writes them, hold neither.                       *)
Sep == "|"
Esc == "\\"

-----------------------------------------------------------------------------
(* Mutant: the escapes themselves are not escaped.                         *)
EscapeSepOnly(field) ==
    Lists!FlattenSeq([i \in DOMAIN field |->
        IF field[i] = Sep THEN <<Esc, Sep>> ELSE <<field[i]>>])

Escape(field) ==
    Lists!FlattenSeq([i \in DOMAIN field |->
        IF field[i] \in {Sep, Esc} THEN <<Esc, field[i]>> ELSE <<field[i]>>])

SliceName(doc, size, off) == Escape(doc) \o <<Sep>> \o size \o <<Sep>> \o off

(* Adapters that mix corpora in one collection put the corpus in front.    *)
CorpusSliceName(corpus, doc, size, off) == Escape(corpus) \o <<Sep>> \o SliceName(doc, size, off)
=============================================================================
