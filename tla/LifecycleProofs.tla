---------------------------- MODULE LifecycleProofs ----------------------------
(***************************************************************************)
(* What the life of a corpus keeps, and what the store promises the        *)
(* clients of it: content that was put without a rival is served, and its  *)
(* replacement leaves no gap; proved for every number of clients and       *)
(* documents, every grid, menu and bound.                                  *)
(***************************************************************************)
EXTENDS Lifecycle, SumsProofs, TLAPS

-----------------------------------------------------------------------------
(* The points of a document at one size.                                   *)
Cut(doc, text, s) == Points(doc, text, {s})

(* What the place at which a request stands says of its record.            *)

Looping == {"scroll", "write", "delete", "lookup", "read", "purge",
            "exists", "make", "index", "index docs", "present", "remove"}

(* The old ids that the new text does not reach.                           *)
Leftovers(r) ==
    {i \in r.old \ IdsOf(Points(r.call.doc, r.call.text, r.config.sizes)) :
        i.size \in r.config.sizes}

PlaceOK(r) ==
    /\ r.at \in Looping => r.todo # {}
    /\ r.at # "index docs" => r.todo \subseteq Sizes
    /\ r.at = "index docs" => r.todo \subseteq DocFields
    /\ r.call.op = "put" =>
          /\ r.at # "config" => r.config \in Configs
          /\ r.at = "tombstone" => Leftovers(r) # {}
          /\ \A i \in r.old : i.doc = r.call.doc

TypeInv == TypeOK /\ \A w \in Busy : PlaceOK(reqs[w])

(* A request that has passed its look at the registry found it there.      *)
Creating == {"exists", "make", "index", "save"}

BootInv ==
    /\ RegistryStands
    /\ \A w \in Busy :
          /\ reqs[w].at \in Creating \cup {"see docs", "make docs", "index docs", "check"} =>
                shared["meta"] # None
          /\ reqs[w].at \in Creating \cup {"index docs", "check"} => shared["docs"] # None

(* A request is alone if no other clashes with it.                         *)
AloneInv == \A w \in Busy : reqs[w].alone =>
    \A v \in Busy \ {w} : ~ Clash(reqs[v].call, reqs[w].call)

(* A health check that is alone makes what it saw missing, and gives the   *)
(* store up only for a failure.                                            *)
HealthInv == \A w \in Busy : reqs[w].call.op = "health" =>
    /\ reqs[w].since <= faults
    /\ reqs[w].alone =>
          /\ reqs[w].at = "make meta" => shared["meta"] = None
          /\ reqs[w].at = "make docs" => shared["docs"] = None
          /\ reqs[w].since = faults => reqs[w].ok

-----------------------------------------------------------------------------
(* What the collection of size s holds of the document, if there is one.   *)
HeldAt(d, s) == IF colls[s] = None THEN {} ELSE Held(d, s)

(* The new text's points of size s.                                        *)
NewAt(w, s) == OfSize(New(w), s)

-----------------------------------------------------------------------------
(* Requests move, and what they are stays what it is.                      *)

(* The request of w goes on to its next place; no other is touched.        *)
Onward(w) ==
    /\ reqs' = [reqs EXCEPT ![w] = reqs'[w]] /\ reqs'[w] \in Requests
    /\ reqs'[w].call = reqs[w].call /\ reqs'[w].rest = reqs[w].rest
    /\ reqs'[w].alone = reqs[w].alone /\ reqs'[w].was = reqs[w].was
    /\ reqs'[w].since = reqs[w].since
    /\ promised' = promised

Moved(w) == Onward(w) /\ PlaceOK(reqs'[w])

(* What the record of a request is.                                        *)
LEMMA BusyHas ==
    ASSUME TypeInv, NEW w \in Busy
    PROVE  /\ w \in Workers /\ reqs[w] \in Requests /\ PlaceOK(reqs[w])
           /\ DOMAIN reqs = Workers
<1>1. w \in Workers /\ reqs[w] # None /\ reqs \in [Workers -> Requests \cup {None}]
  BY DEF TypeInv, TypeOK, Busy
<1> QED
  BY <1>1 DEF TypeInv

(* A loop takes its least size next, and has fewer left then.              *)
LEMMA SizeIsLeft ==
    ASSUME NEW w, reqs[w].todo # {}, reqs[w].todo \subseteq Sizes \cup DocFields
    PROVE  Size(w) \in reqs[w].todo /\ Rest(w) \subseteq reqs[w].todo
<1>1. reqs[w].todo \subseteq Nat
  BY GridAssumption DEF DocFields
<1>2. Min(reqs[w].todo) \in reqs[w].todo
  BY <1>1, MinIsLeast
<1> QED
  BY <1>2 DEF Size, Rest

(* A request whose record changes as a move may change it moves.           *)
LEMMA RecordMoves ==
    ASSUME TypeInv, NEW w \in Busy, NEW r \in Requests, PlaceOK(r),
           reqs' = [reqs EXCEPT ![w] = r], promised' = promised,
           r.call = reqs[w].call, r.rest = reqs[w].rest, r.alone = reqs[w].alone,
           r.was = reqs[w].was, r.since = reqs[w].since
    PROVE  Moved(w) /\ reqs'[w] = r
<1>1. reqs'[w] = r
  BY BusyHas
<1> QED
  BY <1>1 DEF Moved, Onward

(* One await after the other.                                              *)
LEMMA GotoMoves ==
    ASSUME TypeInv, NEW w \in Busy, NEW at, Goto(w, at),
           NEW r \in Requests, r = [reqs[w] EXCEPT !.at = at], PlaceOK(r)
    PROVE  Moved(w) /\ reqs'[w] = r
<1>1. reqs[w] \in Requests /\ DOMAIN reqs = Workers /\ w \in Workers
  BY BusyHas
<1>2. reqs' = [reqs EXCEPT ![w] = r] /\ promised' = promised
  BY DEF Goto
<1>3. /\ r \in Requests /\ PlaceOK(r)
      /\ r.call = reqs[w].call /\ r.rest = reqs[w].rest /\ r.alone = reqs[w].alone
      /\ r.was = reqs[w].was /\ r.since = reqs[w].since
  BY <1>1 DEF Requests
<1> QED
  BY <1>2, <1>3, RecordMoves

(* The record of a request that stands there with these sizes to take.     *)
Placed(r, at, sizes) == [r EXCEPT !.at = at, !.todo = sizes]

(* A loop is entered, goes on or is left.                                  *)
LEMMA LoopMoves ==
    ASSUME TypeInv, NEW w \in Busy, NEW at, NEW sizes, Loop(w, at, sizes),
           NEW r \in Requests, r = Placed(reqs[w], at, sizes), PlaceOK(r)
    PROVE  Moved(w) /\ reqs'[w] = r
<1>1. reqs[w] \in Requests /\ DOMAIN reqs = Workers /\ w \in Workers
  BY BusyHas
<1>2. reqs' = [reqs EXCEPT ![w] = r] /\ promised' = promised
  BY <1>1 DEF Loop, Placed
<1>3. /\ r \in Requests /\ PlaceOK(r)
      /\ r.call = reqs[w].call /\ r.rest = reqs[w].rest /\ r.alone = reqs[w].alone
      /\ r.was = reqs[w].was /\ r.since = reqs[w].since
  BY <1>1 DEF Requests, Placed
<1> QED
  BY <1>2, <1>3, RecordMoves

(* What a call carries.                                                    *)
LEMMA CallHas ==
    ASSUME NEW c \in ClientCalls
    PROVE  /\ c.op \in {"put", "delete", "create", "drop", "health", "batch"}
           /\ c.op = "put" => c.doc \in Docs /\ c.text \in Texts
           /\ c.op = "delete" => c.doc \in Docs
           /\ c.op = "create" => c.config \in Configs
           /\ c.op = "batch" => c.items \in Seq(PutCalls) /\ c.items # << >>
BY DEF ClientCalls, PutCalls

(* What is promised of each document, as Enter, Proceed and Return say it. *)
PromiseType == [Docs -> SUBSET (Texts \cup {None})]

(* A call that begins.                                                     *)
LEMMA EnterMakes ==
    ASSUME TypeInv, NEW w \in Workers, NEW c \in ClientCalls, NEW rest \in Seq(PutCalls),
           NEW kept \in PromiseType, Enter(w, c, rest, kept)
    PROVE  /\ reqs'[w] \in Requests /\ PlaceOK(reqs'[w])
           /\ reqs'[w].call = c /\ reqs'[w].at = Entry(c.op) /\ reqs'[w].rest = rest
           /\ reqs'[w].ok /\ (c.op = "health" => reqs'[w].since = faults)
           /\ c.op = "put" => reqs'[w].was = kept[c.doc]
           /\ reqs'[w].alone => \A v \in Busy \ {w} : ~ Clash(reqs[v].call, c)
           /\ DOMAIN reqs' = Workers
           /\ \A v \in Workers \ {w} :
                 \/ reqs'[v] = reqs[v] /\ (v \in Busy => ~ Clash(reqs[v].call, c))
                 \/ v \in Busy /\ reqs'[v] = [reqs[v] EXCEPT !.alone = FALSE]
           /\ promised' \in PromiseType
           /\ \A d \in Docs : promised'[d] = IF Writes(c, d) THEN {} ELSE kept[d]
<1> DEFINE rivals == {v \in Busy \ {w} : Clash(reqs[v].call, c)}
           r == [call |-> c, at |-> Entry(c.op), rest |-> rest, config |-> None,
                 todo |-> {}, old |-> {}, ok |-> TRUE, alone |-> rivals = {},
                 since |-> IF c.op = "health" THEN faults ELSE 0,
                 was |-> IF c.op = "put" THEN kept[c.doc] ELSE {}]
<1>1. /\ reqs' = [v \in Workers |->
            IF v = w THEN r ELSE IF v \in rivals THEN [reqs[v] EXCEPT !.alone = FALSE]
            ELSE reqs[v]]
      /\ promised' = [d \in Docs |-> IF Writes(c, d) THEN {} ELSE kept[d]]
  BY DEF Enter
<1>2. r \in Requests
  <2>1. faults \in Nat
    BY ServiceAssumption DEF TypeInv, TypeOK
  <2>2. Entry(c.op) \in Places
    BY DEF Entry, Places
  <2>3. (IF c.op = "put" THEN kept[c.doc] ELSE {}) \in SUBSET (Texts \cup {None})
    BY CallHas DEF PromiseType
  <2>4. (rivals = {}) \in BOOLEAN
    OBVIOUS
  <2>5. (IF c.op = "health" THEN faults ELSE 0) \in Nat
    BY <2>1
  <2> HIDE DEF rivals
  <2> QED
    BY <2>2, <2>3, <2>4, <2>5 DEF Requests
<1>3. PlaceOK(r)
  BY CallHas DEF PlaceOK, Entry, Looping
<1>4. reqs'[w] = r /\ DOMAIN reqs' = Workers
  BY <1>1
<1>5. /\ r.call = c /\ r.at = Entry(c.op) /\ r.rest = rest /\ r.ok
      /\ c.op = "health" => r.since = faults
      /\ c.op = "put" => r.was = kept[c.doc]
      /\ r.alone => \A v \in Busy \ {w} : ~ Clash(reqs[v].call, c)
  OBVIOUS
<1>6. \A v \in Workers \ {w} :
         \/ reqs'[v] = reqs[v] /\ (v \in Busy => ~ Clash(reqs[v].call, c))
         \/ v \in Busy /\ reqs'[v] = [reqs[v] EXCEPT !.alone = FALSE]
  BY <1>1
<1>7. /\ promised' \in PromiseType
      /\ \A d \in Docs : promised'[d] = IF Writes(c, d) THEN {} ELSE kept[d]
  BY <1>1 DEF PromiseType
<1> HIDE DEF r
<1> QED
  BY <1>2, <1>3, <1>4, <1>5, <1>6, <1>7

(* The requests, and what is promised of the documents, are well formed.   *)
ReqsOK ==
    /\ reqs \in [Workers -> Requests \cup {None}]
    /\ promised \in PromiseType
    /\ \A w \in Busy : PlaceOK(reqs[w])

(* They stay so when a call begins, ...                                    *)
LEMMA EnterKeeps ==
    ASSUME TypeInv, NEW w \in Workers, NEW c \in ClientCalls, NEW rest \in Seq(PutCalls),
           NEW kept \in PromiseType, Enter(w, c, rest, kept)
    PROVE  ReqsOK'
<1>1. /\ reqs'[w] \in Requests /\ PlaceOK(reqs'[w])
      /\ DOMAIN reqs' = Workers
      /\ \A v \in Workers \ {w} :
            \/ reqs'[v] = reqs[v]
            \/ v \in Busy /\ reqs'[v] = [reqs[v] EXCEPT !.alone = FALSE]
      /\ promised' \in PromiseType
  BY EnterMakes
<1>2. ASSUME NEW v \in Workers \ {w}
      PROVE  /\ reqs'[v] \in Requests \cup {None}
             /\ reqs'[v] # None => PlaceOK(reqs'[v])
  <2>1. CASE reqs'[v] = reqs[v]
    BY <2>1 DEF TypeInv, TypeOK, Busy
  <2>2. CASE v \in Busy /\ reqs'[v] = [reqs[v] EXCEPT !.alone = FALSE]
    <3>1. reqs[v] \in Requests /\ PlaceOK(reqs[v])
      BY <2>2, BusyHas
    <3>2. reqs'[v] \in Requests
      BY <2>2, <3>1 DEF Requests
    <3>3. /\ reqs'[v].at = reqs[v].at /\ reqs'[v].todo = reqs[v].todo
          /\ reqs'[v].call = reqs[v].call /\ reqs'[v].config = reqs[v].config
          /\ reqs'[v].old = reqs[v].old
      BY <2>2, <3>1 DEF Requests
    <3>4. Leftovers(reqs'[v]) = Leftovers(reqs[v])
      BY <3>3 DEF Leftovers
    <3> QED
      BY <3>1, <3>2, <3>3, <3>4 DEF PlaceOK
  <2> QED
    BY <1>1, <2>1, <2>2
<1>3. reqs' = [v \in Workers |-> reqs'[v]]
  BY DEF Enter
<1>4. reqs' \in [Workers -> Requests \cup {None}]
  BY <1>1, <1>2, <1>3
<1>5. \A v \in Busy' : PlaceOK(reqs'[v])
  BY <1>1, <1>2 DEF Busy
<1> QED
  BY <1>1, <1>4, <1>5 DEF ReqsOK

(* ... when a request goes on, ...                                         *)
LEMMA MovedKeeps ==
    ASSUME TypeInv, NEW w \in Busy, Moved(w)
    PROVE  ReqsOK' /\ \A v \in Workers \ {w} : reqs'[v] = reqs[v]
<1>1. reqs \in [Workers -> Requests \cup {None}] /\ \A v \in Busy : PlaceOK(reqs[v])
  BY DEF TypeInv, TypeOK
<1>2. /\ reqs' = [reqs EXCEPT ![w] = reqs'[w]]
      /\ reqs'[w] \in Requests /\ PlaceOK(reqs'[w]) /\ promised' = promised
  BY DEF Moved, Onward
<1>3. reqs' \in [Workers -> Requests \cup {None}] /\ \A v \in Workers \ {w} : reqs'[v] = reqs[v]
  BY <1>1, <1>2
<1>4. \A v \in Busy' : PlaceOK(reqs'[v])
  BY <1>1, <1>2, <1>3 DEF Busy
<1>5. promised' \in PromiseType
  BY <1>2 DEF TypeInv, TypeOK, PromiseType
<1> QED
  BY <1>3, <1>4, <1>5 DEF ReqsOK

(* ... and when requests end.                                              *)
LEMMA EndKeeps ==
    ASSUME TypeInv, promised' \in PromiseType,
           \/ reqs' = [w \in Workers |-> None]
           \/ \E w \in Busy : reqs' = [reqs EXCEPT ![w] = None]
    PROVE  ReqsOK'
<1>1. reqs \in [Workers -> Requests \cup {None}] /\ \A v \in Busy : PlaceOK(reqs[v])
  BY DEF TypeInv, TypeOK
<1>2. \A v \in Workers : reqs'[v] \in {reqs[v], None}
  BY <1>1
<1>3. reqs' \in [Workers -> Requests \cup {None}]
  BY <1>1
<1>4. \A v \in Busy' : PlaceOK(reqs'[v])
  BY <1>1, <1>2 DEF Busy
<1> QED
  BY <1>3, <1>4 DEF ReqsOK

(* What is promised once the call of w has returned.                       *)
Returned(w) ==
    [d \in Docs |-> IF reqs[w].alone /\ Writes(reqs[w].call, d)
                    THEN {Content(reqs[w].call)} ELSE promised[d]]

(* A call that answers ends, or the next of its batch begins.              *)
LEMMA ProceedMakes ==
    ASSUME TypeInv, NEW w \in Busy, NEW kept \in PromiseType, Proceed(w, kept)
    PROVE  \/ /\ reqs[w].rest = << >>
              /\ reqs' = [reqs EXCEPT ![w] = None] /\ promised' = kept
           \/ /\ reqs[w].rest # << >>
              /\ Enter(w, Head(reqs[w].rest), Tail(reqs[w].rest), kept)
              /\ Head(reqs[w].rest) \in ClientCalls /\ Head(reqs[w].rest).op = "put"
              /\ Tail(reqs[w].rest) \in Seq(PutCalls)
<1>1. reqs[w] \in Requests
  BY BusyHas
<1>2. reqs[w].rest \in Seq(PutCalls)
  BY <1>1 DEF Requests
<1>3. reqs[w].rest # << >> =>
         /\ Head(reqs[w].rest) \in PutCalls
         /\ Tail(reqs[w].rest) \in Seq(PutCalls)
  BY <1>2
<1>4. \A c \in PutCalls : c \in ClientCalls /\ c.op = "put"
  BY DEF PutCalls, ClientCalls
<1> QED
  BY <1>3, <1>4 DEF Proceed

(* It leaves them well formed.                                             *)
LEMMA ProceedKeeps ==
    ASSUME TypeInv, NEW w \in Busy, NEW kept \in PromiseType, Proceed(w, kept)
    PROVE  ReqsOK'
<1>1. CASE reqs' = [reqs EXCEPT ![w] = None] /\ promised' = kept
  BY <1>1, EndKeeps
<1>2. CASE /\ Enter(w, Head(reqs[w].rest), Tail(reqs[w].rest), kept)
           /\ Head(reqs[w].rest) \in ClientCalls
           /\ Tail(reqs[w].rest) \in Seq(PutCalls)
  BY <1>2, EnterKeeps, BusyHas
<1> QED
  BY <1>1, <1>2, ProceedMakes

(* What a call that returns leaves promised.                               *)
LEMMA ReturnedType ==
    ASSUME TypeInv, NEW w \in Busy
    PROVE  Returned(w) \in PromiseType /\ promised \in PromiseType
<1>1. reqs[w] \in Requests
  BY BusyHas
<1>2. Content(reqs[w].call) \in Texts \cup {None}
  BY <1>1, CallHas DEF Content, Requests
<1> QED
  BY <1>2 DEF TypeInv, TypeOK, PromiseType, Returned

-----------------------------------------------------------------------------
(* The store stays well formed.                                            *)

StoreOK == StoreTypeOK(Texts, Configs)

(* What the points of a document are.                                      *)
LEMMA InPoints ==
    ASSUME NEW doc, NEW text, NEW sizes, NEW p
    PROVE  p \in Points(doc, text, sizes) <=>
              \E s \in sizes : \E o \in Offsets(0, Len(text), s) :
                  p = [doc |-> doc, size |-> s, off |-> o, of |-> text]
<1> DEFINE A(s) == {[doc |-> doc, size |-> s, off |-> o, of |-> text] : o \in Offsets(0, Len(text), s)}
<1>1. Points(doc, text, sizes) = UNION {A(s) : s \in sizes}
  BY DEF Points
<1>2. \A s : p \in A(s) <=> \E o \in Offsets(0, Len(text), s) :
                  p = [doc |-> doc, size |-> s, off |-> o, of |-> text]
  OBVIOUS
<1> HIDE DEF A
<1>3. p \in UNION {A(s) : s \in sizes} <=> \E s \in sizes : p \in A(s)
  OBVIOUS
<1> QED
  BY <1>1, <1>2, <1>3

(* Each is of its document, its text and one of the sizes.                 *)
LEMMA PointIs ==
    ASSUME NEW doc, NEW text, NEW sizes, NEW p \in Points(doc, text, sizes)
    PROVE  /\ p.doc = doc /\ p.of = text /\ p.size \in sizes
           /\ p \in Cut(doc, text, p.size)
<1>0. PICK s \in sizes : \E o \in Offsets(0, Len(text), s) :
          p = [doc |-> doc, size |-> s, off |-> o, of |-> text]
  BY InPoints
<1>1. PICK o \in Offsets(0, Len(text), s) :
          p = [doc |-> doc, size |-> s, off |-> o, of |-> text]
  BY <1>0
<1>2. p.doc = doc /\ p.of = text /\ p.size = s
  BY <1>1
<1>3. p \in Cut(doc, text, s)
  BY <1>1, InPoints DEF Cut
<1> QED
  BY <1>2, <1>3

(* The same of those cut at one size.                                      *)
LEMMA CutIs ==
    ASSUME NEW doc, NEW text, NEW s, NEW p \in Cut(doc, text, s)
    PROVE  p.doc = doc /\ p.of = text /\ p.size = s
<1>1. PICK sizes : sizes = {s}
  OBVIOUS
<1>2. p \in Points(doc, text, sizes)
  BY <1>1 DEF Cut
<1>3. p.doc = doc /\ p.of = text /\ p.size \in sizes
  BY <1>2, PointIs
<1> QED
  BY <1>1, <1>3

(* Those of one size are the points cut at that size.                      *)
LEMMA PointsOfSize ==
    ASSUME NEW doc, NEW text, NEW sizes, NEW s \in sizes
    PROVE  OfSize(Points(doc, text, sizes), s) = Cut(doc, text, s)
<1>1. ASSUME NEW p \in Points(doc, text, sizes), p.size = s PROVE p \in Cut(doc, text, s)
  BY <1>1, PointIs
<1>2. ASSUME NEW p \in Cut(doc, text, s) PROVE p \in Points(doc, text, sizes) /\ p.size = s
  <2>0. p.size \in {s}
    BY PointIs, Zenon DEF Cut
  <2>1. p.size = s
    BY <2>0
  <2>2. \E z \in {s} : \E o \in Offsets(0, Len(text), z) :
            p = [doc |-> doc, size |-> z, off |-> o, of |-> text]
    BY InPoints DEF Cut
  <2>3. \E z \in sizes : \E o \in Offsets(0, Len(text), z) :
            p = [doc |-> doc, size |-> z, off |-> o, of |-> text]
    BY <2>2
  <2>4. p \in Points(doc, text, sizes)
    BY <2>3, InPoints
  <2> QED
    BY <2>1, <2>4
<1> QED
  BY <1>1, <1>2 DEF OfSize

(* They are points as the store holds them.                                *)
LEMMA PointsTyped ==
    ASSUME NEW doc \in Docs, NEW text \in Texts, NEW sizes \in SUBSET Sizes
    PROVE  Points(doc, text, sizes) \subseteq SlicePoints(Texts)
<1> SUFFICES ASSUME NEW p \in Points(doc, text, sizes) PROVE p \in SlicePoints(Texts)
  OBVIOUS
<1>0. PICK s \in sizes : \E o \in Offsets(0, Len(text), s) :
          p = [doc |-> doc, size |-> s, off |-> o, of |-> text]
  BY InPoints
<1>1. PICK o \in Offsets(0, Len(text), s) :
          p = [doc |-> doc, size |-> s, off |-> o, of |-> text]
  BY <1>0
<1>2. o \in Nat
  BY ServiceAssumption DEF Offsets
<1> QED
  BY <1>1, <1>2 DEF SlicePoints

(* One collection changes.                                                 *)
LEMMA CollectionKeeps ==
    ASSUME StoreOK, NEW s \in Sizes, NEW k \in Collections(Texts, Configs) \cup {None},
           k # None => \A p \in k.points : p \in Cut(p.doc, p.of, s),
           colls' = [colls EXCEPT ![s] = k], UNCHANGED <<meta, docs, shared>>
    PROVE  StoreOK'
<1>1. colls' \in [Sizes -> Collections(Texts, Configs) \cup {None}]
  BY DEF StoreOK, StoreTypeOK
<1>2. \A z \in Sizes : colls'[z] # None => \A p \in colls'[z].points : p \in Cut(p.doc, p.of, z)
  BY DEF StoreOK, StoreTypeOK, Cut
<1> QED
  BY <1>1, <1>2 DEF StoreOK, StoreTypeOK, Cut

(* Its points change.                                                      *)
LEMMA PointsKeep ==
    ASSUME StoreOK, NEW s \in Sizes, colls[s] # None, NEW Q,
           \A q \in Q : \/ q \in colls[s].points
                        \/ q \in SlicePoints(Texts) /\ q \in Cut(q.doc, q.of, s),
           colls' = [colls EXCEPT ![s].points = Q], UNCHANGED <<meta, docs, shared>>
    PROVE  StoreOK'
<1> DEFINE k == [colls[s] EXCEPT !.points = Q]
<1>1. /\ colls[s] \in Collections(Texts, Configs)
      /\ \A p \in colls[s].points : p \in Cut(p.doc, p.of, s)
  BY DEF StoreOK, StoreTypeOK, Cut
<1>2. colls[s].points \subseteq SlicePoints(Texts)
  BY <1>1 DEF Collections
<1>3. Q \subseteq SlicePoints(Texts) /\ \A q \in Q : q \in Cut(q.doc, q.of, s)
  BY <1>1, <1>2
<1>4. k \in Collections(Texts, Configs) /\ k.points = Q
  BY <1>1, <1>3 DEF Collections
<1>5. colls' = [colls EXCEPT ![s] = k]
  OBVIOUS
<1> HIDE DEF k
<1> QED
  BY <1>3, <1>4, <1>5, CollectionKeeps

-----------------------------------------------------------------------------
(* What the steps of a request do to it: it goes on, or its call raises,   *)
(* or returns.                                                             *)
Kind(w) ==
    \/ Moved(w)
    \/ Proceed(w, promised)
    \/ Proceed(w, Returned(w))

(* A loop goes on to its next size, or is left.                            *)
LEMMA NextSizeMoves ==
    ASSUME TypeInv, NEW w \in Busy, NEW head \in Places, NEW after \in Places,
           NextSize(w, head, after),
           reqs[w].at = "index docs" <=> head = "index docs",
           reqs[w].at \in Looping, head \in Looping, after \notin Looping,
           after = "tombstone" => Leftovers(reqs[w]) # {},
           reqs[w].call.op = "put" => reqs[w].at # "config"
    PROVE  /\ Moved(w)
           /\ Size(w) \in reqs[w].todo
           /\ reqs'[w] = Placed(reqs[w], IF Rest(w) = {} THEN after ELSE head, Rest(w))
<1>1. w \in Workers /\ reqs[w] \in Requests /\ PlaceOK(reqs[w])
  BY BusyHas
<1>2. reqs[w].todo # {} /\ reqs[w].todo \subseteq Sizes \cup DocFields
  BY <1>1 DEF PlaceOK, Requests
<1>3. Size(w) \in reqs[w].todo /\ Rest(w) \subseteq reqs[w].todo
  BY <1>2, SizeIsLeft
<1>4. Rest(w) \in SUBSET (Sizes \cup DocFields)
  BY <1>2, <1>3
<1>5. PICK r, at, left :
          /\ at = (IF Rest(w) = {} THEN after ELSE head) /\ left = Rest(w)
          /\ r = Placed(reqs[w], at, left)
  OBVIOUS
<1>6. PlaceOK(r)
  <2>1. /\ r.at = at /\ r.todo = left /\ r.call = reqs[w].call /\ r.old = reqs[w].old
        /\ r.config = reqs[w].config
    BY <1>1, <1>5 DEF Requests, Placed
  <2>2. at \in Looping => left # {}
    BY <1>5
  <2>3. at # "index docs" => left \subseteq Sizes
    <3>1. CASE reqs[w].at = "index docs"
      BY <1>3, <1>5, <3>1
    <3>2. CASE reqs[w].at # "index docs"
      BY <1>1, <1>3, <1>5, <3>2 DEF PlaceOK
    <3> QED
      BY <3>1, <3>2
  <2>4. at = "tombstone" => Leftovers(r) # {}
    <3>1. Leftovers(r) = Leftovers(reqs[w])
      BY <2>1 DEF Leftovers
    <3>2. at = "tombstone" => after = "tombstone"
      BY <1>5 DEF Looping
    <3> QED
      BY <3>1, <3>2
  <2>5. at = "index docs" => left \subseteq DocFields
    BY <1>1, <1>3, <1>5 DEF PlaceOK, Looping
  <2> QED
    BY <1>1, <2>1, <2>2, <2>3, <2>4, <2>5 DEF PlaceOK
<1>7. Loop(w, at, left)
  BY <1>5 DEF NextSize, Loop
<1>8. r \in Requests
  BY <1>1, <1>4, <1>5 DEF Requests, Placed
<1>9. Moved(w) /\ reqs'[w] = r
  BY <1>5, <1>6, <1>7, <1>8, LoopMoves
<1> QED
  BY <1>3, <1>5, <1>9

(* A place after the loops, or in the loop in which the request is.        *)
LEMMA GotoPlaces ==
    ASSUME TypeInv, NEW w \in Busy, NEW at \in Places, Goto(w, at),
           at \in Looping => reqs[w].at \in Looping,
           reqs[w].at # "index docs", at \notin {"index docs", "tombstone"},
           reqs[w].call.op = "put" => reqs[w].at # "config"
    PROVE  Moved(w) /\ reqs'[w] = Placed(reqs[w], at, reqs[w].todo)
<1>1. w \in Workers /\ reqs[w] \in Requests /\ PlaceOK(reqs[w])
  BY BusyHas
<1>2. PICK r : r = [reqs[w] EXCEPT !.at = at]
  OBVIOUS
<1>3. /\ r \in Requests /\ r.at = at /\ r.todo = reqs[w].todo /\ r.call = reqs[w].call
      /\ r.old = reqs[w].old /\ r.config = reqs[w].config
  BY <1>1, <1>2 DEF Requests
<1>4. PlaceOK(r)
  BY <1>1, <1>3 DEF PlaceOK
<1>5. Moved(w) /\ reqs'[w] = r
  BY <1>2, <1>3, <1>4, GotoMoves
<1>6. r = Placed(reqs[w], at, reqs[w].todo)
  BY <1>1, <1>2 DEF Placed, Requests
<1> QED
  BY <1>5, <1>6

(* The head of a loop.                                                     *)
LEMMA LoopPlaces ==
    ASSUME TypeInv, NEW w \in Busy, NEW at \in Places, NEW sizes, Loop(w, at, sizes),
           sizes \subseteq Sizes, at \in Looping => sizes # {}, at \notin {"index docs", "tombstone"},
           reqs[w].call.op = "put" => reqs[w].at # "config"
    PROVE  Moved(w) /\ reqs'[w] = Placed(reqs[w], at, sizes)
<1>1. w \in Workers /\ reqs[w] \in Requests /\ PlaceOK(reqs[w])
  BY BusyHas
<1>2. PICK r : r = Placed(reqs[w], at, sizes)
  OBVIOUS
<1>3. /\ r \in Requests /\ r.at = at /\ r.todo = sizes /\ r.call = reqs[w].call
      /\ r.old = reqs[w].old /\ r.config = reqs[w].config
  BY <1>1, <1>2 DEF Requests, Placed
<1>4. PlaceOK(r)
  BY <1>1, <1>3 DEF PlaceOK
<1> QED
  BY <1>2, <1>3, <1>4, LoopMoves

(* The config of the corpus has sizes, and they are sizes of the grid.     *)
LEMMA MetaHas ==
    ASSUME TypeInv, meta # None
    PROVE  meta \in Configs /\ meta.sizes \in SUBSET Sizes /\ meta.sizes # {}
BY ServiceAssumption DEF TypeInv, TypeOK, StoreTypeOK

(* The ids of a document's points, and the points of its new text.         *)
LEMMA HeldIs ==
    ASSUME TypeInv, NEW s \in Sizes, NEW d, NEW p \in Held(d, s), colls[s] # None
    PROVE  /\ p.doc = d /\ p.size = s /\ p.of \in Texts /\ p \in SlicePoints(Texts)
           /\ p \in Cut(d, p.of, s)
<1>1. /\ colls[s] \in Collections(Texts, Configs)
      /\ \A q \in colls[s].points : q \in Cut(q.doc, q.of, s)
  BY DEF TypeInv, TypeOK, StoreTypeOK, Cut
<1>2. colls[s].points \subseteq SlicePoints(Texts)
  BY <1>1 DEF Collections
<1>3. p \in colls[s].points /\ p.doc = d
  BY DEF Held
<1>4. p \in SlicePoints(Texts) /\ p \in Cut(d, p.of, s)
  BY <1>1, <1>2, <1>3
<1>5. p.size \in {s}
  BY <1>4, PointIs, Zenon DEF Cut
<1> QED
  BY <1>3, <1>4, <1>5 DEF SlicePoints

(* What a put at work knows.                                               *)
LEMMA PutHas ==
    ASSUME TypeInv, NEW w \in Busy, reqs[w].call.op = "put"
    PROVE  /\ reqs[w].call.doc \in Docs /\ reqs[w].call.text \in Texts
           /\ reqs[w].at # "config" =>
                 /\ reqs[w].config \in Configs
                 /\ reqs[w].config.sizes \in SUBSET Sizes /\ reqs[w].config.sizes # {}
                 /\ New(w) \subseteq SlicePoints(Texts)
<1>1. reqs[w] \in Requests /\ PlaceOK(reqs[w])
  BY BusyHas
<1>2. reqs[w].call \in ClientCalls
  BY <1>1 DEF Requests
<1>3. reqs[w].call.doc \in Docs /\ reqs[w].call.text \in Texts
  BY <1>2, CallHas
<1>4. ASSUME reqs[w].at # "config"
      PROVE  /\ reqs[w].config \in Configs
             /\ reqs[w].config.sizes \in SUBSET Sizes /\ reqs[w].config.sizes # {}
  BY <1>1, <1>4, ServiceAssumption DEF PlaceOK
<1>5. ASSUME reqs[w].at # "config" PROVE New(w) \subseteq SlicePoints(Texts)
  BY <1>3, <1>4, <1>5, PointsTyped DEF New
<1> QED
  BY <1>3, <1>4, <1>5

(* What each point of the new text is.                                     *)
LEMMA NewIs ==
    ASSUME NEW w, NEW p \in New(w)
    PROVE  /\ p.doc = reqs[w].call.doc /\ p.of = reqs[w].call.text
           /\ p.size \in reqs[w].config.sizes
           /\ p \in Cut(p.doc, p.of, p.size)
<1> DEFINE d == reqs[w].call.doc
           t == reqs[w].call.text
           z == reqs[w].config.sizes
<1>1. p \in Points(d, t, z)
  BY DEF New
<1> HIDE DEF d, t, z
<1>2. p.doc = d /\ p.of = t /\ p.size \in z /\ p \in Cut(d, t, p.size)
  BY <1>1, PointIs
<1>3. p \in Cut(p.doc, p.of, p.size)
  BY <1>2
<1> QED
  BY <1>2, <1>3 DEF d, t, z

(* The read of the config, and of the ids that are there.                  *)
LEMMA PutReads ==
    ASSUME TypeInv, NEW w \in Workers
    PROVE  /\ PutConfig(w) =>
                 /\ Moved(w)
                 /\ reqs'[w] = [reqs[w] EXCEPT !.at = "list", !.config = meta]
           /\ Scroll(w) =>
                 /\ Moved(w) /\ Size(w) \in reqs[w].todo
                 /\ LET old == reqs[w].old \cup IdsOf(Held(reqs[w].call.doc, Size(w)))
                        after == IF New(w) # {} THEN "embed" ELSE AfterWrites(w, old)
                    IN  reqs'[w] = [reqs[w] EXCEPT !.at = IF Rest(w) = {} THEN after ELSE "scroll",
                                                   !.todo = Rest(w), !.old = old]
<1>1. ASSUME PutConfig(w)
      PROVE  /\ Moved(w)
             /\ reqs'[w] = [reqs[w] EXCEPT !.at = "list", !.config = meta]
  <2>1. /\ w \in Busy /\ reqs[w].at = "config" /\ meta # None /\ promised' = promised
        /\ reqs' = [reqs EXCEPT ![w].at = "list", ![w].config = meta]
    BY <1>1 DEF PutConfig, At
  <2>2. reqs[w] \in Requests /\ PlaceOK(reqs[w]) /\ meta \in Configs /\ DOMAIN reqs = Workers
    BY <2>1, BusyHas, MetaHas
  <2> DEFINE r == [reqs[w] EXCEPT !.at = "list", !.config = meta]
  <2>3. /\ r \in Requests /\ r.at = "list" /\ r.todo = reqs[w].todo /\ r.call = reqs[w].call
        /\ r.old = reqs[w].old /\ r.config = meta /\ r.rest = reqs[w].rest
        /\ r.alone = reqs[w].alone /\ r.was = reqs[w].was /\ r.since = reqs[w].since
    BY <2>2 DEF Requests, Places
  <2>4. reqs' = [reqs EXCEPT ![w] = r]
    BY <2>1, <2>2
  <2> HIDE DEF r
  <2>5. PlaceOK(r)
    BY <2>1, <2>2, <2>3 DEF PlaceOK, Looping
  <2>6. Moved(w) /\ reqs'[w] = r
    BY <2>1, <2>3, <2>4, <2>5, RecordMoves
  <2> QED
    BY <2>6 DEF r
<1>2. ASSUME Scroll(w)
      PROVE  /\ Moved(w) /\ Size(w) \in reqs[w].todo
             /\ LET old == reqs[w].old \cup IdsOf(Held(reqs[w].call.doc, Size(w)))
                    after == IF New(w) # {} THEN "embed" ELSE AfterWrites(w, old)
                IN  reqs'[w] = [reqs[w] EXCEPT !.at = IF Rest(w) = {} THEN after ELSE "scroll",
                                               !.todo = Rest(w), !.old = old]
  <2> DEFINE old == reqs[w].old \cup IdsOf(Held(reqs[w].call.doc, Size(w)))
             after == IF New(w) # {} THEN "embed" ELSE AfterWrites(w, old)
             at == IF Rest(w) = {} THEN after ELSE "scroll"
             r == [reqs[w] EXCEPT !.at = at, !.todo = Rest(w), !.old = old]
  <2>1. /\ w \in Busy /\ reqs[w].at = "scroll" /\ reqs[w].call.op = "put" /\ promised' = promised
        /\ colls[Size(w)] # None
        /\ reqs' = [reqs EXCEPT ![w].at = at, ![w].todo = Rest(w), ![w].old = old]
    BY <1>2 DEF Scroll, At
  <2>2. reqs[w] \in Requests /\ PlaceOK(reqs[w]) /\ DOMAIN reqs = Workers
    BY <2>1, BusyHas
  <2>3. reqs[w].todo # {} /\ reqs[w].todo \subseteq Sizes
    BY <2>1, <2>2 DEF PlaceOK, Looping
  <2>4. Size(w) \in reqs[w].todo /\ Rest(w) \subseteq reqs[w].todo
    BY <2>3, SizeIsLeft
  <2>5. old \subseteq [doc : Docs, size : Sizes, off : Nat] /\ \A i \in old : i.doc = reqs[w].call.doc
    <3> DEFINE H == Held(reqs[w].call.doc, Size(w))
    <3>1. H \subseteq SlicePoints(Texts) /\ \A p \in H : p.doc = reqs[w].call.doc
      <4>1. Size(w) \in Sizes /\ colls[Size(w)] # None
        BY <2>1, <2>3, <2>4
      <4>2. ASSUME NEW p \in H PROVE p \in SlicePoints(Texts) /\ p.doc = reqs[w].call.doc
        BY <4>1, HeldIs
      <4> QED
        BY <4>2
    <3>2. reqs[w].old \subseteq [doc : Docs, size : Sizes, off : Nat]
      BY <2>2 DEF Requests
    <3>3. \A i \in reqs[w].old : i.doc = reqs[w].call.doc
      BY <2>1, <2>2 DEF PlaceOK
    <3> HIDE DEF H
    <3>4. \A i \in IdsOf(H) : i \in [doc : Docs, size : Sizes, off : Nat] /\ i.doc = reqs[w].call.doc
      BY <3>1 DEF IdsOf, Ref, SlicePoints
    <3>5. old = reqs[w].old \cup IdsOf(H)
      BY Zenon DEF H
    <3> HIDE DEF old
    <3> QED
      BY <3>2, <3>3, <3>4, <3>5
  <2>6. at \in Places \ {"config", "index docs"} /\ (at \in Looping => Rest(w) # {})
    BY DEF AfterWrites, Places, Looping
  <2>7. reqs' = [reqs EXCEPT ![w] = r]
    BY <2>1, <2>2
  <2>8. /\ r \in Requests /\ r.at = at /\ r.todo = Rest(w) /\ r.call = reqs[w].call
        /\ r.old = old /\ r.config = reqs[w].config /\ r.rest = reqs[w].rest
        /\ r.alone = reqs[w].alone /\ r.was = reqs[w].was /\ r.since = reqs[w].since
    <3> HIDE DEF at, old
    <3> QED
      BY <2>2, <2>3, <2>4, <2>5, <2>6 DEF Requests
  <2> HIDE DEF r, at, old
  <2>11. at = "tombstone" => Leftovers(r) # {}
    <3>1. Leftovers(r) = Orphans(w, old)
      BY <2>8 DEF Leftovers, Orphans, New
    <3>2. at = "tombstone" => Orphans(w, old) # {}
      BY DEF at, AfterWrites
    <3> QED
      BY <3>1, <3>2
  <2>9. PlaceOK(r)
    BY <2>11, <2>1, <2>2, <2>3, <2>4, <2>5, <2>6, <2>8 DEF PlaceOK
  <2>10. Moved(w) /\ reqs'[w] = r
    BY <2>1, <2>7, <2>8, <2>9, RecordMoves
  <2> QED
    BY <2>4, <2>10 DEF r, at, old
<1> QED
  BY <1>1, <1>2

(* The points of a size change as a write, a tombstone or a purge changes  *)
(* them, and the collection stays.                                         *)
LEMMA UpsertKeeps ==
    ASSUME TypeInv, NEW w \in Busy, reqs[w].call.op = "put", reqs[w].at # "config",
           NEW s \in Sizes, colls[s] # None, UpsertPoints(s, OfSize(New(w), s))
    PROVE  StoreOK'
<1> DEFINE P == OfSize(New(w), s)
           Q == {q \in colls[s].points : Ref(q) \notin IdsOf(P)} \cup P
<1>1. colls' = [colls EXCEPT ![s].points = Q] /\ UNCHANGED <<meta, docs, shared>>
  BY DEF UpsertPoints
<1>2. ASSUME NEW q \in P PROVE q \in SlicePoints(Texts) /\ q \in Cut(q.doc, q.of, s)
  <2>1. q \in New(w) /\ q.size = s
    BY DEF OfSize
  <2>2. q \in SlicePoints(Texts)
    BY <2>1, PutHas
  <2> QED
    BY <2>1, <2>2, NewIs
<1>3. \A q \in Q : \/ q \in colls[s].points
                   \/ q \in SlicePoints(Texts) /\ q \in Cut(q.doc, q.of, s)
  <2> HIDE DEF P
  <2> QED
    BY <1>2
<1>4. StoreOK
  BY DEF TypeInv, TypeOK, StoreOK
<1> HIDE DEF Q
<1> QED
  BY <1>1, <1>3, <1>4, PointsKeep

(* A collection loses points.                                              *)
LEMMA RemoveKeeps ==
    ASSUME TypeInv, NEW s \in Sizes, NEW Q, colls[s] # None, Q \subseteq colls[s].points,
           colls' = [colls EXCEPT ![s].points = Q], UNCHANGED <<meta, docs, shared>>
    PROVE  StoreOK'
<1>1. StoreOK
  BY DEF TypeInv, TypeOK, StoreOK
<1> QED
  BY <1>1, PointsKeep

(* A registry entry is written.                                            *)
LEMMA RecordKeeps ==
    ASSUME TypeInv, NEW d \in Docs, NEW t \in Texts \cup {None}, WriteRecord(d, t)
    PROVE  StoreOK'
<1>1. /\ docs' = [docs EXCEPT ![d] = t] /\ meta' = meta /\ colls' = colls /\ shared' = shared
      /\ docs \in [Docs -> Texts \cup {None}]
  BY DEF WriteRecord, TypeInv, TypeOK, StoreTypeOK
<1>2. docs' \in [Docs -> Texts \cup {None}]
  BY <1>1
<1> QED
  BY <1>1, <1>2 DEF TypeInv, TypeOK, StoreOK, StoreTypeOK

(* No change of the store.                                                 *)
LEMMA SameStoreKeeps ==
    ASSUME TypeInv, UNCHANGED store
    PROVE  StoreOK'
<1>1. meta' = meta /\ colls' = colls /\ docs' = docs /\ shared' = shared
  BY DEF store
<1>2. StoreOK
  BY DEF TypeInv, TypeOK, StoreOK
<1> QED
  BY <1>1, <1>2 DEF StoreOK, StoreTypeOK

(* The orphans of a put are what the record says is left over.             *)
LEMMA OrphansLeft ==
    ASSUME NEW w
    PROVE  Orphans(w, reqs[w].old) = Leftovers(reqs[w])
BY DEF Orphans, Leftovers, New

(* A put goes on, raises or returns, and keeps the store well formed.      *)
LEMMA PutSteps ==
    ASSUME TypeInv, NEW w \in Workers, Put(w)
    PROVE  w \in Busy /\ Kind(w) /\ StoreOK' /\ faults' \in 0 .. MaxFaults /\ issued' = issued
<1> SUFFICES w \in Busy /\ Kind(w) /\ StoreOK' /\ (faults' = faults \/ Fault(w)) /\ issued' = issued
  <2>1. faults \in 0 .. MaxFaults /\ MaxFaults \in Nat
    BY ServiceAssumption DEF TypeInv, TypeOK
  <2>2. Fault(w) => faults' \in 0 .. MaxFaults
    BY <2>1 DEF Fault
  <2> QED
    BY <2>1, <2>2
<1>1. w \in Busy /\ reqs[w].call.op = "put"
  BY DEF Put, At, PutConfig, ListIds, Scroll, Embed, UpsertSlices, WriteSize, Tombstone,
         DeleteSize, Register, Record
<1>2. reqs[w] \in Requests /\ PlaceOK(reqs[w])
  BY <1>1, BusyHas
<1>3. ASSUME reqs[w].at \in {"scroll", "write", "delete"}
      PROVE  Size(w) \in reqs[w].todo /\ Size(w) \in Sizes
  <2>1. reqs[w].todo # {} /\ reqs[w].todo \subseteq Sizes
    BY <1>2, <1>3 DEF PlaceOK, Looping
  <2>2. Size(w) \in reqs[w].todo
    BY <2>1, SizeIsLeft
  <2> QED
    BY <2>1, <2>2
<1>4. CASE PutConfig(w)
  <2>1. UNCHANGED store /\ faults' = faults /\ issued' = issued
    BY <1>4 DEF PutConfig, store
  <2> QED
    BY <1>1, <1>4, <2>1, PutReads, SameStoreKeeps DEF Kind
<1>5. CASE Scroll(w)
  <2>1. UNCHANGED store /\ faults' = faults /\ issued' = issued
    BY <1>5 DEF Scroll, store
  <2> QED
    BY <1>1, <1>5, <2>1, PutReads, SameStoreKeeps DEF Kind
<1>6. CASE ListIds(w)
  <2>1. UNCHANGED store /\ faults' = faults /\ issued' = issued
    BY <1>6 DEF ListIds, store
  <2>2. Loop(w, "scroll", meta.sizes) /\ meta # None /\ reqs[w].at = "list"
    BY <1>6 DEF ListIds, At
  <2>3. Moved(w)
    BY <1>1, <2>2, MetaHas, LoopPlaces DEF Places
  <2> QED
    BY <1>1, <2>1, <2>3, SameStoreKeeps DEF Kind
<1>7. CASE Embed(w)
  <2>1. UNCHANGED store /\ faults' = faults /\ issued' = issued
    BY <1>7 DEF Embed, store
  <2>2. Goto(w, "upsert") /\ reqs[w].at = "embed"
    BY <1>7 DEF Embed, At
  <2>3. Moved(w)
    BY <1>1, <2>2, GotoPlaces DEF Places, Looping
  <2> QED
    BY <1>1, <2>1, <2>3, SameStoreKeeps DEF Kind
<1>8. CASE UpsertSlices(w)
  <2>1. UNCHANGED store /\ faults' = faults /\ issued' = issued
    BY <1>8 DEF UpsertSlices, store
  <2>2. Loop(w, "write", reqs[w].config.sizes) /\ reqs[w].at = "upsert"
    BY <1>8 DEF UpsertSlices, At
  <2>3. reqs[w].config.sizes \subseteq Sizes /\ reqs[w].config.sizes # {}
    BY <1>1, <2>2, PutHas
  <2>4. Moved(w)
    BY <1>1, <2>2, <2>3, LoopPlaces DEF Places
  <2> QED
    BY <1>1, <2>1, <2>4, SameStoreKeeps DEF Kind
<1>9. CASE WriteSize(w)
  <2>1. /\ reqs[w].at = "write" /\ colls[Size(w)] # None
        /\ UpsertPoints(Size(w), OfSize(New(w), Size(w)))
        /\ Answered(w, NextSize(w, "write", AfterWrites(w, reqs[w].old)))
    BY <1>9 DEF WriteSize, At, Accepts
  <2>2. StoreOK'
    BY <1>1, <1>3, <2>1, UpsertKeeps
  <2>3. issued' = issued
    BY <2>1 DEF Answered
  <2>4. CASE NextSize(w, "write", AfterWrites(w, reqs[w].old)) /\ faults' = faults
    <3>1. AfterWrites(w, reqs[w].old) \in Places \ (Looping \cup {"index docs"})
      BY DEF AfterWrites, Places, Looping
    <3>2. AfterWrites(w, reqs[w].old) = "tombstone" => Leftovers(reqs[w]) # {}
      BY OrphansLeft DEF AfterWrites
    <3>3. Moved(w)
      BY <1>1, <2>1, <2>4, <3>1, <3>2, NextSizeMoves DEF Places, Looping
    <3> QED
      BY <1>1, <2>2, <2>3, <2>4, <3>3 DEF Kind
  <2>5. CASE Fault(w)
    BY <1>1, <2>2, <2>3, <2>5 DEF Kind, Fault, Raise
  <2> QED
    BY <2>1, <2>4, <2>5 DEF Answered
<1>10. CASE Tombstone(w)
  <2>1. UNCHANGED store /\ faults' = faults /\ issued' = issued
    BY <1>10 DEF Tombstone, store
  <2> DEFINE sizes == {i.size : i \in Orphans(w, reqs[w].old)}
  <2>2. Loop(w, "delete", sizes) /\ reqs[w].at = "tombstone"
    BY <1>10 DEF Tombstone, At
  <2>3. sizes # {} /\ sizes \subseteq Sizes
    <3>1. reqs[w].config.sizes \subseteq Sizes
      BY <1>1, <2>2, PutHas
    <3>2. Leftovers(reqs[w]) # {}
      BY <1>1, <1>2, <2>2 DEF PlaceOK
    <3> QED
      BY <3>1, <3>2, OrphansLeft DEF Leftovers
  <2> HIDE DEF sizes
  <2>4. Moved(w)
    BY <1>1, <2>2, <2>3, LoopPlaces DEF Places
  <2> QED
    BY <1>1, <2>1, <2>4, SameStoreKeeps DEF Kind
<1>11. CASE DeleteSize(w)
  <2>1. /\ reqs[w].at = "delete" /\ colls[Size(w)] # None
        /\ DeleteIds(Size(w), OfSize(Orphans(w, reqs[w].old), Size(w)))
        /\ Answered(w, NextSize(w, "delete", "register"))
    BY <1>11 DEF DeleteSize, At
  <2>2. StoreOK'
    <3> DEFINE ids == OfSize(Orphans(w, reqs[w].old), Size(w))
               Q == {q \in colls[Size(w)].points : Ref(q) \notin ids}
    <3>1. colls' = [colls EXCEPT ![Size(w)].points = Q] /\ UNCHANGED <<meta, docs, shared>>
      BY <2>1 DEF DeleteIds
    <3>2. Q \subseteq colls[Size(w)].points
      OBVIOUS
    <3> HIDE DEF Q
    <3> QED
      BY <1>3, <2>1, <3>1, <3>2, RemoveKeeps
  <2>3. issued' = issued
    BY <2>1 DEF Answered
  <2>4. CASE NextSize(w, "delete", "register") /\ faults' = faults
    <3>1. Moved(w)
      BY <1>1, <2>1, <2>4, NextSizeMoves DEF Places, Looping
    <3> QED
      BY <1>1, <2>2, <2>3, <2>4, <3>1 DEF Kind
  <2>5. CASE Fault(w)
    BY <1>1, <2>2, <2>3, <2>5 DEF Kind, Fault, Raise
  <2> QED
    BY <2>1, <2>4, <2>5 DEF Answered
<1>12. CASE Register(w)
  <2>1. UNCHANGED store /\ faults' = faults /\ issued' = issued
    BY <1>12 DEF Register, store
  <2>2. Goto(w, "record") /\ reqs[w].at = "register"
    BY <1>12 DEF Register, At
  <2>3. Moved(w)
    BY <1>1, <2>2, GotoPlaces DEF Places, Looping
  <2> QED
    BY <1>1, <2>1, <2>3, SameStoreKeeps DEF Kind
<1>13. CASE Record(w)
  <2>1. WriteRecord(reqs[w].call.doc, reqs[w].call.text) /\ Answered(w, Return(w))
    BY <1>13 DEF Record
  <2>2. StoreOK'
    BY <1>1, <2>1, PutHas, RecordKeeps
  <2>3. issued' = issued /\ ((Return(w) /\ faults' = faults) \/ Fault(w))
    BY <2>1 DEF Answered
  <2> QED
    BY <1>1, <2>2, <2>3 DEF Kind, Fault, Raise, Return, Returned
<1> QED
  BY <1>4, <1>5, <1>6, <1>7, <1>8, <1>9, <1>10, <1>11, <1>12, <1>13 DEF Put

(* A delete goes on, raises or returns, and keeps the store well formed.   *)
LEMMA DeleteSteps ==
    ASSUME TypeInv, NEW w \in Workers, Delete(w)
    PROVE  w \in Busy /\ Kind(w) /\ StoreOK' /\ faults' \in 0 .. MaxFaults /\ issued' = issued
<1> SUFFICES w \in Busy /\ Kind(w) /\ StoreOK' /\ (faults' = faults \/ Fault(w)) /\ issued' = issued
  <2>1. faults \in 0 .. MaxFaults /\ MaxFaults \in Nat
    BY ServiceAssumption DEF TypeInv, TypeOK
  <2>2. Fault(w) => faults' \in 0 .. MaxFaults
    BY <2>1 DEF Fault
  <2> QED
    BY <2>1, <2>2
<1>1. w \in Busy /\ reqs[w].call.op = "delete"
  BY DEF Delete, At, DeleteConfig, FindDocument, Lookup, ReadRecord, PurgeSize, Forget
<1>2. reqs[w] \in Requests /\ PlaceOK(reqs[w]) /\ reqs[w].call.doc \in Docs
  BY <1>1, BusyHas, CallHas DEF Requests
<1>3. ASSUME reqs[w].at = "purge"
      PROVE  Size(w) \in reqs[w].todo /\ Size(w) \in Sizes
  <2>1. reqs[w].todo # {} /\ reqs[w].todo \subseteq Sizes
    BY <1>2, <1>3 DEF PlaceOK, Looping
  <2>2. Size(w) \in reqs[w].todo
    BY <2>1, SizeIsLeft
  <2> QED
    BY <2>1, <2>2
<1>4. CASE DeleteConfig(w) \/ Lookup(w) \/ ReadRecord(w)
  <2>1. UNCHANGED store /\ faults' = faults /\ issued' = issued
    BY <1>4 DEF DeleteConfig, Lookup, ReadRecord, store
  <2>2. PICK at \in {"find", "read", "purge"} :
           /\ Goto(w, at) /\ reqs[w].at \in {"config", "lookup", "read"}
           /\ at \in Looping => reqs[w].at \in Looping
    BY <1>4 DEF DeleteConfig, Lookup, ReadRecord, At, Looping
  <2>3. Moved(w)
    BY <1>1, <2>2, GotoPlaces DEF Places
  <2> QED
    BY <1>1, <2>1, <2>3, SameStoreKeeps DEF Kind
<1>5. CASE FindDocument(w)
  <2>1. UNCHANGED store /\ faults' = faults /\ issued' = issued
    BY <1>5 DEF FindDocument, store
  <2>2. Loop(w, "lookup", meta.sizes) /\ meta # None /\ reqs[w].at = "find"
    BY <1>5 DEF FindDocument, At
  <2>3. Moved(w)
    BY <1>1, <2>2, MetaHas, LoopPlaces DEF Places
  <2> QED
    BY <1>1, <2>1, <2>3, SameStoreKeeps DEF Kind
<1>6. CASE PurgeSize(w)
  <2>1. /\ reqs[w].at = "purge" /\ colls[Size(w)] # None
        /\ DeleteByDocument(Size(w), reqs[w].call.doc)
        /\ Answered(w, NextSize(w, "purge", "forget"))
    BY <1>6 DEF PurgeSize, At
  <2>2. StoreOK'
    <3> DEFINE Q == colls[Size(w)].points \ Held(reqs[w].call.doc, Size(w))
    <3>1. colls' = [colls EXCEPT ![Size(w)].points = Q] /\ UNCHANGED <<meta, docs, shared>>
      BY <2>1 DEF DeleteByDocument
    <3>2. Q \subseteq colls[Size(w)].points
      OBVIOUS
    <3> HIDE DEF Q
    <3> QED
      BY <1>3, <2>1, <3>1, <3>2, RemoveKeeps
  <2>3. issued' = issued
    BY <2>1 DEF Answered
  <2>4. CASE NextSize(w, "purge", "forget") /\ faults' = faults
    <3>1. Moved(w)
      BY <1>1, <2>1, <2>4, NextSizeMoves DEF Places, Looping
    <3> QED
      BY <1>1, <2>2, <2>3, <2>4, <3>1 DEF Kind
  <2>5. CASE Fault(w)
    BY <1>1, <2>2, <2>3, <2>5 DEF Kind, Fault, Raise
  <2> QED
    BY <2>1, <2>4, <2>5 DEF Answered
<1>7. CASE Forget(w)
  <2>1. WriteRecord(reqs[w].call.doc, None) /\ Answered(w, Return(w))
    BY <1>7 DEF Forget
  <2>2. StoreOK'
    BY <1>2, <2>1, RecordKeeps
  <2>3. issued' = issued /\ ((Return(w) /\ faults' = faults) \/ Fault(w))
    BY <2>1 DEF Answered
  <2> QED
    BY <1>1, <2>2, <2>3 DEF Kind, Fault, Raise, Return, Returned
<1> QED
  BY <1>4, <1>5, <1>6, <1>7 DEF Delete

-----------------------------------------------------------------------------
(* The registry collections change.                                        *)
LEMMA SharedKeeps ==
    ASSUME TypeInv, NEW n \in {"meta", "docs"}, NEW indexes \in SUBSET DocFields,
           n = "meta" => indexes = {},
           shared' = [shared EXCEPT ![n] = indexes], UNCHANGED <<meta, colls, docs>>
    PROVE  StoreOK'
<1>1. shared \in [{"meta", "docs"} -> {None} \cup SUBSET DocFields] /\ shared["meta"] \in {None, {}}
  BY DEF TypeInv, TypeOK, StoreTypeOK
<1>2. shared' \in [{"meta", "docs"} -> {None} \cup SUBSET DocFields] /\ shared'["meta"] \in {None, {}}
  BY <1>1
<1> QED
  BY <1>2 DEF TypeInv, TypeOK, StoreOK, StoreTypeOK

(* A health check that finds the store down asks the embedder next.        *)
LEMMA DownMoves ==
    ASSUME TypeInv, NEW w \in Busy, StoreIsDown(w), reqs[w].call.op = "health"
    PROVE  Moved(w) /\ reqs'[w] = [reqs[w] EXCEPT !.at = "probe", !.ok = FALSE, !.todo = {}]
<1>1. w \in Workers /\ reqs[w] \in Requests /\ PlaceOK(reqs[w]) /\ DOMAIN reqs = Workers
  BY BusyHas
<1> DEFINE r == [reqs[w] EXCEPT !.at = "probe", !.ok = FALSE, !.todo = {}]
<1>2. reqs' = [reqs EXCEPT ![w] = r] /\ promised' = promised
  BY <1>1 DEF StoreIsDown
<1>3. /\ r \in Requests /\ r.at = "probe" /\ r.todo = {} /\ r.call = reqs[w].call
      /\ r.rest = reqs[w].rest /\ r.alone = reqs[w].alone
      /\ r.was = reqs[w].was /\ r.since = reqs[w].since
  BY <1>1 DEF Requests, Places
<1> HIDE DEF r
<1>4. PlaceOK(r)
  BY <1>3 DEF PlaceOK, Looping
<1>5. Moved(w) /\ reqs'[w] = r
  BY <1>2, <1>3, <1>4, RecordMoves
<1> QED
  BY <1>5 DEF r

(* A bootstrap that fails ends a create, and is noted by a health check.   *)
LEMMA BootFailsKind ==
    ASSUME TypeInv, NEW w \in Busy, reqs[w].call.op \in {"create", "health"}, BootFails(w)
    PROVE  Kind(w)
BY DownMoves DEF BootFails, Kind, Raise

(* A bootstrap goes on, or fails, and keeps the store well formed.         *)
LEMMA BootSteps ==
    ASSUME TypeInv, BootInv, NEW w \in Workers, Bootstrap(w)
    PROVE  w \in Busy /\ Kind(w) /\ StoreOK' /\ faults' \in 0 .. MaxFaults /\ issued' = issued
<1> SUFFICES /\ w \in Busy /\ Kind(w) /\ StoreOK' /\ issued' = issued
             /\ faults' = faults \/ (faults < MaxFaults /\ faults' = faults + 1)
  <2>1. faults \in 0 .. MaxFaults /\ MaxFaults \in Nat
    BY ServiceAssumption DEF TypeInv, TypeOK
  <2> QED
    BY <2>1
<1>1. w \in Busy /\ reqs[w].call.op \in {"create", "health"}
  BY DEF Bootstrap, Booting, SeeMeta, MakeMeta, SeeDocs, MakeDocs, IndexDocs, BootRefused
<1>2. reqs[w] \in Requests /\ PlaceOK(reqs[w])
  BY <1>1, BusyHas
<1>3. Booted(w) \in {"check", "probe"}
  BY DEF Booted
<1>4. CASE SeeMeta(w) \/ SeeDocs(w)
  <2>1. UNCHANGED store /\ faults' = faults /\ issued' = issued
    BY <1>4 DEF SeeMeta, SeeDocs, store
  <2>2. PICK at \in {"see docs", "make meta", "check", "probe", "make docs"} :
           Goto(w, at) /\ reqs[w].at \in {"see meta", "see docs"}
    BY <1>3, <1>4 DEF SeeMeta, SeeDocs, Booting
  <2>3. Moved(w)
    BY <1>1, <2>2, GotoPlaces DEF Places, Looping
  <2> QED
    BY <1>1, <2>1, <2>3, SameStoreKeeps DEF Kind
<1>5. CASE MakeMeta(w)
  <2>1. CreateRegistry("meta") /\ reqs[w].at = "make meta" /\ issued' = issued
    BY <1>5 DEF MakeMeta, Booting, Confirmed
  <2>2. StoreOK'
    <3>1. PICK n, indexes : n = "meta" /\ indexes = {}
      OBVIOUS
    <3>2. n \in {"meta", "docs"} /\ indexes \in SUBSET DocFields
      BY <3>1
    <3>3. shared' = [shared EXCEPT ![n] = indexes] /\ UNCHANGED <<meta, colls, docs>>
      BY <2>1, <3>1 DEF CreateRegistry
    <3> QED
      BY <3>1, <3>2, <3>3, SharedKeeps
  <2>3. CASE Goto(w, "see docs") /\ faults' = faults
    BY <1>1, <2>1, <2>2, <2>3, GotoPlaces DEF Places, Looping, Kind
  <2>4. CASE faults < MaxFaults /\ faults' = faults + 1 /\ BootFails(w)
    BY <1>1, <2>1, <2>2, <2>4, BootFailsKind
  <2> QED
    BY <1>5, <2>3, <2>4 DEF MakeMeta, Confirmed
<1>6. CASE MakeDocs(w)
  <2>1. CreateRegistry("docs") /\ reqs[w].at = "make docs" /\ issued' = issued
    BY <1>6 DEF MakeDocs, Booting, Confirmed
  <2>2. StoreOK'
    <3>1. PICK n, indexes : n = "docs" /\ indexes = {}
      OBVIOUS
    <3>2. n \in {"meta", "docs"} /\ indexes \in SUBSET DocFields
      BY <3>1
    <3>3. shared' = [shared EXCEPT ![n] = indexes] /\ UNCHANGED <<meta, colls, docs>>
      BY <2>1, <3>1 DEF CreateRegistry
    <3> QED
      BY <3>1, <3>2, <3>3, SharedKeeps
  <2>3. CASE Loop(w, "index docs", DocFields) /\ faults' = faults
    <3>1. PICK r : r = Placed(reqs[w], "index docs", DocFields)
      OBVIOUS
    <3>2. /\ r \in Requests /\ r.at = "index docs" /\ r.todo = DocFields /\ r.call = reqs[w].call
          /\ r.old = reqs[w].old /\ r.config = reqs[w].config
      BY <1>2, <3>1 DEF Requests, Placed, Places
    <3>3. PlaceOK(r)
      BY <1>1, <3>2 DEF PlaceOK, DocFields
    <3>4. Moved(w)
      BY <1>1, <2>3, <3>1, <3>2, <3>3, LoopMoves
    <3> QED
      BY <1>1, <2>1, <2>2, <2>3, <3>4 DEF Kind
  <2>4. CASE faults < MaxFaults /\ faults' = faults + 1 /\ BootFails(w)
    BY <1>1, <2>1, <2>2, <2>4, BootFailsKind
  <2> QED
    BY <1>6, <2>3, <2>4 DEF MakeDocs, Confirmed
<1>7. CASE IndexDocs(w)
  <2>1. IndexRegistry("docs", Size(w)) /\ reqs[w].at = "index docs" /\ issued' = issued
    BY <1>7 DEF IndexDocs, Booting, Confirmed
  <2>4. StoreOK'
    <3>1. PICK n, indexes : n = "docs" /\ indexes = shared["docs"] \cup {Size(w)}
      OBVIOUS
    <3>2. shared["docs"] \in SUBSET DocFields
      <4>1. shared \in [{"meta", "docs"} -> {None} \cup SUBSET DocFields]
        BY DEF TypeInv, TypeOK, StoreTypeOK
      <4>2. shared["docs"] # None
        BY <1>1, <2>1 DEF BootInv
      <4>3. shared["docs"] \in {None} \cup SUBSET DocFields
        BY <4>1
      <4> QED
        BY <4>2, <4>3
    <3>3. Size(w) \in DocFields
      <4>1. reqs[w].todo # {} /\ reqs[w].todo \subseteq DocFields
        BY <1>2, <2>1 DEF PlaceOK, Looping
      <4>2. Size(w) \in reqs[w].todo
        BY <4>1, SizeIsLeft
      <4> QED
        BY <4>1, <4>2
    <3>4. n \in {"meta", "docs"} /\ indexes \in SUBSET DocFields
      BY <3>1, <3>2, <3>3
    <3>5. shared' = [shared EXCEPT ![n] = indexes] /\ UNCHANGED <<meta, colls, docs>>
      BY <2>1, <3>1 DEF IndexRegistry
    <3> QED
      BY <3>1, <3>4, <3>5, SharedKeeps
  <2>2. CASE NextSize(w, "index docs", Booted(w)) /\ faults' = faults
    <3>1. Moved(w)
      BY <1>1, <1>3, <2>1, <2>2, NextSizeMoves DEF Places, Looping
    <3> QED
      BY <1>1, <2>1, <2>2, <2>4, <3>1 DEF Kind
  <2>3. CASE faults < MaxFaults /\ faults' = faults + 1 /\ BootFails(w)
    BY <1>1, <2>1, <2>3, <2>4, BootFailsKind
  <2> QED
    BY <1>7, <2>2, <2>3 DEF IndexDocs, Confirmed
<1>8. CASE BootRefused(w)
  <2>1. UNCHANGED store /\ faults' = faults /\ issued' = issued /\ BootFails(w)
    BY <1>8 DEF BootRefused, store
  <2> QED
    BY <1>1, <2>1, BootFailsKind, SameStoreKeeps
<1> QED
  BY <1>4, <1>5, <1>6, <1>7, <1>8 DEF Bootstrap

-----------------------------------------------------------------------------
(* The config of the corpus is written or erased.                          *)
LEMMA MetaKeeps ==
    ASSUME TypeInv, NEW c \in Configs \cup {None}, WriteMeta(c)
    PROVE  StoreOK'
BY DEF WriteMeta, TypeInv, TypeOK, StoreOK, StoreTypeOK

(* A collection is made, or indexed.                                       *)
LEMMA MakeKeeps ==
    ASSUME TypeInv, NEW s \in Sizes, NEW c \in Configs,
           \/ CreateCollection(s, c.dim)
           \/ CreateIndex(s) /\ colls[s] # None
    PROVE  StoreOK'
<1>0. StoreOK
  BY DEF TypeInv, TypeOK, StoreOK
<1>1. CASE CreateCollection(s, c.dim)
  <2> DEFINE k == [dim |-> c.dim, indexed |-> FALSE, points |-> {}]
  <2>1. k \in Collections(Texts, Configs)
    BY DEF Collections
  <2>2. k.points = {} /\ colls' = [colls EXCEPT ![s] = k] /\ UNCHANGED <<meta, docs, shared>>
    BY <1>1 DEF CreateCollection
  <2> HIDE DEF k
  <2> QED
    BY <1>0, <2>1, <2>2, CollectionKeeps
<1>2. CASE CreateIndex(s) /\ colls[s] # None
  <2> DEFINE k == [colls[s] EXCEPT !.indexed = TRUE]
  <2>1. /\ colls[s] \in Collections(Texts, Configs)
        /\ \A p \in colls[s].points : p \in Cut(p.doc, p.of, s)
    BY <1>0, <1>2 DEF StoreOK, StoreTypeOK, Cut
  <2>2. k \in Collections(Texts, Configs) /\ k.points = colls[s].points
    BY <2>1 DEF Collections
  <2>3. colls' = [colls EXCEPT ![s] = k] /\ UNCHANGED <<meta, docs, shared>>
    BY <1>2 DEF CreateIndex
  <2> HIDE DEF k
  <2> QED
    BY <1>0, <2>1, <2>2, <2>3, CollectionKeeps
<1> QED
  BY <1>1, <1>2

(* A create goes on, raises or returns.                                    *)
LEMMA CreateSteps ==
    ASSUME TypeInv, BootInv, NEW w \in Workers, Create(w)
    PROVE  w \in Busy /\ Kind(w) /\ StoreOK' /\ faults' \in 0 .. MaxFaults /\ issued' = issued
<1>1. CASE Bootstrap(w)
  BY <1>1, BootSteps
<1> SUFFICES ASSUME ~ Bootstrap(w)
             PROVE  w \in Busy /\ Kind(w) /\ StoreOK' /\ (faults' = faults \/ Fault(w)) /\ issued' = issued
  <2>1. faults \in 0 .. MaxFaults /\ MaxFaults \in Nat
    BY ServiceAssumption DEF TypeInv, TypeOK
  <2>2. Fault(w) => faults' \in 0 .. MaxFaults
    BY <2>1 DEF Fault
  <2> QED
    BY <1>1, <2>1, <2>2
<1>2. w \in Busy /\ reqs[w].call.op = "create"
  BY DEF Create, At, ProbeDimension, CheckName, CollectionExists, MakeCollection,
         IndexCollection, SaveConfig
<1>3. reqs[w] \in Requests /\ PlaceOK(reqs[w]) /\ reqs[w].call.config \in Configs
  BY <1>2, BusyHas, CallHas DEF Requests
<1>4. ASSUME reqs[w].at \in {"exists", "make", "index"}
      PROVE  Size(w) \in reqs[w].todo /\ Size(w) \in Sizes
  <2>1. reqs[w].todo # {} /\ reqs[w].todo \subseteq Sizes
    BY <1>3, <1>4 DEF PlaceOK, Looping
  <2>2. Size(w) \in reqs[w].todo
    BY <2>1, SizeIsLeft
  <2> QED
    BY <2>1, <2>2
<1>5. CASE ProbeDimension(w)
  <2>1. UNCHANGED store /\ faults' = faults /\ issued' = issued
    BY <1>5 DEF ProbeDimension, store
  <2>2. Goto(w, "see meta") /\ reqs[w].at = "probe"
    BY <1>5 DEF ProbeDimension, At
  <2>3. Moved(w)
    BY <1>2, <2>2, GotoPlaces DEF Places, Looping
  <2> QED
    BY <1>2, <2>1, <2>3, SameStoreKeeps DEF Kind
<1>6. CASE CheckName(w)
  <2>1. UNCHANGED store /\ faults' = faults /\ issued' = issued
    BY <1>6 DEF CheckName, store
  <2>2. Loop(w, "exists", reqs[w].call.config.sizes) /\ reqs[w].at = "check"
    BY <1>6 DEF CheckName, At
  <2>3. reqs[w].call.config.sizes \subseteq Sizes /\ reqs[w].call.config.sizes # {}
    BY <1>3, ServiceAssumption
  <2>4. Moved(w)
    BY <1>2, <2>2, <2>3, LoopPlaces DEF Places
  <2> QED
    BY <1>2, <2>1, <2>4, SameStoreKeeps DEF Kind
<1>7. CASE CollectionExists(w)
  <2>1. UNCHANGED store /\ faults' = faults /\ issued' = issued /\ reqs[w].at = "exists"
    BY <1>7 DEF CollectionExists, store, At
  <2>2. CASE Goto(w, "make")
    <3>1. Moved(w)
      BY <1>2, <2>1, <2>2, GotoPlaces DEF Places, Looping
    <3> QED
      BY <1>2, <2>1, <3>1, SameStoreKeeps DEF Kind
  <2>3. CASE NextSize(w, "exists", "save")
    <3>1. Moved(w)
      BY <1>2, <2>1, <2>3, NextSizeMoves DEF Places, Looping
    <3> QED
      BY <1>2, <2>1, <3>1, SameStoreKeeps DEF Kind
  <2> QED
    BY <1>7, <2>2, <2>3 DEF CollectionExists
<1>8. CASE MakeCollection(w)
  <2>1. /\ reqs[w].at = "make" /\ CreateCollection(Size(w), reqs[w].call.config.dim)
        /\ Answered(w, Goto(w, "index"))
    BY <1>8 DEF MakeCollection, At
  <2>2. StoreOK' /\ issued' = issued
    BY <1>3, <1>4, <2>1, MakeKeeps DEF Answered
  <2>3. CASE Goto(w, "index") /\ faults' = faults
    <3>1. Moved(w)
      BY <1>2, <2>1, <2>3, GotoPlaces DEF Places, Looping
    <3> QED
      BY <1>2, <2>2, <2>3, <3>1 DEF Kind
  <2>4. CASE Fault(w)
    BY <1>2, <2>2, <2>4 DEF Kind, Fault, Raise
  <2> QED
    BY <2>1, <2>3, <2>4 DEF Answered
<1>9. CASE IndexCollection(w)
  <2>1. /\ reqs[w].at = "index" /\ CreateIndex(Size(w)) /\ colls[Size(w)] # None
        /\ Answered(w, NextSize(w, "exists", "save"))
    BY <1>9 DEF IndexCollection, At
  <2>2. StoreOK' /\ issued' = issued
    BY <1>3, <1>4, <2>1, MakeKeeps DEF Answered
  <2>3. CASE NextSize(w, "exists", "save") /\ faults' = faults
    <3>1. Moved(w)
      BY <1>2, <2>1, <2>3, NextSizeMoves DEF Places, Looping
    <3> QED
      BY <1>2, <2>2, <2>3, <3>1 DEF Kind
  <2>4. CASE Fault(w)
    BY <1>2, <2>2, <2>4 DEF Kind, Fault, Raise
  <2> QED
    BY <2>1, <2>3, <2>4 DEF Answered
<1>10. CASE SaveConfig(w)
  <2>1. WriteMeta(reqs[w].call.config) /\ Answered(w, Return(w))
    BY <1>10 DEF SaveConfig
  <2>2. StoreOK'
    BY <1>3, <2>1, MetaKeeps
  <2>3. issued' = issued /\ ((Return(w) /\ faults' = faults) \/ Fault(w))
    BY <2>1 DEF Answered
  <2> QED
    BY <1>2, <2>2, <2>3 DEF Kind, Fault, Raise, Return, Returned
<1> QED
  BY <1>5, <1>6, <1>7, <1>8, <1>9, <1>10 DEF Create

(* A drop goes on, raises or returns.                                      *)
LEMMA DropSteps ==
    ASSUME TypeInv, NEW w \in Workers, Drop(w)
    PROVE  w \in Busy /\ Kind(w) /\ StoreOK' /\ faults' \in 0 .. MaxFaults /\ issued' = issued
<1> SUFFICES w \in Busy /\ Kind(w) /\ StoreOK' /\ (faults' = faults \/ Fault(w)) /\ issued' = issued
  <2>1. faults \in 0 .. MaxFaults /\ MaxFaults \in Nat
    BY ServiceAssumption DEF TypeInv, TypeOK
  <2>2. Fault(w) => faults' \in 0 .. MaxFaults
    BY <2>1 DEF Fault
  <2> QED
    BY <2>1, <2>2
<1>1. w \in Busy /\ reqs[w].call.op = "drop"
  BY DEF Drop, At, DropConfig, DropCorpus, CollectionPresent, RemoveCollection,
         ClearRegistry, EraseConfig
<1>2. reqs[w] \in Requests /\ PlaceOK(reqs[w])
  BY <1>1, BusyHas
<1>3. ASSUME reqs[w].at \in {"present", "remove"}
      PROVE  Size(w) \in reqs[w].todo /\ Size(w) \in Sizes
  <2>1. reqs[w].todo # {} /\ reqs[w].todo \subseteq Sizes
    BY <1>2, <1>3 DEF PlaceOK, Looping
  <2>2. Size(w) \in reqs[w].todo
    BY <2>1, SizeIsLeft
  <2> QED
    BY <2>1, <2>2
<1>4. CASE DropConfig(w)
  <2>1. UNCHANGED store /\ faults' = faults /\ issued' = issued
    BY <1>4 DEF DropConfig, store
  <2>2. Goto(w, "reread") /\ reqs[w].at = "config"
    BY <1>4 DEF DropConfig, At
  <2>3. Moved(w)
    BY <1>1, <2>2, GotoPlaces DEF Places, Looping
  <2> QED
    BY <1>1, <2>1, <2>3, SameStoreKeeps DEF Kind
<1>5. CASE DropCorpus(w)
  <2>1. UNCHANGED store /\ faults' = faults /\ issued' = issued
    BY <1>5 DEF DropCorpus, store
  <2>2. Loop(w, "present", meta.sizes) /\ meta # None /\ reqs[w].at = "reread"
    BY <1>5 DEF DropCorpus, At
  <2>3. Moved(w)
    BY <1>1, <2>2, MetaHas, LoopPlaces DEF Places
  <2> QED
    BY <1>1, <2>1, <2>3, SameStoreKeeps DEF Kind
<1>6. CASE CollectionPresent(w)
  <2>1. UNCHANGED store /\ faults' = faults /\ issued' = issued /\ reqs[w].at = "present"
    BY <1>6 DEF CollectionPresent, store, At
  <2>2. CASE Goto(w, "remove")
    <3>1. Moved(w)
      BY <1>1, <2>1, <2>2, GotoPlaces DEF Places, Looping
    <3> QED
      BY <1>1, <2>1, <3>1, SameStoreKeeps DEF Kind
  <2>3. CASE NextSize(w, "present", "clear")
    <3>1. Moved(w)
      BY <1>1, <2>1, <2>3, NextSizeMoves DEF Places, Looping
    <3> QED
      BY <1>1, <2>1, <3>1, SameStoreKeeps DEF Kind
  <2> QED
    BY <1>6, <2>2, <2>3 DEF CollectionPresent
<1>7. CASE RemoveCollection(w)
  <2>1. /\ reqs[w].at = "remove" /\ DeleteCollection(Size(w))
        /\ Answered(w, NextSize(w, "present", "clear"))
    BY <1>7 DEF RemoveCollection, At
  <2>2. StoreOK' /\ issued' = issued
    <3>1. PICK k : k = None
      OBVIOUS
    <3>2. colls' = [colls EXCEPT ![Size(w)] = k] /\ UNCHANGED <<meta, docs, shared>>
      BY <2>1, <3>1 DEF DeleteCollection
    <3>3. StoreOK
      BY DEF TypeInv, TypeOK, StoreOK
    <3> QED
      BY <1>3, <2>1, <3>1, <3>2, <3>3, CollectionKeeps DEF Answered
  <2>3. CASE NextSize(w, "present", "clear") /\ faults' = faults
    <3>1. Moved(w)
      BY <1>1, <2>1, <2>3, NextSizeMoves DEF Places, Looping
    <3> QED
      BY <1>1, <2>2, <2>3, <3>1 DEF Kind
  <2>4. CASE Fault(w)
    BY <1>1, <2>2, <2>4 DEF Kind, Fault, Raise
  <2> QED
    BY <2>1, <2>3, <2>4 DEF Answered
<1>8. CASE ClearRegistry(w)
  <2>1. reqs[w].at = "clear" /\ PurgeRegistry /\ Answered(w, Goto(w, "erase"))
    BY <1>8 DEF ClearRegistry, At
  <2>2. StoreOK' /\ issued' = issued
    BY <2>1 DEF PurgeRegistry, Answered, TypeInv, TypeOK, StoreOK, StoreTypeOK
  <2>3. CASE Goto(w, "erase") /\ faults' = faults
    <3>1. Moved(w)
      BY <1>1, <2>1, <2>3, GotoPlaces DEF Places, Looping
    <3> QED
      BY <1>1, <2>2, <2>3, <3>1 DEF Kind
  <2>4. CASE Fault(w)
    BY <1>1, <2>2, <2>4 DEF Kind, Fault, Raise
  <2> QED
    BY <2>1, <2>3, <2>4 DEF Answered
<1>9. CASE EraseConfig(w)
  <2>1. WriteMeta(None) /\ Answered(w, Return(w))
    BY <1>9 DEF EraseConfig
  <2>2. StoreOK'
    BY <2>1, MetaKeeps
  <2>3. issued' = issued /\ ((Return(w) /\ faults' = faults) \/ Fault(w))
    BY <2>1 DEF Answered
  <2> QED
    BY <1>1, <2>2, <2>3 DEF Kind, Fault, Raise, Return, Returned
<1> QED
  BY <1>4, <1>5, <1>6, <1>7, <1>8, <1>9 DEF Drop

(* A health check goes on, or returns.                                     *)
LEMMA HealthSteps ==
    ASSUME TypeInv, BootInv, NEW w \in Workers, Health(w)
    PROVE  w \in Busy /\ Kind(w) /\ StoreOK' /\ faults' \in 0 .. MaxFaults /\ issued' = issued
<1>0. faults \in 0 .. MaxFaults /\ MaxFaults \in Nat
  BY ServiceAssumption DEF TypeInv, TypeOK
<1>1. CASE Bootstrap(w)
  BY <1>1, BootSteps
<1>2. CASE Ping(w)
  <2>1. /\ UNCHANGED store /\ faults' = faults /\ issued' = issued
        /\ w \in Busy /\ reqs[w].call.op = "health"
    BY <1>2 DEF Ping, store, At
  <2>2. Goto(w, "see meta") /\ reqs[w].at = "ping"
    BY <1>2 DEF Ping, At
  <2>3. Moved(w)
    BY <2>1, <2>2, GotoPlaces DEF Places, Looping
  <2> QED
    BY <1>0, <2>1, <2>3, SameStoreKeeps DEF Kind
<1>3. CASE StoreFails(w)
  <2>1. /\ UNCHANGED store /\ faults < MaxFaults /\ faults' = faults + 1 /\ issued' = issued
        /\ w \in Busy /\ reqs[w].call.op = "health" /\ StoreIsDown(w)
    BY <1>3 DEF StoreFails, store
  <2>2. Moved(w)
    BY <2>1, DownMoves
  <2> QED
    BY <1>0, <2>1, <2>2, SameStoreKeeps DEF Kind
<1>4. CASE Report(w)
  <2>1. /\ UNCHANGED store /\ faults' = faults /\ issued' = issued
        /\ w \in Busy /\ Return(w)
    BY <1>4 DEF Report, store, At
  <2> QED
    BY <1>0, <2>1, SameStoreKeeps DEF Kind, Return, Returned
<1> QED
  BY <1>1, <1>2, <1>3, <1>4 DEF Health

(* A batch turns to its first document.                                    *)
Opens(w) ==
    LET items == reqs[w].call.items
    IN  /\ reqs[w].call.op = "batch"
        /\ Enter(w, Head(items), Tail(items), promised)
        /\ Head(items) \in ClientCalls /\ Head(items).op = "put"
        /\ Tail(items) \in Seq(PutCalls)

(* A batch opens its first put.                                            *)
LEMMA BatchSteps ==
    ASSUME TypeInv, NEW w \in Workers, OpenBatch(w)
    PROVE  w \in Busy /\ Opens(w) /\ StoreOK' /\ faults' = faults /\ issued' = issued
<1>1. /\ w \in Busy /\ reqs[w].call.op = "batch" /\ UNCHANGED store
      /\ faults' = faults /\ issued' = issued
      /\ Enter(w, Head(reqs[w].call.items), Tail(reqs[w].call.items), promised)
  BY DEF OpenBatch, At, store
<1>2. reqs[w].call.items \in Seq(PutCalls) /\ reqs[w].call.items # << >>
  BY <1>1, BusyHas, CallHas DEF Requests
<1>3. Head(reqs[w].call.items) \in PutCalls /\ Tail(reqs[w].call.items) \in Seq(PutCalls)
  BY <1>2
<1>4. \A c \in PutCalls : c \in ClientCalls /\ c.op = "put"
  BY DEF PutCalls, ClientCalls
<1> QED
  BY <1>1, <1>3, <1>4, SameStoreKeeps DEF Opens

(* What the steps of a client do, its failures included.                   *)
LEMMA StepsAre ==
    ASSUME TypeInv, BootInv, NEW w \in Workers, Step(w) \/ Broken(w)
    PROVE  w \in Busy /\ (Kind(w) \/ Opens(w)) /\ StoreOK' /\ faults' \in 0 .. MaxFaults
           /\ issued' = issued
<1>0. faults \in 0 .. MaxFaults /\ MaxFaults \in Nat
  BY ServiceAssumption DEF TypeInv, TypeOK
<1>1. CASE RefusedDocument(w) \/ RefusedCorpus(w)
  <2>1. w \in Busy /\ Raise(w) /\ UNCHANGED store /\ faults' = faults /\ issued' = issued
    BY <1>1 DEF RefusedDocument, RefusedCorpus, store
  <2> QED
    BY <1>0, <2>1, SameStoreKeeps DEF Kind, Raise
<1>2. CASE Broken(w)
  <2>1. w \in Busy /\ Fault(w) /\ UNCHANGED store /\ issued' = issued
    BY <1>2 DEF Broken, store
  <2> QED
    BY <1>0, <2>1, SameStoreKeeps DEF Kind, Raise, Fault
<1> QED
  BY <1>0, <1>1, <1>2, PutSteps, DeleteSteps, CreateSteps, DropSteps, HealthSteps, BatchSteps DEF Step

(* The requests stay well formed.                                          *)
LEMMA StepsKeepReqs ==
    ASSUME TypeInv, NEW w \in Busy, Kind(w) \/ Opens(w)
    PROVE  ReqsOK'
<1>1. w \in Workers
  BY BusyHas
<1>2. CASE Opens(w)
  BY <1>1, <1>2, EnterKeeps, ReturnedType DEF Opens
<1>3. CASE Kind(w)
  BY <1>3, MovedKeeps, ProceedKeeps, ReturnedType DEF Kind
<1> QED
  BY <1>2, <1>3

(* So everything stays well formed.                                        *)
LEMMA TypeKept ==
    ASSUME TypeInv, BootInv, [Next]_vars
    PROVE  TypeInv'
<1>0. faults \in 0 .. MaxFaults /\ MaxFaults \in Nat /\ issued \in [Workers -> 0 .. MaxCalls] /\ MaxCalls \in Nat
  BY ServiceAssumption DEF TypeInv, TypeOK
<1>1. promised \in PromiseType
  BY DEF TypeInv, TypeOK, PromiseType
<1> SUFFICES ReqsOK' /\ StoreOK' /\ faults' \in 0 .. MaxFaults /\ issued' \in [Workers -> 0 .. MaxCalls]
  BY DEF TypeInv, TypeOK, ReqsOK, StoreOK, PromiseType, Busy
<1>2. CASE Crash
  <2>1. /\ UNCHANGED store /\ issued' = issued /\ promised' = promised
        /\ faults < MaxFaults /\ faults' = faults + 1 /\ reqs' = [w \in Workers |-> None]
    BY <1>2 DEF Crash, store
  <2> QED
    BY <1>0, <1>1, <2>1, EndKeeps, SameStoreKeeps
<1>3. ASSUME NEW w \in Workers, Begin(w) PROVE ReqsOK' /\ StoreOK' /\ faults' \in 0 .. MaxFaults
                                              /\ issued' \in [Workers -> 0 .. MaxCalls]
  <2>1. PICK c \in Menu[w] : Enter(w, c, << >>, promised)
    BY <1>3 DEF Begin
  <2>2. c \in ClientCalls /\ << >> \in Seq(PutCalls)
    BY ServiceAssumption
  <2>3. ReqsOK'
    BY <1>1, <2>1, <2>2, EnterKeeps
  <2>4. /\ UNCHANGED store /\ faults' = faults /\ issued[w] < MaxCalls
        /\ issued' = [issued EXCEPT ![w] = issued[w] + 1]
    BY <1>3 DEF Begin, store
  <2>5. issued' \in [Workers -> 0 .. MaxCalls]
    BY <1>0, <2>4
  <2> QED
    BY <1>0, <2>3, <2>4, <2>5, SameStoreKeeps
<1>4. ASSUME NEW w \in Workers, StrayError(w) PROVE ReqsOK' /\ StoreOK' /\ faults' \in 0 .. MaxFaults /\ issued' = issued
  <2>1. /\ UNCHANGED store /\ issued' = issued /\ promised' = promised /\ w \in Busy
        /\ faults < MaxFaults /\ faults' = faults + 1 /\ reqs' = [reqs EXCEPT ![w] = None]
    BY <1>4 DEF StrayError, At, Abort, store
  <2>2. promised' \in PromiseType
    BY <1>1, <2>1
  <2>3. ReqsOK'
    BY <2>1, <2>2, EndKeeps
  <2> QED
    BY <1>0, <2>1, <2>3, SameStoreKeeps
<1>5. ASSUME NEW w \in Workers, Step(w) \/ Broken(w) PROVE ReqsOK' /\ StoreOK' /\ faults' \in 0 .. MaxFaults /\ issued' = issued
  BY <1>5, StepsAre, StepsKeepReqs
<1>6. CASE UNCHANGED vars
  <2>1. UNCHANGED store /\ issued' = issued /\ promised' = promised /\ faults' = faults /\ reqs' = reqs
    BY <1>6 DEF vars
  <2>2. ReqsOK'
    BY <2>1 DEF ReqsOK, TypeInv, TypeOK, Busy, PromiseType
  <2> QED
    BY <1>0, <2>1, <2>2, SameStoreKeeps
<1> QED
  BY <1>0, <1>2, <1>3, <1>4, <1>5, <1>6 DEF Next

-----------------------------------------------------------------------------
(* What a step of one client does to the requests: a call of its begins,   *)
(* goes on or ends, and the others only lose their solitude.               *)

(* A call begins with what is kept promised.                               *)
Enters(w, c, rest, kept) ==
    /\ c \in ClientCalls /\ rest \in Seq(PutCalls) /\ kept \in PromiseType
    /\ Enter(w, c, rest, kept)

Ends(w, kept) == reqs' = [reqs EXCEPT ![w] = None] /\ promised' = kept

(* A step of a request, or what befalls it.                                *)
Acts(w) == Step(w) \/ Broken(w) \/ StrayError(w)

(* Its call is answered: it ends, or the next of its batch begins.         *)
Answers(w, kept) ==
    \/ Ends(w, kept) /\ (reqs[w].rest = << >> \/ (kept = promised /\ StrayError(w)))
    \/ /\ reqs[w].rest # << >> /\ Head(reqs[w].rest).op = "put"
       /\ Enters(w, Head(reqs[w].rest), Tail(reqs[w].rest), kept)

Happens(w) ==
    \/ Moved(w)
    \/ Answers(w, promised) \/ Answers(w, Returned(w))
    \/ Opens(w)

(* A request that proceeds is answered.                                    *)
LEMMA ProceedAnswers ==
    ASSUME TypeInv, NEW w \in Busy, NEW kept \in {promised, Returned(w)}, Proceed(w, kept)
    PROVE  Answers(w, kept)
<1>1. kept \in PromiseType
  BY ReturnedType
<1>2. \/ Ends(w, kept) /\ reqs[w].rest = << >>
      \/ /\ reqs[w].rest # << >> /\ Head(reqs[w].rest).op = "put"
         /\ Enters(w, Head(reqs[w].rest), Tail(reqs[w].rest), kept)
  BY <1>1, ProceedMakes DEF Ends, Enters
<1> QED
  BY <1>2 DEF Answers

(* Every step of a request is a move of it, its end or the start of its    *)
(* next put.                                                               *)
LEMMA ActsHappen ==
    ASSUME TypeInv, BootInv, NEW w \in Workers, Acts(w)
    PROVE  w \in Busy /\ Happens(w)
<1>1. CASE StrayError(w)
  <2>1. w \in Busy /\ Ends(w, promised)
    BY <1>1 DEF StrayError, Abort, At, Ends
  <2> QED
    BY <1>1, <2>1 DEF Happens, Answers
<1>2. CASE Step(w) \/ Broken(w)
  <2>1. w \in Busy /\ (Kind(w) \/ Opens(w))
    BY <1>2, StepsAre
  <2> QED
    BY <2>1, ProceedAnswers DEF Kind, Happens
<1> QED
  BY <1>1, <1>2 DEF Acts

(* The record of another request stays, its solitude excepted.             *)
Same(v) ==
    /\ reqs'[v].call = reqs[v].call /\ reqs'[v].at = reqs[v].at
    /\ reqs'[v].rest = reqs[v].rest /\ reqs'[v].config = reqs[v].config
    /\ reqs'[v].todo = reqs[v].todo /\ reqs'[v].old = reqs[v].old
    /\ reqs'[v].ok = reqs[v].ok /\ reqs'[v].since = reqs[v].since
    /\ reqs'[v].was = reqs[v].was
    /\ reqs'[v].alone => reqs[v].alone

(* A call that is entered takes nothing but their being alone from the     *)
(* others.                                                                 *)
LEMMA OthersUnderEnter ==
    ASSUME TypeInv, NEW w \in Workers, NEW c, NEW rest, NEW kept, Enters(w, c, rest, kept),
           NEW v \in Workers \ {w}
    PROVE  /\ v \in Busy' <=> v \in Busy
           /\ v \in Busy => Same(v) /\ (reqs'[v].alone => ~ Clash(reqs[v].call, c))
<1>1. \/ reqs'[v] = reqs[v] /\ (v \in Busy => ~ Clash(reqs[v].call, c))
      \/ v \in Busy /\ reqs'[v] = [reqs[v] EXCEPT !.alone = FALSE]
  BY EnterMakes DEF Enters
<1>2. v \in Busy => reqs[v] \in Requests
  BY BusyHas
<1>3. CASE reqs'[v] = reqs[v] /\ (v \in Busy => ~ Clash(reqs[v].call, c))
  BY <1>3 DEF Busy, Same
<1>4. CASE v \in Busy /\ reqs'[v] = [reqs[v] EXCEPT !.alone = FALSE]
  <2>1. Same(v) /\ reqs'[v] \in Requests /\ ~ reqs'[v].alone
    BY <1>2, <1>4 DEF Requests, Same
  <2>2. reqs'[v] # None
    BY <2>1, NoneAssumption
  <2> QED
    BY <1>4, <2>1, <2>2 DEF Busy
<1> QED
  BY <1>1, <1>3, <1>4

(* A step of one request leaves the others where they stand.               *)
LEMMA OthersStay ==
    ASSUME TypeInv, BootInv, NEW w \in Workers, Acts(w), NEW v \in Workers \ {w}
    PROVE  /\ v \in Busy' <=> v \in Busy
           /\ v \in Busy => Same(v)
<1>1. w \in Busy /\ Happens(w)
  BY ActsHappen
<1>2. CASE Moved(w)
  <2>1. reqs'[v] = reqs[v]
    BY <1>1, <1>2, MovedKeeps
  <2> QED
    BY <2>1 DEF Busy, Same
<1>3. CASE \E kept : Ends(w, kept)
  <2>1. reqs'[v] = reqs[v]
    BY <1>3, BusyHas, <1>1 DEF Ends
  <2> QED
    BY <2>1 DEF Busy, Same
<1>4. CASE \E c, rest, kept : Enters(w, c, rest, kept)
  BY <1>4, OthersUnderEnter
<1>5. CASE Opens(w)
  <2>1. promised \in PromiseType
    BY <1>1, ReturnedType
  <2> QED
    BY <1>4, <1>5, <2>1 DEF Opens, Enters
<1> QED
  BY <1>1, <1>2, <1>3, <1>4, <1>5 DEF Happens, Answers

(* The same for a call that begins, and for its own record.                *)
LEMMA BeginEnters ==
    ASSUME TypeInv, NEW w \in Workers, Begin(w)
    PROVE  /\ w \notin Busy /\ UNCHANGED store /\ faults' = faults
           /\ \E c \in Menu[w] : Enters(w, c, << >>, promised)
<1>1. PICK c \in Menu[w] : Enter(w, c, << >>, promised)
  BY DEF Begin
<1>2. c \in ClientCalls /\ << >> \in Seq(PutCalls)
  BY ServiceAssumption
<1>3. promised \in PromiseType
  BY DEF TypeInv, TypeOK, PromiseType
<1> QED
  BY <1>1, <1>2, <1>3 DEF Enters, Begin, store

-----------------------------------------------------------------------------
(* What the calls of a step do to the points of each document.             *)

(* The points of one size change, and the collection stays.                *)
LEMMA PointsSet ==
    ASSUME TypeInv, NEW s \in Sizes, colls[s] # None, NEW Q \in SUBSET SlicePoints(Texts),
           colls' = [colls EXCEPT ![s].points = Q]
    PROVE  /\ colls'[s] # None /\ colls'[s].points = Q
           /\ \A z \in Sizes \ {s} : colls'[z] = colls[z]
<1> DEFINE k == [colls[s] EXCEPT !.points = Q]
<1>1. colls \in [Sizes -> Collections(Texts, Configs) \cup {None}]
  BY DEF TypeInv, TypeOK, StoreTypeOK
<1>2. colls[s] \in Collections(Texts, Configs)
  BY <1>1
<1>3. k \in Collections(Texts, Configs) /\ k.points = Q
  BY <1>2 DEF Collections
<1>4. colls'[s] = k /\ \A z \in Sizes \ {s} : colls'[z] = colls[z]
  BY <1>1
<1>5. k # None
  BY <1>3, NoneAssumption
<1> HIDE DEF k
<1> QED
  BY <1>3, <1>4, <1>5

(* The points of a collection are points of slices.                        *)
LEMMA PointsAre ==
    ASSUME TypeInv, NEW s \in Sizes, colls[s] # None
    PROVE  colls[s].points \in SUBSET SlicePoints(Texts)
<1>1. colls[s] \in Collections(Texts, Configs)
  BY DEF TypeInv, TypeOK, StoreTypeOK
<1> QED
  BY <1>1 DEF Collections

(* An upsert replaces the points at the coordinates of the new ones.       *)
LEMMA UpsertHolds ==
    ASSUME TypeInv, NEW w \in Busy, reqs[w].call.op = "put", reqs[w].at # "config",
           NEW s \in Sizes, colls[s] # None, UpsertPoints(s, OfSize(New(w), s)),
           NEW d \in Docs, NEW z \in Sizes
    PROVE  /\ colls'[z] = None <=> colls[z] = None
           /\ (d # reqs[w].call.doc \/ z # s) => HeldAt(d, z)' = HeldAt(d, z)
           /\ d = reqs[w].call.doc =>
                 HeldAt(d, s)' = {q \in HeldAt(d, s) : Ref(q) \notin IdsOf(NewAt(w, s))} \cup NewAt(w, s)
<1> DEFINE P == NewAt(w, s)
           Q == {q \in colls[s].points : Ref(q) \notin IdsOf(P)} \cup P
<1>1. \A p \in P : p \in SlicePoints(Texts) /\ p.doc = reqs[w].call.doc
  BY PutHas, NewIs DEF NewAt, OfSize
<1>2. colls[s].points \in SUBSET SlicePoints(Texts)
  BY PointsAre
<1>3. Q \in SUBSET SlicePoints(Texts)
  BY <1>1, <1>2
<1>4. colls' = [colls EXCEPT ![s].points = Q]
  BY DEF UpsertPoints, NewAt
<1>5. /\ colls'[s] # None /\ colls'[s].points = Q
      /\ \A y \in Sizes \ {s} : colls'[y] = colls[y]
  BY <1>3, <1>4, PointsSet
<1>6. ASSUME d # reqs[w].call.doc
      PROVE  {p \in Q : p.doc = d} = {p \in colls[s].points : p.doc = d}
  <2>1. \A i \in IdsOf(P) : i.doc # d
    BY <1>1, <1>6 DEF IdsOf, Ref
  <2>2. \A q : q.doc = d => Ref(q) \notin IdsOf(P)
    BY <2>1 DEF Ref
  <2>3. \A p \in P : p.doc # d
    BY <1>1, <1>6
  <2> HIDE DEF P
  <2> QED
    BY <2>2, <2>3
<1>7. ASSUME d = reqs[w].call.doc
      PROVE  {p \in Q : p.doc = d} =
                {q \in {p \in colls[s].points : p.doc = d} : Ref(q) \notin IdsOf(P)} \cup P
  <2> HIDE DEF P
  <2> QED
    BY <1>1, <1>7
<1> HIDE DEF Q, P
<1>8. ASSUME z # s PROVE colls'[z] = colls[z]
  BY <1>5, <1>8
<1> QED
  BY <1>5, <1>6, <1>7, <1>8 DEF HeldAt, Held, P

(* A tombstone removes the listed points of one document.                  *)
LEMMA DeleteHolds ==
    ASSUME TypeInv, NEW w \in Busy, reqs[w].call.op = "put",
           NEW s \in Sizes, colls[s] # None,
           DeleteIds(s, OfSize(Orphans(w, reqs[w].old), s)),
           NEW d \in Docs, NEW z \in Sizes
    PROVE  /\ colls'[z] = None <=> colls[z] = None
           /\ (d # reqs[w].call.doc \/ z # s) => HeldAt(d, z)' = HeldAt(d, z)
           /\ d = reqs[w].call.doc =>
                 HeldAt(d, s)' = {q \in HeldAt(d, s) : Ref(q) \notin OfSize(Orphans(w, reqs[w].old), s)}
<1> DEFINE ids == OfSize(Orphans(w, reqs[w].old), s)
           Q == {q \in colls[s].points : Ref(q) \notin ids}
<1>1. \A i \in ids : i.doc = reqs[w].call.doc
  BY BusyHas DEF Orphans, OfSize, PlaceOK
<1>2. colls[s].points \in SUBSET SlicePoints(Texts)
  BY PointsAre
<1>3. Q \in SUBSET SlicePoints(Texts)
  BY <1>2
<1>4. colls' = [colls EXCEPT ![s].points = Q]
  BY DEF DeleteIds
<1>5. /\ colls'[s] # None /\ colls'[s].points = Q
      /\ \A y \in Sizes \ {s} : colls'[y] = colls[y]
  BY <1>3, <1>4, PointsSet
<1>6. ASSUME d # reqs[w].call.doc
      PROVE  {p \in Q : p.doc = d} = {p \in colls[s].points : p.doc = d}
  <2>1. \A q : q.doc = d => Ref(q) \notin ids
    BY <1>1, <1>6 DEF Ref
  <2> HIDE DEF ids
  <2> QED
    BY <2>1
<1>7. {p \in Q : p.doc = d} = {q \in {p \in colls[s].points : p.doc = d} : Ref(q) \notin ids}
  <2> HIDE DEF ids
  <2> QED
    OBVIOUS
<1> HIDE DEF Q, ids
<1>8. ASSUME z # s PROVE colls'[z] = colls[z]
  BY <1>5, <1>8
<1> QED
  BY <1>5, <1>6, <1>7, <1>8 DEF HeldAt, Held, ids

(* A purge removes all of one document.                                    *)
LEMMA PurgeHolds ==
    ASSUME TypeInv, NEW doc, NEW s \in Sizes, colls[s] # None, DeleteByDocument(s, doc),
           NEW d \in Docs, NEW z \in Sizes
    PROVE  /\ colls'[z] = None <=> colls[z] = None
           /\ (d # doc \/ z # s) => HeldAt(d, z)' = HeldAt(d, z)
           /\ d = doc => HeldAt(d, s)' = {}
<1> DEFINE Q == colls[s].points \ Held(doc, s)
<1>2. colls[s].points \in SUBSET SlicePoints(Texts)
  BY PointsAre
<1>3. Q \in SUBSET SlicePoints(Texts)
  BY <1>2
<1>4. colls' = [colls EXCEPT ![s].points = Q]
  BY DEF DeleteByDocument
<1>5. /\ colls'[s] # None /\ colls'[s].points = Q
      /\ \A y \in Sizes \ {s} : colls'[y] = colls[y]
  BY <1>3, <1>4, PointsSet
<1>6. d # doc => {p \in Q : p.doc = d} = {p \in colls[s].points : p.doc = d}
  BY DEF Held
<1>7. d = doc => {p \in Q : p.doc = d} = {}
  BY DEF Held
<1> HIDE DEF Q
<1>8. ASSUME z # s PROVE colls'[z] = colls[z]
  BY <1>5, <1>8
<1> QED
  BY <1>5, <1>6, <1>7, <1>8 DEF HeldAt, Held

(* A new collection is empty, and an index changes no point.               *)
LEMMA MakeHolds ==
    ASSUME TypeInv, NEW s \in Sizes, NEW c \in Configs,
           \/ colls[s] = None /\ CreateCollection(s, c.dim)
           \/ colls[s] # None /\ CreateIndex(s),
           NEW d \in Docs, NEW z \in Sizes
    PROVE  /\ HeldAt(d, z)' = HeldAt(d, z)
           /\ (z # s \/ colls[s] # None) => (colls'[z] = None <=> colls[z] = None)
<1>0. colls \in [Sizes -> Collections(Texts, Configs) \cup {None}]
  BY DEF TypeInv, TypeOK, StoreTypeOK
<1>1. CASE colls[s] = None /\ CreateCollection(s, c.dim)
  <2> DEFINE k == [dim |-> c.dim, indexed |-> FALSE, points |-> {}]
  <2>1. k.points = {}
    OBVIOUS
  <2>2. colls'[s] = k /\ \A y \in Sizes \ {s} : colls'[y] = colls[y]
    BY <1>0, <1>1 DEF CreateCollection
  <2> HIDE DEF k
  <2> QED
    BY <1>1, <2>1, <2>2 DEF HeldAt, Held
<1>2. CASE colls[s] # None /\ CreateIndex(s)
  <2> DEFINE k == [colls[s] EXCEPT !.indexed = TRUE]
  <2>1. k \in Collections(Texts, Configs) /\ k.points = colls[s].points
    BY <1>0, <1>2 DEF Collections
  <2>2. colls'[s] = k /\ \A y \in Sizes \ {s} : colls'[y] = colls[y]
    BY <1>0, <1>2 DEF CreateIndex
  <2>3. k # None
    BY <2>1, NoneAssumption
  <2> HIDE DEF k
  <2> QED
    BY <1>2, <2>1, <2>2, <2>3 DEF HeldAt, Held
<1> QED
  BY <1>1, <1>2

(* A collection that is removed holds nothing.                             *)
LEMMA RemoveHolds ==
    ASSUME TypeInv, NEW s \in Sizes, DeleteCollection(s), NEW d \in Docs, NEW z \in Sizes
    PROVE  /\ z = s => colls'[z] = None /\ HeldAt(d, z)' = {}
           /\ z # s => colls'[z] = colls[z] /\ HeldAt(d, z)' = HeldAt(d, z)
<1>0. colls \in [Sizes -> Collections(Texts, Configs) \cup {None}]
  BY DEF TypeInv, TypeOK, StoreTypeOK
<1>1. colls'[s] = None /\ \A y \in Sizes \ {s} : colls'[y] = colls[y]
  BY <1>0 DEF DeleteCollection
<1> QED
  BY <1>1 DEF HeldAt, Held

(* What a step does to the store.                                          *)
PutStores(w) ==
    LET s == Size(w)
    IN  /\ reqs[w].call.op = "put"
        /\ \/ /\ reqs[w].at = "write" /\ colls[s] # None
              /\ UpsertPoints(s, OfSize(New(w), s))
           \/ /\ reqs[w].at = "delete" /\ colls[s] # None
              /\ DeleteIds(s, OfSize(Orphans(w, reqs[w].old), s))
           \/ reqs[w].at = "record" /\ WriteRecord(reqs[w].call.doc, reqs[w].call.text)

DeleteStores(w) ==
    LET s == Size(w)
    IN  /\ reqs[w].call.op = "delete"
        /\ \/ reqs[w].at = "purge" /\ colls[s] # None /\ DeleteByDocument(s, reqs[w].call.doc)
           \/ reqs[w].at = "forget" /\ WriteRecord(reqs[w].call.doc, None)

CreateStores(w) ==
    LET s == Size(w)
    IN  /\ reqs[w].call.op = "create"
        /\ \/ /\ reqs[w].at = "make" /\ colls[s] = None
              /\ CreateCollection(s, reqs[w].call.config.dim)
           \/ reqs[w].at = "index" /\ colls[s] # None /\ CreateIndex(s)
           \/ reqs[w].at = "save" /\ WriteMeta(reqs[w].call.config)

DropStores(w) ==
    LET s == Size(w)
    IN  /\ reqs[w].call.op = "drop"
        /\ \/ reqs[w].at = "remove" /\ DeleteCollection(s)
           \/ reqs[w].at = "clear" /\ PurgeRegistry
           \/ reqs[w].at = "erase" /\ WriteMeta(None)

BootStores(w) ==
    /\ reqs[w].call.op \in {"create", "health"}
    /\ \/ reqs[w].at = "make meta" /\ shared["meta"] = None /\ CreateRegistry("meta")
       \/ reqs[w].at = "make docs" /\ shared["docs"] = None /\ CreateRegistry("docs")
       \/ reqs[w].at = "index docs" /\ IndexRegistry("docs", Size(w))

(* What a step may do to the store, by the call that does it.              *)
LEMMA ActsStore ==
    ASSUME NEW w \in Workers, Acts(w)
    PROVE  \/ UNCHANGED store
           \/ PutStores(w) \/ DeleteStores(w) \/ CreateStores(w) \/ DropStores(w) \/ BootStores(w)
<1>1. Put(w) => UNCHANGED store \/ PutStores(w)
  BY DEF Put, PutConfig, ListIds, Scroll, Embed, UpsertSlices, WriteSize, Tombstone, DeleteSize,
         Register, Record, PutStores, At, Accepts, store
<1>2. Delete(w) => UNCHANGED store \/ DeleteStores(w)
  BY DEF Delete, DeleteConfig, FindDocument, Lookup, ReadRecord, PurgeSize, Forget,
         DeleteStores, At, store
<1>3. Bootstrap(w) => UNCHANGED store \/ BootStores(w)
  BY DEF Bootstrap, SeeMeta, MakeMeta, SeeDocs, MakeDocs, IndexDocs, BootRefused, Booting,
         BootStores, store
<1>4. Create(w) => UNCHANGED store \/ CreateStores(w) \/ BootStores(w)
  BY <1>3 DEF Create, ProbeDimension, CheckName, CollectionExists, MakeCollection, IndexCollection,
         SaveConfig, CreateStores, At, store
<1>5. Drop(w) => UNCHANGED store \/ DropStores(w)
  BY DEF Drop, DropConfig, DropCorpus, CollectionPresent, RemoveCollection, ClearRegistry,
         EraseConfig, DropStores, At, store
<1>6. Health(w) => UNCHANGED store \/ BootStores(w)
  BY <1>3 DEF Health, Ping, StoreFails, Report, store
<1>7. OpenBatch(w) \/ RefusedDocument(w) \/ RefusedCorpus(w) \/ Broken(w) \/ StrayError(w)
      => UNCHANGED store
  BY DEF OpenBatch, RefusedDocument, RefusedCorpus, Broken, StrayError, store
<1> QED
  BY <1>1, <1>2, <1>4, <1>5, <1>6, <1>7 DEF Acts, Step

(* What a step does to the config and to the registry collections.         *)
LEMMA ActsLeave ==
    ASSUME TypeInv, BootInv, NEW w \in Busy, Acts(w)
    PROVE  /\ meta' # meta =>
                 \/ /\ reqs[w].call.op = "create" /\ reqs[w].at = "save"
                    /\ meta' = reqs[w].call.config
                 \/ reqs[w].call.op = "drop" /\ reqs[w].at = "erase" /\ meta' = None
           /\ shared' # shared => reqs[w].call.op \in {"create", "health"}
           /\ \A n \in {"meta", "docs"} : shared[n] # None => shared'[n] # None
<1>0. w \in Workers /\ reqs[w] \in Requests /\ PlaceOK(reqs[w])
  BY BusyHas
<1>1. CASE UNCHANGED store \/ PutStores(w) \/ DeleteStores(w)
  <2>1. meta' = meta /\ shared' = shared
    BY <1>1 DEF store, PutStores, DeleteStores, UpsertPoints, DeleteIds, WriteRecord, DeleteByDocument
  <2> QED
    BY <2>1
<1>2. CASE CreateStores(w)
  BY <1>2 DEF CreateStores, CreateCollection, CreateIndex, WriteMeta
<1>3. CASE DropStores(w)
  BY <1>3 DEF DropStores, DeleteCollection, PurgeRegistry, WriteMeta
<1>4. CASE BootStores(w)
  <2>1. meta' = meta /\ reqs[w].call.op \in {"create", "health"}
    BY <1>4 DEF BootStores, CreateRegistry, IndexRegistry
  <2>2. \A n \in {"meta", "docs"} : shared[n] # None => shared'[n] # None
    <3>1. shared \in [{"meta", "docs"} -> {None} \cup SUBSET DocFields] /\ (reqs[w].at = "index docs" => shared["docs"] # None)
      BY DEF TypeInv, TypeOK, StoreTypeOK, BootInv
    <3>2. CASE CreateRegistry("meta") \/ CreateRegistry("docs")
      <4>1. {} # None
        BY NoneAssumption
      <4> QED
        BY <3>1, <3>2, <4>1 DEF CreateRegistry
    <3>3. CASE reqs[w].at = "index docs" /\ IndexRegistry("docs", Size(w))
      <4>1. Size(w) \in DocFields
        <5>1. reqs[w].todo # {} /\ reqs[w].todo \subseteq DocFields
          BY <1>0, <3>3 DEF PlaceOK, Looping
        <5> QED
          BY <5>1, SizeIsLeft
      <4>2. shared'["docs"] = shared["docs"] \cup {Size(w)} /\ shared'["meta"] = shared["meta"]
        BY <3>1, <3>3 DEF IndexRegistry
      <4>3. shared["docs"] \subseteq DocFields
        BY <3>1, <3>3
      <4>4. shared'["docs"] \in SUBSET DocFields
        BY <4>1, <4>2, <4>3
      <4>5. shared'["docs"] # None
        BY <4>4, NoneAssumption
      <4> QED
        BY <4>2, <4>5
    <3> QED
      BY <1>4, <3>2, <3>3 DEF BootStores
  <2> QED
    BY <2>1, <2>2
<1> QED
  BY <1>0, <1>1, <1>2, <1>3, <1>4, ActsStore

(* What it leaves alone of the documents and of their points.              *)
LEMMA ActsSpare ==
    ASSUME TypeInv, BootInv, NEW w \in Busy, Acts(w), NEW d \in Docs, NEW s \in Sizes
    PROVE  /\ docs'[d] # docs[d] => Writes(reqs[w].call, d)
           /\ HeldAt(d, s)' # HeldAt(d, s) => Writes(reqs[w].call, d)
           /\ ~ (colls'[s] = None <=> colls[s] = None) =>
                 \/ reqs[w].call.op = "create" /\ reqs[w].at = "make" /\ s = Size(w) /\ colls[s] = None
                 \/ /\ reqs[w].call.op = "drop" /\ reqs[w].at = "remove" /\ s = Size(w)
                    /\ colls'[s] = None
<1>0. /\ w \in Workers /\ reqs[w] \in Requests /\ PlaceOK(reqs[w]) /\ reqs[w].call \in ClientCalls
      /\ reqs[w].call.op \in {"put", "delete"} => reqs[w].call.doc \in Docs
      /\ reqs[w].call.op = "create" => reqs[w].call.config \in Configs
  BY BusyHas, CallHas DEF Requests
<1>1. ASSUME reqs[w].at \in Looping \ {"index docs"} PROVE Size(w) \in Sizes
  <2>1. reqs[w].todo # {} /\ reqs[w].todo \subseteq Sizes
    BY <1>0, <1>1 DEF PlaceOK
  <2> QED
    BY <2>1, SizeIsLeft
<1>2. colls' = colls => HeldAt(d, s)' = HeldAt(d, s)
  BY DEF HeldAt, Held
<1>3. CASE UNCHANGED store
  BY <1>2, <1>3 DEF store
<1>4. CASE PutStores(w)
  <2>1. CASE reqs[w].at = "write" /\ colls[Size(w)] # None /\ UpsertPoints(Size(w), OfSize(New(w), Size(w)))
    <3>1. /\ colls'[s] = None <=> colls[s] = None
          /\ (d # reqs[w].call.doc \/ s # Size(w)) => HeldAt(d, s)' = HeldAt(d, s)
      BY <1>0, <1>1, <1>4, <2>1, UpsertHolds DEF Looping, PutStores
    <3>2. meta' = meta /\ shared' = shared /\ docs' = docs
      BY <2>1 DEF UpsertPoints
    <3> QED
      BY <1>4, <3>1, <3>2 DEF PutStores, Writes
  <2>2. CASE reqs[w].at = "delete" /\ colls[Size(w)] # None /\ DeleteIds(Size(w), OfSize(Orphans(w, reqs[w].old), Size(w)))
    <3>1. /\ colls'[s] = None <=> colls[s] = None
          /\ (d # reqs[w].call.doc \/ s # Size(w)) => HeldAt(d, s)' = HeldAt(d, s)
      BY <1>0, <1>1, <1>4, <2>2, DeleteHolds DEF Looping, PutStores
    <3>2. meta' = meta /\ shared' = shared /\ docs' = docs
      BY <2>2 DEF DeleteIds
    <3> QED
      BY <1>4, <3>1, <3>2 DEF PutStores, Writes
  <2>3. CASE WriteRecord(reqs[w].call.doc, reqs[w].call.text)
    <3>1. meta' = meta /\ shared' = shared /\ colls' = colls /\ (d # reqs[w].call.doc => docs'[d] = docs[d])
      BY <2>3 DEF WriteRecord, TypeInv, TypeOK, StoreTypeOK
    <3> QED
      BY <1>2, <1>4, <3>1 DEF PutStores, Writes
  <2> QED
    BY <1>4, <2>1, <2>2, <2>3 DEF PutStores
<1>5. CASE DeleteStores(w)
  <2>1. CASE reqs[w].at = "purge" /\ colls[Size(w)] # None /\ DeleteByDocument(Size(w), reqs[w].call.doc)
    <3>1. /\ colls'[s] = None <=> colls[s] = None
          /\ (d # reqs[w].call.doc \/ s # Size(w)) => HeldAt(d, s)' = HeldAt(d, s)
      BY <1>0, <1>1, <2>1, PurgeHolds DEF Looping
    <3>2. meta' = meta /\ shared' = shared /\ docs' = docs
      BY <2>1 DEF DeleteByDocument
    <3> QED
      BY <1>5, <3>1, <3>2 DEF DeleteStores, Writes
  <2>2. CASE WriteRecord(reqs[w].call.doc, None)
    <3>1. meta' = meta /\ shared' = shared /\ colls' = colls /\ (d # reqs[w].call.doc => docs'[d] = docs[d])
      BY <2>2 DEF WriteRecord, TypeInv, TypeOK, StoreTypeOK
    <3> QED
      BY <1>2, <1>5, <3>1 DEF DeleteStores, Writes
  <2> QED
    BY <1>5, <2>1, <2>2 DEF DeleteStores
<1>6. CASE CreateStores(w)
  <2>1. CASE \/ /\ reqs[w].at = "make" /\ colls[Size(w)] = None
                /\ CreateCollection(Size(w), reqs[w].call.config.dim)
             \/ reqs[w].at = "index" /\ colls[Size(w)] # None /\ CreateIndex(Size(w))
    <3>1. Size(w) \in Sizes /\ reqs[w].call.config \in Configs
      BY <1>0, <1>1, <1>6, <2>1 DEF Looping, CreateStores
    <3>2. /\ HeldAt(d, s)' = HeldAt(d, s)
          /\ (s # Size(w) \/ colls[Size(w)] # None) => (colls'[s] = None <=> colls[s] = None)
      BY <2>1, <3>1, MakeHolds
    <3>3. meta' = meta /\ shared' = shared /\ docs' = docs
      BY <2>1 DEF CreateCollection, CreateIndex
    <3> QED
      BY <1>6, <2>1, <3>2, <3>3 DEF CreateStores
  <2>2. CASE reqs[w].at = "save" /\ WriteMeta(reqs[w].call.config)
    <3>1. meta' = reqs[w].call.config /\ shared' = shared /\ colls' = colls /\ docs' = docs
      BY <2>2 DEF WriteMeta
    <3> QED
      BY <1>2, <1>6, <2>2, <3>1 DEF CreateStores
  <2> QED
    BY <1>6, <2>1, <2>2 DEF CreateStores
<1>7. CASE DropStores(w)
  <2>0. Writes(reqs[w].call, d) /\ reqs[w].call.op = "drop"
    BY <1>7 DEF DropStores, Writes
  <2>1. CASE reqs[w].at = "remove" /\ DeleteCollection(Size(w))
    <3>1. /\ s # Size(w) => (colls'[s] = None <=> colls[s] = None)
          /\ s = Size(w) => colls'[s] = None
      BY <1>1, <2>1, RemoveHolds DEF Looping
    <3>2. meta' = meta /\ shared' = shared /\ docs' = docs
      BY <2>1 DEF DeleteCollection
    <3> QED
      BY <2>0, <2>1, <3>1, <3>2
  <2>2. CASE reqs[w].at = "clear" /\ PurgeRegistry
    BY <1>2, <2>0, <2>2 DEF PurgeRegistry
  <2>3. CASE reqs[w].at = "erase" /\ WriteMeta(None)
    BY <1>2, <2>0, <2>3 DEF WriteMeta
  <2> QED
    BY <1>7, <2>1, <2>2, <2>3 DEF DropStores
<1>8. CASE BootStores(w)
  <2>1. meta' = meta /\ colls' = colls /\ docs' = docs /\ reqs[w].call.op \in {"create", "health"}
    BY <1>8 DEF BootStores, CreateRegistry, IndexRegistry
  <2> QED
    BY <1>2, <2>1
<1> QED
  BY <1>0, <1>3, <1>4, <1>5, <1>6, <1>7, <1>8, ActsStore

-----------------------------------------------------------------------------
(* From which place a request that goes on comes, and where it goes.       *)

(* It keeps what it has read.                                              *)
Steady(w) ==
    Onward(w) /\ reqs'[w].config = reqs[w].config /\ reqs'[w].old = reqs[w].old /\ reqs'[w].ok = reqs[w].ok

(* The places by name.                                                     *)
LEMMA ArePlaces ==
    /\ "config" \in Places /\ "list" \in Places /\ "scroll" \in Places
    /\ "embed" \in Places /\ "upsert" \in Places /\ "write" \in Places
    /\ "tombstone" \in Places /\ "delete" \in Places /\ "register" \in Places
    /\ "record" \in Places /\ "find" \in Places /\ "lookup" \in Places
    /\ "read" \in Places /\ "purge" \in Places /\ "forget" \in Places
    /\ "probe" \in Places /\ "see meta" \in Places /\ "make meta" \in Places
    /\ "see docs" \in Places /\ "make docs" \in Places /\ "index docs" \in Places
    /\ "check" \in Places /\ "exists" \in Places /\ "make" \in Places
    /\ "index" \in Places /\ "save" \in Places /\ "reread" \in Places
    /\ "present" \in Places /\ "remove" \in Places /\ "clear" \in Places
    /\ "erase" \in Places /\ "ping" \in Places
BY DEF Places

(* Going to a place changes nothing else.                                  *)
LEMMA GotoGoes ==
    ASSUME TypeInv, NEW w \in Busy, NEW at \in Places, Goto(w, at)
    PROVE  reqs'[w].at = at /\ reqs'[w].todo = reqs[w].todo /\ Steady(w)
<1>1. reqs[w] \in Requests /\ DOMAIN reqs = Workers /\ w \in Workers
  BY BusyHas
<1> DEFINE r == [reqs[w] EXCEPT !.at = at]
<1>2. reqs'[w] = r
  BY <1>1 DEF Goto
<1>3. /\ r.at = at /\ r.todo = reqs[w].todo /\ r.config = reqs[w].config
      /\ r.old = reqs[w].old /\ r.ok = reqs[w].ok
      /\ r.call = reqs[w].call /\ r.rest = reqs[w].rest /\ r.alone = reqs[w].alone
      /\ r.was = reqs[w].was /\ r.since = reqs[w].since /\ r \in Requests
  BY <1>1 DEF Requests
<1>4. promised' = promised /\ reqs' = [reqs EXCEPT ![w] = r]
  BY <1>1 DEF Goto
<1> HIDE DEF r
<1> QED
  BY <1>2, <1>3, <1>4 DEF Steady, Onward

(* Starting a loop sets the place and what is left to do.                  *)
LEMMA LoopGoes ==
    ASSUME TypeInv, NEW w \in Busy, NEW at \in Places,
           NEW sizes \in SUBSET (Sizes \cup DocFields), Loop(w, at, sizes)
    PROVE  reqs'[w].at = at /\ reqs'[w].todo = sizes /\ Steady(w)
<1>1. reqs[w] \in Requests /\ DOMAIN reqs = Workers /\ w \in Workers
  BY BusyHas
<1> DEFINE r == [reqs[w] EXCEPT !.at = at, !.todo = sizes]
<1>2. reqs'[w] = r
  BY <1>1 DEF Loop
<1>3. /\ r.at = at /\ r.todo = sizes /\ r.config = reqs[w].config
      /\ r.old = reqs[w].old /\ r.ok = reqs[w].ok
      /\ r.call = reqs[w].call /\ r.rest = reqs[w].rest /\ r.alone = reqs[w].alone
      /\ r.was = reqs[w].was /\ r.since = reqs[w].since /\ r \in Requests
  BY <1>1 DEF Requests
<1>4. promised' = promised /\ reqs' = [reqs EXCEPT ![w] = r]
  BY <1>1 DEF Loop
<1> HIDE DEF r
<1> QED
  BY <1>2, <1>3, <1>4 DEF Steady, Onward

(* A loop turns to its next size, or is left behind.                       *)
LEMMA NextSizeGoes ==
    ASSUME TypeInv, NEW w \in Busy, NEW head \in Places, NEW after \in Places,
           NextSize(w, head, after)
    PROVE  /\ reqs'[w].at = (IF Rest(w) = {} THEN after ELSE head)
           /\ reqs'[w].todo = Rest(w) /\ Steady(w)
<1>1. PICK at, sizes : at = (IF Rest(w) = {} THEN after ELSE head) /\ sizes = Rest(w)
  OBVIOUS
<1>2. Loop(w, at, sizes)
  BY <1>1 DEF NextSize
<1>3. at \in Places /\ sizes \in SUBSET (Sizes \cup DocFields)
  BY <1>1, BusyHas DEF Rest, Requests
<1> QED
  BY <1>1, <1>2, <1>3, LoopGoes

(* A bootstrap goes on, its answer not being lost.                         *)
BootGoes(w) ==
    LET r == reqs[w]
        q == reqs'[w]
    IN  /\ r.call.op \in {"create", "health"} /\ Steady(w)
        /\ \/ r.at = "see meta" /\ q.at = "see docs" /\ shared["meta"] # None
           \/ r.at = "see meta" /\ q.at = "make meta" /\ shared["meta"] = None /\ UNCHANGED shared
           \/ r.at = "make meta" /\ q.at = "see docs" /\ CreateRegistry("meta")
           \/ r.at = "see docs" /\ q.at = Booted(w) /\ shared["docs"] # None
           \/ r.at = "see docs" /\ q.at = "make docs" /\ shared["docs"] = None /\ UNCHANGED shared
           \/ r.at = "make docs" /\ q.at = "index docs" /\ CreateRegistry("docs")
           \/ r.at = "index docs" /\ q.at \in {"index docs", Booted(w)}

(* A health check finds the store down.                                    *)
DownGoes(w) ==
    /\ reqs[w].call.op = "health" /\ reqs'[w].at = "probe" /\ ~ reqs'[w].ok /\ Onward(w)
    /\ \/ faults' = faults + 1
       \/ reqs[w].at = "make meta" /\ shared["meta"] # None
       \/ reqs[w].at = "make docs" /\ shared["docs"] # None

(* Its call raises, by a failure or because a rival's bootstrap made what  *)
(* it was to make.                                                         *)
Breaks(w) == Proceed(w, promised) /\ (faults' = faults + 1 \/ BootRefused(w))

(* A bootstrap that fails ends the call, but for the one of a health check.*)
LEMMA BootFailsGoes ==
    ASSUME TypeInv, NEW w \in Busy, reqs[w].call.op \in {"create", "health"}, BootFails(w),
           \/ faults' = faults + 1
           \/ reqs[w].at = "make meta" /\ shared["meta"] # None
           \/ reqs[w].at = "make docs" /\ shared["docs"] # None
    PROVE  Proceed(w, promised) \/ DownGoes(w)
<1>1. CASE reqs[w].call.op = "health" /\ StoreIsDown(w)
  <2>1. Moved(w) /\ reqs'[w] = [reqs[w] EXCEPT !.at = "probe", !.ok = FALSE, !.todo = {}]
    BY <1>1, DownMoves
  <2>2. reqs'[w].at = "probe" /\ ~ reqs'[w].ok
    BY <2>1, BusyHas DEF Requests
  <2> QED
    BY <1>1, <2>1, <2>2 DEF DownGoes, Moved
<1> QED
  BY <1>1 DEF BootFails, Raise

(* A step of the bootstrap.                                                *)
LEMMA BootstrapGoes ==
    ASSUME TypeInv, BootInv, NEW w \in Workers, Bootstrap(w)
    PROVE  Breaks(w) \/ DownGoes(w) \/ BootGoes(w)
<1>1. w \in Busy /\ reqs[w].call.op \in {"create", "health"}
  BY DEF Bootstrap, Booting, SeeMeta, MakeMeta, SeeDocs, MakeDocs, IndexDocs, BootRefused
<1>2. CASE SeeMeta(w)
  BY <1>1, <1>2, GotoGoes, ArePlaces DEF SeeMeta, Booting, BootGoes, store
<1>3. CASE SeeDocs(w)
  BY <1>1, <1>3, GotoGoes, ArePlaces DEF SeeDocs, Booting, Booted, BootGoes, store
<1>4. CASE MakeMeta(w)
  BY <1>1, <1>4, GotoGoes, ArePlaces, BootFailsGoes DEF MakeMeta, Booting, BootGoes, Confirmed, Breaks
<1>5. CASE MakeDocs(w)
  BY <1>1, <1>5, LoopGoes, ArePlaces, BootFailsGoes DEF MakeDocs, Booting, BootGoes, Confirmed, Breaks
<1>6. CASE IndexDocs(w)
  <2>1. NextSize(w, "index docs", Booted(w)) => BootGoes(w)
    BY <1>1, <1>6, NextSizeGoes, ArePlaces DEF IndexDocs, Booting, Booted, BootGoes
  <2> QED
    BY <1>1, <1>6, <2>1, BootFailsGoes DEF IndexDocs, Confirmed, Breaks
<1>7. CASE BootRefused(w)
  BY <1>1, <1>7, BootFailsGoes DEF BootRefused, Booting, Breaks
<1> QED
  BY <1>2, <1>3, <1>4, <1>5, <1>6, <1>7 DEF Bootstrap

(* A create goes on after its bootstrap, a drop goes on.                   *)
CreateGoes(w) ==
    LET r == reqs[w]
        q == reqs'[w]
    IN  /\ r.call.op = "create" /\ Onward(w)
        /\ \/ r.at = "probe" /\ q.at = "see meta" /\ UNCHANGED store
           \/ /\ r.at = "check" /\ meta = None /\ UNCHANGED store
              /\ q.at = "exists" /\ q.todo = r.call.config.sizes
           \/ r.at = "exists" /\ q.at = "make" /\ q.todo = r.todo /\ UNCHANGED store
           \/ /\ r.at = "make" /\ q.at = "index" /\ q.todo = r.todo
              /\ CreateCollection(Size(w), r.call.config.dim)
           \/ /\ q.at = (IF Rest(w) = {} THEN "save" ELSE "exists") /\ q.todo = Rest(w)
              /\ colls[Size(w)] # None
              /\ \/ r.at = "exists" /\ UNCHANGED store
                 \/ r.at = "index" /\ CreateIndex(Size(w))

DropGoes(w) ==
    LET r == reqs[w]
        q == reqs'[w]
    IN  /\ r.call.op = "drop" /\ Onward(w)
        /\ \/ r.at = "config" /\ q.at = "reread" /\ UNCHANGED store
           \/ r.at = "reread" /\ meta # None /\ q.at = "present" /\ q.todo = meta.sizes /\ UNCHANGED store
           \/ r.at = "present" /\ q.at = "remove" /\ q.todo = r.todo /\ UNCHANGED store
           \/ /\ q.at = (IF Rest(w) = {} THEN "clear" ELSE "present") /\ q.todo = Rest(w)
              /\ \/ r.at = "present" /\ colls[Size(w)] = None /\ UNCHANGED store
                 \/ r.at = "remove" /\ DeleteCollection(Size(w))
           \/ r.at = "clear" /\ q.at = "erase" /\ q.todo = r.todo /\ PurgeRegistry

(* A step of a create.                                                     *)
LEMMA CreateStepGoes ==
    ASSUME TypeInv, BootInv, NEW w \in Workers, Create(w)
    PROVE  \/ Breaks(w) \/ BootGoes(w) \/ CreateGoes(w) \/ DownGoes(w)
           \/ /\ reqs[w].call.op = "create" /\ reqs[w].at = "save"
              /\ WriteMeta(reqs[w].call.config) /\ Proceed(w, Returned(w))
<1>1. Bootstrap(w) \/ (w \in Busy /\ reqs[w].call.op = "create")
  BY DEF Create, At, ProbeDimension, CheckName, CollectionExists, MakeCollection,
         IndexCollection, SaveConfig
<1>2. CASE Bootstrap(w)
  BY <1>2, BootstrapGoes
<1>3. CASE w \in Busy /\ ProbeDimension(w)
  BY <1>3, GotoGoes, ArePlaces DEF ProbeDimension, At, CreateGoes, Steady, store
<1>4. CASE w \in Busy /\ CheckName(w)
  <2>1. reqs[w].call.config.sizes \in SUBSET (Sizes \cup DocFields)
    BY <1>4, BusyHas, CallHas, ServiceAssumption DEF CheckName, At, Requests
  <2> QED
    <3>1. PICK sizes \in SUBSET (Sizes \cup DocFields) : sizes = reqs[w].call.config.sizes
      BY <2>1
    <3>2. Loop(w, "exists", sizes)
      BY <1>4, <3>1 DEF CheckName
    <3>3. Steady(w) /\ reqs'[w].at = "exists" /\ reqs'[w].todo = sizes
      BY <1>4, <3>2, LoopGoes, ArePlaces
    <3> QED
      BY <1>4, <3>1, <3>3 DEF CheckName, At, CreateGoes, Steady, Free, store
<1>5. CASE w \in Busy /\ CollectionExists(w)
  <2>1. Goto(w, "make") => CreateGoes(w)
    BY <1>5, GotoGoes, ArePlaces DEF CollectionExists, At, CreateGoes, Steady
  <2>2. colls[Size(w)] # None /\ NextSize(w, "exists", "save") => CreateGoes(w)
    BY <1>5, NextSizeGoes, ArePlaces DEF CollectionExists, At, CreateGoes, Steady
  <2> QED
    BY <1>5, <2>1, <2>2 DEF CollectionExists
<1>6. CASE w \in Busy /\ MakeCollection(w)
  BY <1>6, GotoGoes, ArePlaces DEF MakeCollection, At, CreateGoes, Steady, Answered, Fault, Raise, Breaks
<1>7. CASE w \in Busy /\ IndexCollection(w)
  BY <1>7, NextSizeGoes, ArePlaces DEF IndexCollection, At, CreateGoes, Steady, Answered, Fault, Raise, Breaks
<1>8. CASE SaveConfig(w)
  BY <1>8 DEF SaveConfig, At, Answered, Fault, Raise, Breaks, Return, Returned
<1> QED
  BY <1>1, <1>2, <1>3, <1>4, <1>5, <1>6, <1>7, <1>8 DEF Create

(* A step of a drop.                                                       *)
LEMMA DropStepGoes ==
    ASSUME TypeInv, NEW w \in Workers, Drop(w)
    PROVE  \/ Breaks(w) \/ DropGoes(w)
           \/ /\ reqs[w].call.op = "drop" /\ reqs[w].at = "erase"
              /\ WriteMeta(None) /\ Proceed(w, Returned(w))
<1>1. w \in Busy /\ reqs[w].call.op = "drop"
  BY DEF Drop, At, DropConfig, DropCorpus, CollectionPresent, RemoveCollection,
         ClearRegistry, EraseConfig
<1>2. CASE DropConfig(w)
  BY <1>1, <1>2, GotoGoes, ArePlaces DEF DropConfig, At, DropGoes, Steady, store
<1>3. CASE DropCorpus(w)
  <2>1. meta.sizes \in SUBSET (Sizes \cup DocFields)
    BY <1>3, MetaHas DEF DropCorpus
  <2>2. /\ meta # None /\ reqs[w].at = "reread" /\ Loop(w, "present", meta.sizes)
        /\ UNCHANGED store
    BY <1>3 DEF DropCorpus, At, store
  <2>3. reqs'[w].at = "present" /\ reqs'[w].todo = meta.sizes /\ Steady(w)
    BY <1>1, <2>1, <2>2, LoopGoes, ArePlaces
  <2>4. DropGoes(w)
    BY <1>1, <2>2, <2>3 DEF DropGoes, Steady
  <2> QED
    BY <2>4
<1>4. CASE CollectionPresent(w)
  <2>1. Goto(w, "remove") => DropGoes(w)
    BY <1>1, <1>4, GotoGoes, ArePlaces DEF CollectionPresent, At, DropGoes, Steady, store
  <2>2. NextSize(w, "present", "clear") /\ colls[Size(w)] = None => DropGoes(w)
    BY <1>1, <1>4, NextSizeGoes, ArePlaces DEF CollectionPresent, At, DropGoes, Steady, store
  <2> QED
    BY <1>4, <2>1, <2>2 DEF CollectionPresent
<1>5. CASE RemoveCollection(w)
  BY <1>1, <1>5, NextSizeGoes, ArePlaces DEF RemoveCollection, At, DropGoes, Steady, Answered, Fault, Raise, Breaks
<1>6. CASE ClearRegistry(w)
  BY <1>1, <1>6, GotoGoes, ArePlaces DEF ClearRegistry, At, DropGoes, Steady, Answered, Fault, Raise, Breaks
<1>7. CASE EraseConfig(w)
  BY <1>7 DEF EraseConfig, At, Answered, Fault, Raise, Breaks, Return, Returned
<1> QED
  BY <1>2, <1>3, <1>4, <1>5, <1>6, <1>7 DEF Drop

PingGoes(w) ==
    /\ reqs[w].call.op = "health" /\ Steady(w)
    /\ reqs[w].at = "ping" /\ reqs'[w].at = "see meta"

(* A step of a health check.                                               *)
LEMMA HealthStepGoes ==
    ASSUME TypeInv, BootInv, NEW w \in Workers, Health(w)
    PROVE  \/ Breaks(w) \/ BootGoes(w) \/ DownGoes(w)
           \/ /\ reqs[w].call.op = "health" /\ reqs[w].at = "probe"
              /\ UNCHANGED store /\ Proceed(w, Returned(w))
           \/ PingGoes(w)
<1>1. CASE Bootstrap(w)
  BY <1>1, BootstrapGoes
<1>2. CASE Ping(w)
  BY <1>2, GotoGoes, ArePlaces DEF Ping, At, PingGoes
<1>3. CASE StoreFails(w)
  <2>1. w \in Busy /\ reqs[w].call.op = "health" /\ StoreIsDown(w) /\ faults' = faults + 1
    BY <1>3 DEF StoreFails
  <2>2. reqs'[w] = [reqs[w] EXCEPT !.at = "probe", !.ok = FALSE, !.todo = {}]
    BY <2>1, DownMoves
  <2>3. reqs'[w].at = "probe" /\ ~ reqs'[w].ok
    BY <2>1, <2>2, BusyHas DEF Requests
  <2> QED
    BY <2>1, <2>3, DownMoves DEF DownGoes, Moved
<1>4. CASE Report(w)
  BY <1>4 DEF Report, At, Return, Returned, store
<1> QED
  BY <1>1, <1>2, <1>3, <1>4 DEF Health

(* A put goes on, until it has written the registry.                       *)
PutGoes(w) ==
    LET r == reqs[w]
        q == reqs'[w]
    IN  /\ r.call.op = "put" /\ Onward(w) /\ (r.at # "config" => q.config = r.config)
        /\ r.at # "scroll" => q.old = r.old
        /\ \/ r.at = "config" /\ q.at = "list" /\ meta # None /\ q.config = meta /\ UNCHANGED store
           \/ r.at = "list" /\ q.at = "scroll" /\ meta # None /\ q.todo = meta.sizes /\ UNCHANGED store
           \/ /\ r.at = "scroll" /\ q.todo = Rest(w) /\ UNCHANGED store
              /\ colls[Size(w)] # None
              /\ q.old = r.old \cup IdsOf(Held(r.call.doc, Size(w)))
              /\ q.at = IF Rest(w) # {} THEN "scroll"
                        ELSE IF New(w) # {} THEN "embed" ELSE AfterWrites(w, q.old)
           \/ r.at = "embed" /\ q.at = "upsert" /\ q.todo = r.todo /\ UNCHANGED store
           \/ /\ r.at = "upsert" /\ q.at = "write" /\ q.todo = r.config.sizes
              /\ Matches(w) /\ UNCHANGED store
           \/ /\ r.at = "write" /\ q.todo = Rest(w) /\ colls[Size(w)] # None
              /\ q.at = IF Rest(w) # {} THEN "write" ELSE AfterWrites(w, r.old)
              /\ UpsertPoints(Size(w), OfSize(New(w), Size(w)))
           \/ /\ r.at = "tombstone" /\ q.at = "delete" /\ UNCHANGED store
              /\ q.todo = {i.size : i \in Orphans(w, r.old)}
           \/ /\ r.at = "delete" /\ q.todo = Rest(w) /\ colls[Size(w)] # None
              /\ q.at = IF Rest(w) # {} THEN "delete" ELSE "register"
              /\ DeleteIds(Size(w), OfSize(Orphans(w, r.old), Size(w)))
           \/ r.at = "register" /\ q.at = "record" /\ q.todo = r.todo /\ UNCHANGED store

(* A step of a put.                                                        *)
LEMMA PutStepGoes ==
    ASSUME TypeInv, NEW w \in Workers, Put(w)
    PROVE  \/ Breaks(w) \/ PutGoes(w)
           \/ /\ reqs[w].call.op = "put" /\ reqs[w].at = "record"
              /\ WriteRecord(reqs[w].call.doc, reqs[w].call.text) /\ Proceed(w, Returned(w))
<1>1. w \in Busy /\ reqs[w].call.op = "put" /\ reqs[w] \in Requests
  BY BusyHas DEF Put, At, PutConfig, ListIds, Scroll, Embed, UpsertSlices, WriteSize, Tombstone,
                 DeleteSize, Register, Record
<1>2. CASE PutConfig(w)
  <2>1. reqs'[w] = [reqs[w] EXCEPT !.at = "list", !.config = meta]
    BY <1>2, PutReads
  <2>2. reqs'[w].at = "list" /\ reqs'[w].config = meta /\ reqs'[w].old = reqs[w].old
    BY <1>1, <2>1 DEF Requests
  <2> QED
    BY <1>1, <1>2, <2>2, PutReads DEF PutConfig, At, PutGoes, Moved, store
<1>3. CASE ListIds(w)
  <2>1. meta.sizes \in SUBSET (Sizes \cup DocFields)
    BY <1>3, MetaHas DEF ListIds
  <2>2. /\ meta # None /\ reqs[w].at = "list" /\ Loop(w, "scroll", meta.sizes)
        /\ UNCHANGED store
    BY <1>3 DEF ListIds, At, store
  <2>3. reqs'[w].at = "scroll" /\ reqs'[w].todo = meta.sizes /\ Steady(w)
    BY <1>1, <2>1, <2>2, LoopGoes, ArePlaces
  <2>4. PutGoes(w)
    BY <1>1, <2>2, <2>3 DEF PutGoes, Steady
  <2> QED
    BY <2>4
<1>4. CASE Scroll(w)
  <2> DEFINE old == reqs[w].old \cup IdsOf(Held(reqs[w].call.doc, Size(w)))
             after == IF New(w) # {} THEN "embed" ELSE AfterWrites(w, old)
             at == IF Rest(w) = {} THEN after ELSE "scroll"
  <2>1. reqs'[w] = [reqs[w] EXCEPT !.at = at, !.todo = Rest(w), !.old = old]
    BY <1>4, PutReads
  <2>2. /\ reqs'[w].at = at /\ reqs'[w].todo = Rest(w) /\ reqs'[w].old = old
        /\ reqs'[w].config = reqs[w].config
    <3> HIDE DEF at, old
    <3> QED
      BY <1>1, <2>1 DEF Requests
  <2>3. at = IF Rest(w) # {} THEN "scroll" ELSE IF New(w) # {} THEN "embed" ELSE AfterWrites(w, old)
    OBVIOUS
  <2> HIDE DEF at
  <2> QED
    BY <1>1, <1>4, <2>2, <2>3, PutReads DEF Scroll, At, PutGoes, Moved, store
<1>5. CASE Embed(w)
  BY <1>1, <1>5, GotoGoes, ArePlaces DEF Embed, At, PutGoes, Steady, store
<1>6. CASE UpsertSlices(w)
  <2>1. reqs[w].config.sizes \in SUBSET (Sizes \cup DocFields)
    BY <1>1, <1>6, PutHas DEF UpsertSlices, At
  <2> QED
    <3>1. PICK sizes \in SUBSET (Sizes \cup DocFields) : sizes = reqs[w].config.sizes
      BY <2>1
    <3>2. Loop(w, "write", sizes)
      BY <1>6, <3>1 DEF UpsertSlices
    <3>3. Steady(w) /\ reqs'[w].at = "write" /\ reqs'[w].todo = sizes
      BY <1>1, <3>2, LoopGoes, ArePlaces
    <3> QED
      BY <1>1, <1>6, <3>1, <3>3 DEF UpsertSlices, At, PutGoes, Steady, store
<1>7. CASE WriteSize(w)
  <2>1. NextSize(w, "write", AfterWrites(w, reqs[w].old)) => PutGoes(w)
    BY <1>1, <1>7, NextSizeGoes, ArePlaces DEF WriteSize, At, Accepts, PutGoes, Steady, AfterWrites
  <2> QED
    BY <1>7, <2>1 DEF WriteSize, Answered, Fault, Raise, Breaks
<1>8. CASE Tombstone(w)
  <2>1. reqs[w].config.sizes \subseteq Sizes
    BY <1>1, <1>8, PutHas DEF Tombstone, At
  <2>2. {i.size : i \in Orphans(w, reqs[w].old)} \in SUBSET (Sizes \cup DocFields)
    BY <2>1 DEF Orphans
  <2> QED
    <3>1. /\ Steady(w) /\ reqs'[w].at = "delete"
          /\ reqs'[w].todo = {i.size : i \in Orphans(w, reqs[w].old)}
      BY <1>1, <1>8, <2>2, LoopGoes, ArePlaces DEF Tombstone
    <3> QED
      BY <1>1, <1>8, <3>1 DEF Tombstone, At, PutGoes, Steady, store
<1>9. CASE DeleteSize(w)
  <2>1. NextSize(w, "delete", "register") => PutGoes(w)
    BY <1>1, <1>9, NextSizeGoes, ArePlaces DEF DeleteSize, At, PutGoes, Steady
  <2> QED
    BY <1>9, <2>1 DEF DeleteSize, Answered, Fault, Raise, Breaks
<1>10. CASE Register(w)
  BY <1>1, <1>10, GotoGoes, ArePlaces DEF Register, At, PutGoes, Steady, store
<1>11. CASE Record(w)
  BY <1>11 DEF Record, At, Answered, Fault, Raise, Breaks, Return, Returned
<1> QED
  BY <1>2, <1>3, <1>4, <1>5, <1>6, <1>7, <1>8, <1>9, <1>10, <1>11 DEF Put

(* A delete goes on, until it has cleared the registry entry.              *)
DeleteGoes(w) ==
    LET r == reqs[w]
        q == reqs'[w]
    IN  /\ r.call.op = "delete" /\ Onward(w)
        /\ \/ r.at = "config" /\ q.at = "find" /\ UNCHANGED store
           \/ /\ r.at = "find" /\ q.at = "lookup" /\ meta # None /\ q.todo = meta.sizes
              /\ UNCHANGED store
           \/ r.at = "lookup" /\ q.at = "read" /\ q.todo = r.todo /\ UNCHANGED store
           \/ /\ r.at = "read" /\ q.at = "purge" /\ q.todo = r.todo
              /\ docs[r.call.doc] # None /\ UNCHANGED store
           \/ /\ r.at = "purge" /\ q.todo = Rest(w) /\ colls[Size(w)] # None
              /\ q.at = IF Rest(w) # {} THEN "purge" ELSE "forget"
              /\ DeleteByDocument(Size(w), r.call.doc)

(* A step of a delete.                                                     *)
LEMMA DeleteStepGoes ==
    ASSUME TypeInv, NEW w \in Workers, Delete(w)
    PROVE  \/ Breaks(w) \/ DeleteGoes(w)
           \/ /\ reqs[w].call.op = "delete" /\ reqs[w].at = "forget"
              /\ WriteRecord(reqs[w].call.doc, None) /\ Proceed(w, Returned(w))
<1>1. w \in Busy /\ reqs[w].call.op = "delete"
  BY DEF Delete, At, DeleteConfig, FindDocument, Lookup, ReadRecord, PurgeSize, Forget
<1>2. CASE DeleteConfig(w)
  BY <1>1, <1>2, GotoGoes, ArePlaces DEF DeleteConfig, At, DeleteGoes, Steady, store
<1>3. CASE FindDocument(w)
  <2>1. meta.sizes \in SUBSET (Sizes \cup DocFields)
    BY <1>3, MetaHas DEF FindDocument
  <2>2. /\ meta # None /\ reqs[w].at = "find" /\ Loop(w, "lookup", meta.sizes)
        /\ UNCHANGED store
    BY <1>3 DEF FindDocument, At, store
  <2>3. reqs'[w].at = "lookup" /\ reqs'[w].todo = meta.sizes /\ Steady(w)
    BY <1>1, <2>1, <2>2, LoopGoes, ArePlaces
  <2>4. DeleteGoes(w)
    BY <1>1, <2>2, <2>3 DEF DeleteGoes, Steady
  <2> QED
    BY <2>4
<1>4. CASE Lookup(w)
  BY <1>1, <1>4, GotoGoes, ArePlaces DEF Lookup, At, DeleteGoes, Steady, store
<1>5. CASE ReadRecord(w)
  BY <1>1, <1>5, GotoGoes, ArePlaces DEF ReadRecord, At, DeleteGoes, Steady, store
<1>6. CASE PurgeSize(w)
  <2>1. NextSize(w, "purge", "forget") => DeleteGoes(w)
    BY <1>1, <1>6, NextSizeGoes, ArePlaces DEF PurgeSize, At, DeleteGoes, Steady
  <2> QED
    BY <1>6, <2>1 DEF PurgeSize, Answered, Fault, Raise, Breaks
<1>7. CASE Forget(w)
  BY <1>7 DEF Forget, At, Answered, Fault, Raise, Breaks, Return, Returned
<1> QED
  BY <1>2, <1>3, <1>4, <1>5, <1>6, <1>7 DEF Delete

(* Its last step: the call is done, and its answer arrives.                *)
Finishes(w) ==
    \/ /\ reqs[w].call.op = "put" /\ reqs[w].at = "record"
       /\ WriteRecord(reqs[w].call.doc, reqs[w].call.text)
    \/ /\ reqs[w].call.op = "delete" /\ reqs[w].at = "forget"
       /\ WriteRecord(reqs[w].call.doc, None)
    \/ /\ reqs[w].call.op = "create" /\ reqs[w].at = "save"
       /\ WriteMeta(reqs[w].call.config)
    \/ reqs[w].call.op = "drop" /\ reqs[w].at = "erase" /\ WriteMeta(None)
    \/ reqs[w].call.op = "health" /\ reqs[w].at = "probe" /\ UNCHANGED store

(* What a step of a request, or what befalls it, is.                       *)
LEMMA ActsGo ==
    ASSUME TypeInv, BootInv, NEW w \in Workers, Acts(w)
    PROVE  /\ w \in Busy
           /\ \/ BootGoes(w) \/ DownGoes(w) \/ PingGoes(w) \/ CreateGoes(w) \/ DropGoes(w)
              \/ PutGoes(w) \/ DeleteGoes(w)
              \/ Answers(w, promised)
              \/ Finishes(w) /\ Answers(w, Returned(w))
              \/ Opens(w) /\ UNCHANGED store
<1>0. w \in Busy
  BY ActsHappen
<1>1. Proceed(w, promised) => Answers(w, promised)
  BY <1>0, ProceedAnswers
<1>2. Proceed(w, Returned(w)) => Answers(w, Returned(w))
  BY <1>0, ProceedAnswers
<1>3. CASE Put(w)
  BY <1>0, <1>1, <1>2, <1>3, PutStepGoes DEF Finishes, Breaks
<1>4. CASE Delete(w)
  BY <1>0, <1>1, <1>2, <1>4, DeleteStepGoes DEF Finishes, Breaks
<1>5. CASE Create(w)
  BY <1>0, <1>1, <1>2, <1>5, CreateStepGoes DEF Finishes, Breaks
<1>6. CASE Drop(w)
  BY <1>0, <1>1, <1>2, <1>6, DropStepGoes DEF Finishes, Breaks
<1>7. CASE Health(w)
  BY <1>0, <1>1, <1>2, <1>7, HealthStepGoes DEF Finishes, Breaks
<1>8. CASE OpenBatch(w)
  BY <1>0, <1>8, BatchSteps DEF OpenBatch, store
<1>9. CASE RefusedDocument(w) \/ RefusedCorpus(w) \/ Broken(w)
  BY <1>0, <1>1, <1>9 DEF RefusedDocument, RefusedCorpus, Broken, Fault, Raise
<1>10. CASE StrayError(w)
  <2>1. Ends(w, promised)
    BY <1>10 DEF StrayError, Abort, Ends
  <2> QED
    BY <1>0, <1>10, <2>1 DEF Answers
<1> QED
  BY <1>3, <1>4, <1>5, <1>6, <1>7, <1>8, <1>9, <1>10 DEF Acts, Step

(* The record of a call that begins.                                       *)
LEMMA EntersHas ==
    ASSUME TypeInv, NEW w \in Workers, NEW c, NEW rest, NEW kept, Enters(w, c, rest, kept)
    PROVE  /\ w \in Busy' /\ reqs'[w].call = c /\ reqs'[w].at = Entry(c.op)
           /\ reqs'[w].rest = rest /\ reqs'[w].ok
           /\ c.op = "health" => reqs'[w].since = faults
           /\ c.op = "put" => reqs'[w].was = kept[c.doc]
           /\ reqs'[w].alone => \A v \in Busy \ {w} : ~ Clash(reqs[v].call, c)
           /\ \A d \in Docs : promised'[d] = IF Writes(c, d) THEN {} ELSE kept[d]
<1>1. reqs'[w] \in Requests
  BY EnterMakes DEF Enters
<1>2. reqs'[w] # None
  BY <1>1, NoneAssumption
<1> QED
  BY <1>2, EnterMakes DEF Enters, Busy

(* What becomes of the request that acts: it ends, a put of its batch      *)
(* begins, or it goes on.                                                  *)
LEMMA AnswersHas ==
    ASSUME TypeInv, NEW w \in Busy, NEW kept, Answers(w, kept), w \in Busy'
    PROVE  \E c \in ClientCalls, rest \in Seq(PutCalls) : c.op = "put" /\ Enters(w, c, rest, kept)
<1>1. w \in Workers /\ DOMAIN reqs = Workers
  BY BusyHas
<1>2. Ends(w, kept) => w \notin Busy'
  BY <1>1 DEF Ends, Busy
<1> QED
  BY <1>2 DEF Answers, Enters

(* What a batch opens is a put.                                            *)
LEMMA OpensHas ==
    ASSUME TypeInv, NEW w \in Busy, Opens(w)
    PROVE  \E c \in ClientCalls, rest \in Seq(PutCalls) : c.op = "put" /\ Enters(w, c, rest, promised)
<1>1. promised \in PromiseType
  BY ReturnedType
<1> QED
  BY <1>1 DEF Opens, Enters

-----------------------------------------------------------------------------
(* Whoever is alone has no rival.                                          *)

(* Rivals are each other's rivals.                                         *)
LEMMA ClashBothWays ==
    ASSUME NEW c, NEW d
    PROVE  Clash(c, d) <=> Clash(d, c)
BY DEF Clash

(* A call that is entered is alone only without rivals, and its rivals no  *)
(* longer are.                                                             *)
LEMMA AloneUnderEnter ==
    ASSUME TypeInv, AloneInv, NEW w \in Workers, NEW c, NEW rest, NEW kept, Enters(w, c, rest, kept)
    PROVE  AloneInv'
<1> SUFFICES ASSUME NEW v \in Busy', reqs'[v].alone, NEW u \in Busy', u # v
             PROVE  ~ Clash(reqs'[u].call, reqs'[v].call)
  BY DEF AloneInv
<1>0. v \in Workers /\ u \in Workers
  BY DEF Busy
<1>1. reqs'[w].call = c /\ (reqs'[w].alone => \A x \in Busy \ {w} : ~ Clash(reqs[x].call, c))
  BY EntersHas
<1>2. \A x \in Workers \ {w} :
         /\ x \in Busy' <=> x \in Busy
         /\ x \in Busy => Same(x) /\ (reqs'[x].alone => ~ Clash(reqs[x].call, c))
  BY OthersUnderEnter
<1>3. CASE v = w
  BY <1>0, <1>1, <1>2, <1>3 DEF Same
<1>4. CASE v # w /\ u = w
  BY <1>0, <1>1, <1>2, <1>4, ClashBothWays DEF Same
<1>5. CASE v # w /\ u # w
  BY <1>0, <1>2, <1>5 DEF Same, AloneInv
<1> QED
  BY <1>3, <1>4, <1>5

(* No step makes a rival of a request that is alone.                       *)
LEMMA AloneKept ==
    ASSUME TypeInv, BootInv, AloneInv, [Next]_vars
    PROVE  AloneInv'
<1>1. CASE UNCHANGED vars
  BY <1>1 DEF vars, AloneInv, Busy
<1>2. CASE Crash
  BY <1>2 DEF Crash, AloneInv, Busy
<1>3. ASSUME NEW w \in Workers, Begin(w) PROVE AloneInv'
  BY <1>3, BeginEnters, AloneUnderEnter
<1>4. ASSUME NEW w \in Workers, Acts(w) PROVE AloneInv'
  <2>1. w \in Busy /\ Happens(w)
    BY <1>4, ActsHappen
  <2>2. \A x \in Workers \ {w} : (x \in Busy' <=> x \in Busy) /\ (x \in Busy => Same(x))
    BY <1>4, OthersStay
  <2>3. CASE w \notin Busy' \/ (reqs'[w].call = reqs[w].call /\ reqs'[w].alone = reqs[w].alone)
    <3>1. \A x \in Busy' : x \in Busy /\ reqs'[x].call = reqs[x].call /\ (reqs'[x].alone => reqs[x].alone)
      BY <2>1, <2>2, <2>3 DEF Busy, Same
    <3> QED
      BY <3>1 DEF AloneInv
  <2>4. CASE Moved(w)
    BY <2>3, <2>4 DEF Moved, Onward
  <2>5. CASE \E c, rest, kept : Enters(w, c, rest, kept)
    BY <2>5, <1>4, AloneUnderEnter
  <2> QED
    BY <2>1, <2>3, <2>4, <2>5, AnswersHas, OpensHas DEF Happens
<1> QED
  BY <1>1, <1>2, <1>3, <1>4 DEF Next, Acts

-----------------------------------------------------------------------------
(* The registry stands.                                                    *)

(* The places past the first look, and those past the second.              *)
SeenMeta == Creating \cup {"see docs", "make docs", "index docs", "check"}

SeenDocs == Creating \cup {"index docs", "check"}

(* A request past a registry collection has seen it.                       *)
LEMMA PlaceSeen ==
    ASSUME TypeInv, BootInv, NEW w \in Workers, Acts(w), w \in Busy'
    PROVE  /\ reqs'[w].at \in SeenMeta => shared'["meta"] # None
           /\ reqs'[w].at \in SeenDocs => shared'["docs"] # None
<1>0. w \in Busy
  BY ActsGo
<1>1. /\ reqs[w].at \in SeenMeta => shared["meta"] # None
      /\ reqs[w].at \in SeenDocs => shared["docs"] # None
  BY <1>0 DEF BootInv, SeenMeta, SeenDocs
<1>2. \A n \in {"meta", "docs"} : shared[n] # None => shared'[n] # None
  BY <1>0, ActsLeave
<1>3. DOMAIN shared = {"meta", "docs"} /\ {} # None
  BY NoneAssumption DEF TypeInv, TypeOK, StoreTypeOK
<1>4. CASE \E c \in ClientCalls : \E rest, kept : Enters(w, c, rest, kept)
  <2>1. PICK c \in ClientCalls : reqs'[w].at = Entry(c.op)
    BY <1>4, EntersHas
  <2>2. reqs'[w].at \in {"probe", "ping", "config"}
    BY <2>1 DEF Entry
  <2> QED
    BY <2>2 DEF SeenMeta, SeenDocs, Creating
<1>5. CASE Answers(w, promised) \/ Answers(w, Returned(w)) \/ Opens(w)
  BY <1>0, <1>4, <1>5, AnswersHas, OpensHas
<1>6. CASE BootGoes(w)
  <2>1. CASE \/ reqs[w].at = "make meta" /\ reqs'[w].at = "see docs" /\ CreateRegistry("meta")
             \/ reqs[w].at = "make docs" /\ reqs'[w].at = "index docs" /\ CreateRegistry("docs")
    BY <1>1, <1>2, <1>3, <2>1 DEF CreateRegistry, SeenMeta, SeenDocs, Creating
  <2>2. CASE reqs'[w].at = "make meta"
    BY <2>2 DEF SeenMeta, SeenDocs, Creating
  <2>3. CASE reqs[w].at = "index docs" /\ reqs'[w].at \in {"index docs", Booted(w)}
    BY <1>1, <1>2, <2>3 DEF SeenMeta, SeenDocs, Creating
  <2> QED
    BY <1>1, <1>2, <1>6, <2>1, <2>2, <2>3 DEF BootGoes, SeenMeta, SeenDocs, Creating, Booted
<1>7. CASE DownGoes(w) \/ PingGoes(w) \/ DropGoes(w) \/ PutGoes(w) \/ DeleteGoes(w)
  <2>1. reqs'[w].at \in Places \ SeenMeta
    BY <1>7 DEF DownGoes, PingGoes, DropGoes, PutGoes, DeleteGoes, AfterWrites, Places, SeenMeta, Creating
  <2> QED
    BY <2>1 DEF SeenMeta, SeenDocs
<1>8. CASE CreateGoes(w)
  BY <1>1, <1>2, <1>8 DEF CreateGoes, SeenMeta, SeenDocs, Creating
<1> QED
  BY <1>5, <1>6, <1>7, <1>8, ActsGo

(* Every step keeps what the bootstrap has seen in place.                  *)
LEMMA BootKept ==
    ASSUME TypeInv, BootInv, [Next]_vars
    PROVE  BootInv'
<1>1. CASE UNCHANGED vars
  BY <1>1 DEF vars, store, BootInv, RegistryStands, Busy
<1>2. CASE Crash
  BY <1>2 DEF Crash, store, BootInv, RegistryStands, Busy
<1>3. ASSUME NEW w \in Workers, Begin(w) PROVE BootInv'
  <2>1. UNCHANGED store /\ \E c \in Menu[w] : Enters(w, c, << >>, promised)
    BY <1>3, BeginEnters
  <2>2. PICK c \in Menu[w] : Enters(w, c, << >>, promised)
    BY <2>1
  <2>3. reqs'[w].at \in {"probe", "ping", "config"}
    BY <2>2, EntersHas DEF Entry
  <2>4. \A x \in Workers \ {w} : (x \in Busy' <=> x \in Busy) /\ (x \in Busy => reqs'[x].at = reqs[x].at)
    BY <2>2, OthersUnderEnter DEF Same
  <2>5. meta' = meta /\ shared' = shared
    BY <2>1 DEF store
  <2>6. RegistryStands'
    BY <2>5 DEF BootInv, RegistryStands
  <2> QED
    BY <2>3, <2>4, <2>5, <2>6 DEF BootInv, Busy, Creating
<1>4. ASSUME NEW w \in Workers, Acts(w) PROVE BootInv'
  <2>1. w \in Busy
    BY <1>4, ActsGo
  <2>2. \A x \in Workers \ {w} : (x \in Busy' <=> x \in Busy) /\ (x \in Busy => reqs'[x].at = reqs[x].at)
    BY <1>4, OthersStay DEF Same
  <2>3. /\ \A n \in {"meta", "docs"} : shared[n] # None => shared'[n] # None
        /\ meta' # meta => meta' = None \/ reqs[w].at = "save"
    BY <1>4, <2>1, ActsLeave
  <2>4. RegistryStands'
    BY <2>1, <2>3 DEF BootInv, RegistryStands, Creating
  <2>5. \A x \in Busy' \ {w} :
           /\ reqs'[x].at \in SeenMeta => shared'["meta"] # None
           /\ reqs'[x].at \in SeenDocs => shared'["docs"] # None
    BY <2>2, <2>3 DEF BootInv, Busy, SeenMeta, SeenDocs
  <2>6. w \in Busy' => /\ reqs'[w].at \in SeenMeta => shared'["meta"] # None
                       /\ reqs'[w].at \in SeenDocs => shared'["docs"] # None
    BY <1>4, PlaceSeen
  <2> QED
    BY <2>4, <2>5, <2>6 DEF BootInv, Busy, SeenMeta, SeenDocs
<1> QED
  BY <1>1, <1>2, <1>3, <1>4 DEF Next, Acts

-----------------------------------------------------------------------------
(* Failures are counted, and never forgotten.                              *)
LEMMA FaultsGrow ==
    ASSUME NEW w \in Workers, Acts(w)
    PROVE  faults' \in {faults, faults + 1}
<1>1. Put(w) => faults' \in {faults, faults + 1}
  BY DEF Put, PutConfig, ListIds, Scroll, Embed, UpsertSlices, WriteSize, Tombstone, DeleteSize,
         Register, Record, Answered, Fault
<1>2. Delete(w) => faults' \in {faults, faults + 1}
  BY DEF Delete, DeleteConfig, FindDocument, Lookup, ReadRecord, PurgeSize, Forget, Answered, Fault
<1>3. Bootstrap(w) => faults' \in {faults, faults + 1}
  BY DEF Bootstrap, SeeMeta, MakeMeta, SeeDocs, MakeDocs, IndexDocs, BootRefused, Confirmed
<1>4. Create(w) => faults' \in {faults, faults + 1}
  BY <1>3 DEF Create, ProbeDimension, CheckName, CollectionExists, MakeCollection, IndexCollection,
         SaveConfig, Answered, Fault
<1>5. Drop(w) => faults' \in {faults, faults + 1}
  BY DEF Drop, DropConfig, DropCorpus, CollectionPresent, RemoveCollection, ClearRegistry,
         EraseConfig, Answered, Fault
<1>6. Health(w) => faults' \in {faults, faults + 1}
  BY <1>3 DEF Health, Ping, StoreFails, Report
<1>7. OpenBatch(w) \/ RefusedDocument(w) \/ RefusedCorpus(w) \/ Broken(w) \/ StrayError(w)
      => faults' \in {faults, faults + 1}
  BY DEF OpenBatch, RefusedDocument, RefusedCorpus, Broken, StrayError, Fault
<1> QED
  BY <1>1, <1>2, <1>4, <1>5, <1>6, <1>7 DEF Acts, Step

(* What a health check that is alone has seen is so, and it gives the      *)
(* store up only for a failure.                                            *)
Healthily(w) == reqs[w].call.op = "health" =>
    /\ reqs[w].since <= faults
    /\ reqs[w].alone =>
          /\ reqs[w].at = "make meta" => shared["meta"] = None
          /\ reqs[w].at = "make docs" => shared["docs"] = None
          /\ reqs[w].since = faults => reqs[w].ok

(* A health check starts with nothing reported.                            *)
LEMMA HealthEntered ==
    ASSUME TypeInv, NEW w \in Workers, NEW c, NEW rest, NEW kept, Enters(w, c, rest, kept),
           faults' \in {faults, faults + 1},
           c.op = "health" => faults' = faults
    PROVE  Healthily(w)'
<1>1. /\ reqs'[w].call = c /\ reqs'[w].at = Entry(c.op) /\ reqs'[w].ok
      /\ c.op = "health" => reqs'[w].since = faults
  BY EntersHas
<1>2. faults \in Nat
  BY ServiceAssumption DEF TypeInv, TypeOK
<1> QED
  BY <1>1, <1>2 DEF Healthily, Entry

(* The steps of the other requests report nothing to a health check, and   *)
(* undo nothing of it.                                                     *)
LEMMA HealthElsewhere ==
    ASSUME TypeInv, BootInv, AloneInv, HealthInv, NEW w \in Workers, Acts(w),
           NEW v \in Busy \ {w}
    PROVE  Healthily(v)'
<1> SUFFICES ASSUME reqs'[v].call.op = "health" PROVE Healthily(v)'
  BY DEF Healthily
<1>1. v \in Workers /\ w \in Busy /\ Same(v)
  BY ActsGo, OthersStay DEF Busy
<1>2. reqs[v].call.op = "health" /\ Healthily(v)
  BY <1>1 DEF Same, HealthInv, Healthily
<1>3. faults \in Nat /\ faults' \in {faults, faults + 1} /\ reqs[v].since \in Nat
  BY <1>1, FaultsGrow, BusyHas, ServiceAssumption DEF TypeInv, TypeOK, Requests
<1>4. reqs[v].since <= faults
  BY <1>2 DEF Healthily
<1>5. reqs[v].alone => shared' = shared
  <2>1. reqs[w].call.op \in {"create", "health"} => Clash(reqs[w].call, reqs[v].call)
    BY <1>2 DEF Clash
  <2>2. reqs[v].alone => ~ Clash(reqs[w].call, reqs[v].call)
    BY <1>1 DEF AloneInv
  <2> QED
    BY <1>1, <2>1, <2>2, ActsLeave
<1>6. reqs'[v].since = reqs[v].since /\ reqs'[v].at = reqs[v].at /\ reqs'[v].ok = reqs[v].ok /\ (reqs'[v].alone => reqs[v].alone)
  BY <1>1 DEF Same
<1>7. reqs'[v].since <= faults' /\ (reqs'[v].since = faults' => faults' = faults)
  BY <1>3, <1>4, <1>6
<1> QED
  BY <1>2, <1>5, <1>6, <1>7 DEF Healthily

(* The steps of a health check itself.                                     *)
LEMMA HealthGoesOn ==
    ASSUME TypeInv, BootInv, HealthInv, NEW w \in Workers, Acts(w), w \in Busy'
    PROVE  Healthily(w)'
<1>0. w \in Busy /\ faults' \in {faults, faults + 1}
  BY ActsGo, FaultsGrow
<1>1. Healthily(w)
  BY <1>0 DEF HealthInv, Healthily
<1>2. CASE \E c \in ClientCalls : \E rest, kept : c.op = "put" /\ Enters(w, c, rest, kept)
  BY <1>0, <1>2, HealthEntered
<1>3. CASE Answers(w, promised) \/ Answers(w, Returned(w)) \/ Opens(w)
  BY <1>0, <1>2, <1>3, AnswersHas, OpensHas
<1>4. faults \in Nat /\ reqs[w].since \in Nat
  BY <1>0, BusyHas, ServiceAssumption DEF TypeInv, TypeOK, Requests
<1>5. CASE BootGoes(w) \/ PingGoes(w)
  <2>1. /\ reqs'[w].call = reqs[w].call /\ reqs'[w].since = reqs[w].since
        /\ reqs'[w].alone = reqs[w].alone /\ reqs'[w].ok = reqs[w].ok
    BY <1>5 DEF BootGoes, PingGoes, Steady, Onward
  <2>2. /\ reqs'[w].at = "make meta" => shared'["meta"] = None
        /\ reqs'[w].at = "make docs" => shared'["docs"] = None
    BY <1>5 DEF BootGoes, PingGoes, Booted
  <2>3. reqs[w].call.op = "health" =>
          reqs[w].since <= faults' /\ (reqs[w].since = faults' => faults' = faults)
    <3>1. reqs[w].call.op = "health" => reqs[w].since <= faults
      BY <1>1 DEF Healthily
    <3> QED
      BY <1>0, <1>4, <3>1
  <2> QED
    BY <1>1, <2>1, <2>2, <2>3 DEF Healthily
<1>6. CASE DownGoes(w)
  <2>1. /\ reqs'[w].call = reqs[w].call /\ reqs'[w].since = reqs[w].since
        /\ reqs'[w].alone = reqs[w].alone /\ reqs'[w].at = "probe" /\ reqs[w].call.op = "health"
    BY <1>6 DEF DownGoes, Onward
  <2>2. reqs[w].since <= faults' /\ (reqs[w].since = faults' => faults' = faults)
    <3>1. reqs[w].since <= faults
      BY <1>1, <2>1 DEF Healthily
    <3> QED
      BY <1>0, <1>4, <3>1
  <2>3. reqs[w].alone => reqs[w].since # faults'
    <3>1. faults' = faults + 1 => reqs[w].since # faults'
      BY <1>4, <2>2
    <3>2. reqs[w].alone =>
             /\ reqs[w].at = "make meta" => shared["meta"] = None
             /\ reqs[w].at = "make docs" => shared["docs"] = None
      BY <1>1, <2>1 DEF Healthily
    <3> QED
      BY <1>6, <3>1, <3>2 DEF DownGoes
  <2> QED
    BY <2>1, <2>2, <2>3 DEF Healthily
<1>7. CASE CreateGoes(w) \/ DropGoes(w) \/ PutGoes(w) \/ DeleteGoes(w)
  <2>1. reqs'[w].call.op # "health"
    BY <1>7 DEF CreateGoes, DropGoes, PutGoes, DeleteGoes, Onward
  <2> QED
    BY <2>1 DEF Healthily
<1> QED
  BY <1>3, <1>5, <1>6, <1>7, ActsGo

(* Every step keeps what the health checks have seen.                      *)
LEMMA HealthKept ==
    ASSUME TypeInv, BootInv, AloneInv, HealthInv, [Next]_vars
    PROVE  HealthInv'
<1> SUFFICES \A v \in Busy' : Healthily(v)'
  BY DEF HealthInv, Healthily
<1>0. \A v \in Busy : Healthily(v)
  BY DEF HealthInv, Healthily
<1>1. CASE UNCHANGED vars
  BY <1>0, <1>1 DEF vars, store, Healthily, Busy
<1>2. CASE Crash
  BY <1>2 DEF Crash, Busy
<1>3. ASSUME NEW w \in Workers, Begin(w), NEW v \in Busy' PROVE Healthily(v)'
  <2>1. UNCHANGED store /\ faults' = faults /\ \E c \in Menu[w] : Enters(w, c, << >>, promised)
    BY <1>3, BeginEnters
  <2>2. PICK c \in Menu[w] : Enters(w, c, << >>, promised)
    BY <2>1
  <2>3. CASE v = w
    BY <2>1, <2>2, <2>3, HealthEntered
  <2>4. CASE v # w
    <3>1. v \in Busy /\ Same(v)
      BY <1>3, <2>2, <2>4, OthersUnderEnter DEF Busy
    <3>2. shared' = shared
      BY <2>1 DEF store
    <3> QED
      BY <1>0, <2>1, <3>1, <3>2 DEF Healthily, Same
  <2> QED
    BY <2>3, <2>4
<1>4. ASSUME NEW w \in Workers, Acts(w), NEW v \in Busy' PROVE Healthily(v)'
  <2>1. v # w => v \in Busy
    BY <1>4, OthersStay DEF Busy
  <2> QED
    BY <1>4, <2>1, HealthElsewhere, HealthGoesOn
<1> QED
  BY <1>1, <1>2, <1>3, <1>4 DEF Next, Acts

-----------------------------------------------------------------------------
(* A batch goes on.                                                        *)
LEMMA BatchStep ==
    ASSUME TypeInv, BootInv, Next, NEW v \in Busy, reqs[v].rest # << >>, reqs'[v] = None
    PROVE  Crash \/ StrayError(v)
<1> SUFFICES ASSUME ~ Crash PROVE StrayError(v)
  OBVIOUS
<1>0. v \in Workers /\ v \notin Busy'
  BY DEF Busy
<1>1. ASSUME NEW w \in Workers, Begin(w) PROVE FALSE
  <2>1. w \notin Busy /\ \E c : Enters(w, c, << >>, promised)
    BY <1>1, BeginEnters
  <2> QED
    BY <1>0, <2>1, OthersUnderEnter
<1>2. ASSUME NEW w \in Workers, Acts(w), w # v PROVE FALSE
  BY <1>0, <1>2, OthersStay
<1>3. CASE Acts(v)
  <2>1. Happens(v)
    BY <1>0, <1>3, ActsHappen
  <2>2. ~ Moved(v)
    BY NoneAssumption DEF Moved, Onward
  <2>3. \A c, rest, kept : ~ Enters(v, c, rest, kept)
    BY <1>0, EntersHas
  <2>4. ~ Opens(v)
    BY <2>3, OpensHas
  <2> QED
    BY <2>1, <2>2, <2>3, <2>4 DEF Happens, Answers
<1> QED
  BY <1>1, <1>2, <1>3 DEF Next, Acts

-----------------------------------------------------------------------------
(* At the start.                                                           *)
LEMMA InitStore ==
    ASSUME InitService
    PROVE  StoreOK
<1>1. meta \in Configs \cup {None}
  BY ServiceAssumption DEF InitService
<1>2. docs \in [Docs -> Texts \cup {None}]
  BY ServiceAssumption DEF InitService
<1>3. ASSUME NEW s \in Sizes
      PROVE  /\ colls[s] \in Collections(Texts, Configs) \cup {None}
             /\ colls[s] # None => \A p \in colls[s].points : p \in Cut(p.doc, p.of, s)
  <2> DEFINE stocked == {e \in Docs : docs[e] # None}
             P == UNION {Points(d, docs[d], {s}) : d \in stocked}
             k == [dim |-> meta.dim, indexed |-> TRUE, points |-> P]
  <2>1. colls[s] = IF meta # None /\ s \in meta.sizes THEN k ELSE None
    BY <1>3 DEF InitService
  <2>2. ASSUME NEW p \in P PROVE p \in SlicePoints(Texts) /\ p \in Cut(p.doc, p.of, s)
    <3>1. PICK d \in stocked : p \in Points(d, docs[d], {s})
      BY <2>2
    <3>2. d \in Docs /\ docs[d] \in Texts /\ {s} \in SUBSET Sizes
      BY <1>2, <1>3, <3>1
    <3>3. p \in SlicePoints(Texts)
      BY <3>1, <3>2, PointsTyped
    <3>4. p \in Cut(d, docs[d], s)
      BY <3>1 DEF Cut
    <3>5. p.doc = d /\ p.of = docs[d]
      BY <3>4, CutIs
    <3> QED
      BY <3>3, <3>4, <3>5
  <2>3. k.points = P
    OBVIOUS
  <2>4. meta # None => k \in Collections(Texts, Configs)
    <3>1. P \in SUBSET SlicePoints(Texts)
      BY <2>2
    <3>2. meta # None => meta.dim \in {c.dim : c \in Configs}
      BY <1>1
    <3> HIDE DEF P
    <3> QED
      BY <3>1, <3>2 DEF Collections
  <2> HIDE DEF k, P
  <2> QED
    BY <2>1, <2>2, <2>3, <2>4
<1>4. colls \in [Sizes -> Collections(Texts, Configs) \cup {None}]
  BY <1>3 DEF InitService
<1>5. shared \in [{"meta", "docs"} -> {None} \cup SUBSET DocFields] /\ shared["meta"] \in {None, {}}
  BY DEF InitService
<1> QED
  BY <1>1, <1>2, <1>3, <1>4, <1>5 DEF StoreOK, StoreTypeOK, Cut

(* Before any call, every part of the invariant holds.                     *)
LEMMA InitKinds ==
    ASSUME InitService
    PROVE  TypeInv /\ BootInv /\ AloneInv /\ HealthInv
<1>1. reqs = [w \in Workers |-> None] /\ issued = [w \in Workers |-> 0] /\ faults = 0
  BY DEF InitService
<1>2. Busy = {}
  BY <1>1 DEF Busy
<1>3. docs \in [Docs -> Texts \cup {None}]
  BY InitStore DEF StoreOK, StoreTypeOK
<1>4. promised \in [Docs -> SUBSET (Texts \cup {None})]
  BY <1>3 DEF InitService
<1>5. TypeOK
  BY <1>1, <1>4, InitStore, ServiceAssumption DEF TypeOK, StoreOK
<1>6. RegistryStands
  <2>1. shared = [n \in {"meta", "docs"} |->
                    IF meta = None THEN None ELSE IF n = "docs" THEN DocFields ELSE {}]
    BY DEF InitService
  <2>2. DocFields # None /\ {} # None
    BY NoneAssumption
  <2> QED
    BY <2>1, <2>2 DEF RegistryStands
<1> QED
  BY <1>2, <1>5, <1>6 DEF TypeInv, BootInv, AloneInv, HealthInv

(* What is kept whatever the creates ask for.                              *)
BaseInv == TypeInv /\ BootInv /\ AloneInv /\ HealthInv

(* Requests, collections and counters stay what the code can make them, by *)
(* whatever steps and failures: no loop runs dry or takes a size that is   *)
(* not its own, no tombstone is for another document, and no index is made *)
(* on a registry collection that is not there.                             *)
THEOREM Invariance == Spec => []BaseInv
<1>1. InitService => BaseInv
  BY InitKinds DEF BaseInv
<1>2. BaseInv /\ [Next]_vars => BaseInv'
  BY TypeKept, BootKept, AloneKept, HealthKept DEF BaseInv
<1> QED
  BY <1>1, <1>2, PTL DEF Spec

(* The variables hold what the code can put there.                         *)
THEOREM TypeCorrect == Spec => []TypeOK
<1>1. BaseInv => TypeOK
  BY DEF BaseInv, TypeInv
<1> QED
  BY <1>1, Invariance, PTL

(* Where there is a corpus, both registry collections are there: by two    *)
(* clients that bootstrap at once, and by failures in between.             *)
THEOREM CorpusHasRegistry == Spec => []RegistryStands
<1>1. BaseInv => RegistryStands
  BY DEF BaseInv, BootInv
<1> QED
  BY <1>1, Invariance, PTL

(* What a health check that has found the store in order has seen.         *)
ReportInv == \A w \in Busy :
    reqs[w].call.op = "health" /\ reqs[w].at = "probe" /\ reqs[w].ok =>
        \A n \in {"meta", "docs"} : shared[n] # None

(* A request that is giving the document registry the indexes it lacks.    *)
Indexing(w) ==
    /\ w \in Busy /\ reqs[w].call.op \in {"create", "health"} /\ reqs[w].at = "index docs"
    /\ shared["docs"] # None /\ DocFields \subseteq shared["docs"] \cup reqs[w].todo

(* While nothing failed, that registry has all its indexes or is about to. *)
IndexInv == faults = 0 =>
    shared["docs"] \in {None, DocFields} \/ \E w \in Busy : Indexing(w)

(* Every step keeps what the reports say.                                  *)
LEMMA ReportsKept ==
    ASSUME BaseInv, ReportInv, [Next]_vars
    PROVE  ReportInv'
<1> DEFINE Found(v) == reqs[v].call.op = "health" /\ reqs[v].at = "probe" /\ reqs[v].ok =>
                          \A n \in {"meta", "docs"} : shared[n] # None
<1> SUFFICES \A v \in Busy' : Found(v)'
  BY DEF ReportInv
<1>0. TypeInv /\ BootInv /\ \A v \in Busy : Found(v)
  BY DEF BaseInv, ReportInv
<1>1. CASE UNCHANGED vars
  BY <1>0, <1>1 DEF vars, store, Busy
<1>2. CASE Crash
  BY <1>2 DEF Crash, Busy
<1>3. ASSUME NEW w \in Workers, NEW c, NEW rest, NEW kept, Enters(w, c, rest, kept) PROVE Found(w)'
  BY <1>0, <1>3, EntersHas DEF Entry
<1>4. ASSUME NEW w \in Workers, Begin(w), NEW v \in Busy' PROVE Found(v)'
  <2>1. UNCHANGED store /\ \E c \in Menu[w] : Enters(w, c, << >>, promised)
    BY <1>0, <1>4, BeginEnters
  <2>2. PICK c \in Menu[w] : Enters(w, c, << >>, promised)
    BY <2>1
  <2>3. CASE v # w
    <3>1. v \in Busy /\ Same(v)
      BY <1>0, <1>4, <2>2, <2>3, OthersUnderEnter DEF Busy
    <3> QED
      BY <1>0, <2>1, <3>1 DEF Same, store
  <2> QED
    BY <1>3, <2>2, <2>3
<1>5. ASSUME NEW w \in Workers, Acts(w), NEW v \in Busy' PROVE Found(v)'
  <2>0. w \in Busy
    BY <1>0, <1>5, ActsGo
  <2>1. \A n \in {"meta", "docs"} : shared[n] # None => shared'[n] # None
    BY <1>0, <1>5, <2>0, ActsLeave
  <2>2. CASE v # w
    <3>1. v \in Busy /\ Same(v)
      BY <1>0, <1>5, <2>2, OthersStay DEF Busy
    <3> QED
      BY <1>0, <2>1, <3>1 DEF Same
  <2>3. CASE v = w
    <3>1. CASE Answers(w, promised) \/ Answers(w, Returned(w)) \/ Opens(w)
      BY <1>0, <1>3, <1>5, <2>0, <2>3, <3>1, AnswersHas, OpensHas
    <3>2. CASE BootGoes(w)
      <4>1. reqs'[w].call = reqs[w].call /\ (reqs[w].call.op = "health" => Booted(w) = "probe")
        BY <3>2 DEF BootGoes, Steady, Onward, Booted
      <4>2. CASE reqs[w].at = "see docs" /\ shared["docs"] # None
        <5>1. shared["meta"] # None
          BY <1>0, <2>0, <4>2 DEF BootInv
        <5> QED
          BY <2>1, <2>3, <4>2, <5>1
      <4>3. CASE reqs[w].at = "index docs"
        <5>1. shared["meta"] # None /\ shared["docs"] # None
          BY <1>0, <2>0, <4>3 DEF BootInv
        <5> QED
          BY <2>1, <2>3, <5>1
      <4>4. CASE reqs'[w].at \in {"see docs", "make meta", "make docs", "index docs"}
        BY <2>3, <4>4
      <4> QED
        BY <3>2, <4>2, <4>3, <4>4 DEF BootGoes
    <3>3. CASE DownGoes(w)
      BY <2>3, <3>3 DEF DownGoes
    <3>4. CASE PingGoes(w)
      BY <2>3, <3>4 DEF PingGoes
    <3>5. CASE CreateGoes(w) \/ DropGoes(w) \/ PutGoes(w) \/ DeleteGoes(w)
      <4>1. reqs'[w].call.op # "health"
        BY <3>5 DEF CreateGoes, DropGoes, PutGoes, DeleteGoes, Onward
      <4> QED
        BY <2>3, <4>1
    <3> QED
      BY <1>0, <1>5, <3>1, <3>2, <3>3, <3>4, <3>5, ActsGo
  <2> QED
    BY <2>2, <2>3
<1> HIDE DEF Found
<1> QED
  BY <1>1, <1>2, <1>4, <1>5 DEF Next, Acts

(* The steps that make and index the document registry, if nothing fails.  *)
LEMMA RegistrySteps ==
    ASSUME TypeInv, NEW w \in Busy, Acts(w), faults' = faults,
           reqs[w].call.op \in {"create", "health"}
    PROVE  /\ reqs[w].at = "index docs" =>
                 /\ IndexRegistry("docs", Size(w))
                 /\ w \in Busy' /\ reqs'[w].call = reqs[w].call /\ reqs'[w].todo = Rest(w)
                 /\ Rest(w) # {} => reqs'[w].at = "index docs"
           /\ reqs[w].at = "make docs" /\ shared["docs"] = None =>
                 /\ CreateRegistry("docs")
                 /\ w \in Busy' /\ reqs'[w].call = reqs[w].call /\ reqs'[w].todo = DocFields
                 /\ reqs'[w].at = "index docs"
<1>0. faults' # faults + 1
  BY ServiceAssumption DEF TypeInv, TypeOK
<1>1. ASSUME reqs[w].at \in {"index docs", "make docs"} PROVE Bootstrap(w)
  <2>1. ~ Put(w)
    BY <1>1 DEF Put, PutConfig, ListIds, Scroll, Embed, UpsertSlices, WriteSize, Tombstone, DeleteSize,
                Register, Record, At
  <2>2. ~ Delete(w)
    BY <1>1 DEF Delete, DeleteConfig, FindDocument, Lookup, ReadRecord, PurgeSize, Forget, At
  <2>3. ~ OpenBatch(w) /\ ~ RefusedDocument(w) /\ ~ RefusedCorpus(w)
    BY <1>1 DEF OpenBatch, RefusedDocument, RefusedCorpus, At
  <2>4. Create(w) => Bootstrap(w)
    BY <1>1 DEF Create, ProbeDimension, CheckName, CollectionExists, MakeCollection, IndexCollection,
                SaveConfig, At
  <2>5. ~ Drop(w)
    BY <1>1 DEF Drop, DropConfig, DropCorpus, CollectionPresent, RemoveCollection, ClearRegistry,
                EraseConfig, At
  <2>6. Health(w) => Bootstrap(w)
    BY <1>0, <1>1 DEF Health, Ping, StoreFails, Report, At
  <2>7. ~ Broken(w) /\ ~ StrayError(w)
    BY <1>0 DEF Broken, Fault, StrayError
  <2> QED
    BY <2>1, <2>2, <2>3, <2>4, <2>5, <2>6, <2>7 DEF Acts, Step
<1>2. CASE reqs[w].at = "index docs"
  <2>0. IndexDocs(w)
    BY <1>1, <1>2 DEF Bootstrap, SeeMeta, SeeDocs, MakeMeta, MakeDocs, BootRefused, Booting
  <2>1. IndexRegistry("docs", Size(w)) /\ NextSize(w, "index docs", Booted(w))
    BY <1>0, <2>0 DEF IndexDocs, Confirmed
  <2>2. Booted(w) \in Places /\ "index docs" \in Places
    BY ArePlaces DEF Booted
  <2>3. reqs'[w].at = (IF Rest(w) = {} THEN Booted(w) ELSE "index docs") /\ reqs'[w].todo = Rest(w) /\ Steady(w)
    BY <2>1, <2>2, NextSizeGoes
  <2>4. reqs'[w].call = reqs[w].call /\ w \in Busy'
    BY <2>3, BusyHas, NoneAssumption DEF Steady, Onward, Busy
  <2> QED
    BY <1>2, <2>1, <2>3, <2>4
<1>3. CASE reqs[w].at = "make docs" /\ shared["docs"] = None
  <2>0. MakeDocs(w)
    BY <1>1, <1>3 DEF Bootstrap, SeeMeta, SeeDocs, MakeMeta, IndexDocs, BootRefused, Booting
  <2>1. CreateRegistry("docs") /\ Loop(w, "index docs", DocFields)
    BY <1>0, <2>0 DEF MakeDocs, Confirmed
  <2>2. DocFields \in SUBSET (Sizes \cup DocFields)
    OBVIOUS
  <2>3. reqs'[w].at = "index docs" /\ reqs'[w].todo = DocFields /\ Steady(w)
    BY <2>1, <2>2, LoopGoes, ArePlaces
  <2>4. reqs'[w].call = reqs[w].call /\ w \in Busy'
    BY <2>3, BusyHas, NoneAssumption DEF Steady, Onward, Busy
  <2> QED
    BY <1>3, <2>1, <2>3, <2>4
<1> QED
  BY <1>2, <1>3

(* No step leaves the document registry without its indexes.               *)
LEMMA IndexesKept ==
    ASSUME BaseInv, IndexInv, [Next]_vars
    PROVE  IndexInv'
<1>0. /\ TypeInv /\ BootInv /\ faults \in Nat
      /\ shared \in [{"meta", "docs"} -> {None} \cup SUBSET DocFields]
  <2>1. TypeInv /\ BootInv
    BY DEF BaseInv
  <2>2. faults \in Nat
    BY <2>1, ServiceAssumption DEF TypeInv, TypeOK
  <2>3. shared \in [{"meta", "docs"} -> {None} \cup SUBSET DocFields]
    BY <2>1 DEF TypeInv, TypeOK, StoreTypeOK
  <2> QED
    BY <2>1, <2>2, <2>3
<1>1. CASE UNCHANGED vars
  BY <1>1 DEF vars, store, IndexInv, Indexing, Busy
<1>2. CASE Crash
  BY <1>0, <1>2 DEF Crash, IndexInv
<1>3. ASSUME NEW w \in Workers, Begin(w) PROVE IndexInv'
  <2>1. /\ w \notin Busy /\ UNCHANGED store /\ faults' = faults
        /\ \E c \in Menu[w] : Enters(w, c, << >>, promised)
    BY <1>0, <1>3, BeginEnters
  <2>2. PICK c \in Menu[w] : Enters(w, c, << >>, promised)
    BY <2>1
  <2>3. ASSUME NEW v \in Busy, Indexing(v) PROVE v \in Busy' /\ Indexing(v)'
    <3>1. v \in Busy' /\ Same(v)
      BY <1>0, <2>1, <2>2, <2>3, OthersUnderEnter DEF Busy
    <3> QED
      BY <2>1, <2>3, <3>1 DEF Indexing, Same, store
  <2> QED
    BY <2>1, <2>3 DEF IndexInv, store
<1>4. ASSUME NEW w \in Workers, Acts(w), faults' = 0
      PROVE  shared'["docs"] \in {None, DocFields} \/ \E v \in Busy' : Indexing(v)'
  <2>0. w \in Busy /\ faults = 0 /\ faults' = faults
    BY <1>0, <1>4, ActsGo, FaultsGrow
  <2>1. ASSUME NEW v \in Busy \ {w} PROVE v \in Busy' /\ Same(v)
    BY <1>0, <1>4, <2>1, OthersStay DEF Busy
  <2>2. shared["docs"] \in {None, DocFields} \/ \E v \in Busy : Indexing(v)
    BY <2>0 DEF IndexInv
  <2>3. CASE reqs[w].at = "index docs" /\ IndexRegistry("docs", Size(w)) /\ reqs[w].call.op \in {"create", "health"}
    <3>1. shared["docs"] # None /\ shared["docs"] \subseteq DocFields
      BY <1>0, <2>0, <2>3 DEF BootInv
    <3>2. /\ w \in Busy' /\ reqs'[w].call = reqs[w].call /\ reqs'[w].todo = Rest(w)
          /\ Rest(w) # {} => reqs'[w].at = "index docs"
      BY <1>0, <1>4, <2>0, <2>3, RegistrySteps
    <3>3. PICK f \in DocFields : f = Size(w)
      <4>1. PlaceOK(reqs[w])
        BY <1>0, <2>0, BusyHas
      <4>2. reqs[w].todo # {} /\ reqs[w].todo \subseteq DocFields
        BY <2>3, <4>1 DEF PlaceOK, Looping
      <4> QED
        BY <4>2, SizeIsLeft
    <3>4. shared'["docs"] = shared["docs"] \cup {f}
      BY <1>0, <2>3, <3>3 DEF IndexRegistry
    <3>5. shared'["docs"] # None
      <4>1. shared'["docs"] \in SUBSET DocFields
        BY <3>1, <3>4
      <4> QED
        BY <4>1, NoneAssumption
    <3>6. CASE shared["docs"] = DocFields
      BY <3>4, <3>6
    <3>7. ASSUME NEW v \in Busy, Indexing(v), v # w PROVE v \in Busy' /\ Indexing(v)'
      BY <2>1, <3>4, <3>5, <3>7 DEF Indexing, Same
    <3>8. CASE Indexing(w)
      <4>1. DocFields \subseteq shared'["docs"] \cup Rest(w)
        BY <3>3, <3>4, <3>8 DEF Indexing, Rest
      <4>2. CASE Rest(w) = {}
        <5>1. shared'["docs"] = DocFields
          BY <3>1, <3>4, <4>1, <4>2
        <5> QED
          BY <5>1
      <4>3. CASE Rest(w) # {}
        <5>1. Indexing(w)'
          BY <2>3, <3>2, <3>5, <4>1, <4>3 DEF Indexing
        <5> QED
          BY <3>2, <5>1
      <4> QED
        BY <4>2, <4>3
    <3> QED
      BY <2>2, <3>1, <3>6, <3>7, <3>8
  <2>4. CASE reqs[w].at = "make docs" /\ shared["docs"] = None /\ reqs[w].call.op \in {"create", "health"}
    <3>1. /\ CreateRegistry("docs") /\ reqs'[w].call = reqs[w].call /\ reqs'[w].todo = DocFields
          /\ reqs'[w].at = "index docs" /\ w \in Busy'
      BY <1>0, <1>4, <2>0, <2>4, RegistrySteps
    <3>3. shared'["docs"] = {} /\ {} # None
      BY <1>0, <3>1, NoneAssumption DEF CreateRegistry
    <3> QED
      BY <2>4, <3>1, <3>3 DEF Indexing
  <2>5. CASE /\ ~ (reqs[w].at = "index docs" /\ reqs[w].call.op \in {"create", "health"})
             /\ shared'["docs"] = shared["docs"]
    <3>1. ASSUME NEW v \in Busy, Indexing(v) PROVE v \in Busy' /\ Indexing(v)'
      BY <2>1, <2>5, <3>1 DEF Indexing, Same
    <3> QED
      BY <2>2, <2>5, <3>1
  <2>6. CASE reqs[w].at = "index docs" /\ reqs[w].call.op \in {"create", "health"}
    <3>1. IndexRegistry("docs", Size(w))
      BY <1>0, <1>4, <2>0, <2>6, RegistrySteps
    <3> QED
      BY <2>3, <2>6, <3>1
  <2>7. CASE /\ ~ (reqs[w].at = "index docs" /\ reqs[w].call.op \in {"create", "health"})
             /\ ~ (/\ reqs[w].at = "make docs" /\ shared["docs"] = None
                   /\ reqs[w].call.op \in {"create", "health"})
    <3> SUFFICES shared'["docs"] = shared["docs"]
      BY <2>5, <2>7
    <3>1. CASE PutStores(w) \/ DeleteStores(w) \/ UNCHANGED store
      BY <3>1 DEF PutStores, DeleteStores, UpsertPoints, DeleteIds, WriteRecord, DeleteByDocument, store
    <3>2. CASE CreateStores(w) \/ DropStores(w)
      BY <3>2 DEF CreateStores, DropStores, CreateCollection, CreateIndex, WriteMeta, DeleteCollection,
                  PurgeRegistry
    <3>3. CASE BootStores(w)
      BY <1>0, <2>7, <3>3 DEF BootStores, CreateRegistry
    <3> QED
      BY <1>4, <3>1, <3>2, <3>3, ActsStore
  <2> QED
    BY <2>4, <2>6, <2>7
<1> QED
  BY <1>1, <1>2, <1>3, <1>4 DEF Next, Acts, IndexInv

(* A store that a health check reports in order has both registries,       *)
(* whatever half of a bootstrap it found; without rival and failure it is  *)
(* reported so, and while nothing ever failed the indexes are there too.   *)
THEOREM HealthCheckHeals == Spec => []HealthHeals
<1>1. InitService => ReportInv /\ IndexInv
  BY DEF InitService, ReportInv, IndexInv, Busy
<1>2. BaseInv /\ ReportInv /\ IndexInv /\ [Next]_vars => ReportInv' /\ IndexInv'
  BY ReportsKept, IndexesKept
<1>3. BaseInv /\ ReportInv /\ IndexInv => HealthHeals
  <2> SUFFICES ASSUME BaseInv, ReportInv, IndexInv, NEW w \in Busy,
                      reqs[w].call.op = "health", reqs[w].at = "probe"
               PROVE  /\ reqs[w].ok => \A n \in {"meta", "docs"} : shared[n] # None
                      /\ reqs[w].alone /\ reqs[w].since = faults => reqs[w].ok
                      /\ reqs[w].alone /\ faults = 0 => shared["docs"] = DocFields
    BY DEF HealthHeals
  <2>1. reqs[w].alone /\ reqs[w].since = faults => reqs[w].ok
    BY DEF BaseInv, HealthInv
  <2>2. reqs[w].ok => \A n \in {"meta", "docs"} : shared[n] # None
    BY DEF ReportInv
  <2>3. ASSUME reqs[w].alone, faults = 0 PROVE shared["docs"] = DocFields
    <3>1. reqs[w].since = faults
      <4>1. reqs[w].since \in Nat
        BY BusyHas DEF BaseInv, Requests
      <4>2. reqs[w].since <= faults
        BY DEF BaseInv, HealthInv
      <4> QED
        BY <2>3, <4>1, <4>2
    <3>2. ASSUME NEW v \in Busy, Indexing(v) PROVE FALSE
      <4>1. v # w
        BY <3>2 DEF Indexing
      <4>2. Clash(reqs[v].call, reqs[w].call)
        BY <3>2 DEF Indexing, Clash
      <4> QED
        BY <2>3, <4>1, <4>2 DEF BaseInv, AloneInv
    <3> QED
      BY <2>1, <2>2, <2>3, <3>1, <3>2 DEF IndexInv
  <2> QED
    BY <2>1, <2>2, <2>3
<1> QED
  BY <1>1, <1>2, <1>3, Invariance, PTL DEF Spec

(* Only the end of the process, or an error that is none of phoropter's    *)
(* own, cuts a batch short.                                                *)
THEOREM BatchIsNotCutShort == Spec => BatchGoesOn
<1>1. BaseInv /\ [Next]_vars => [\A w \in Busy : (reqs[w].rest # << >> /\ reqs'[w] = None) =>
                                    Crash \/ StrayError(w)]_vars
  BY BatchStep DEF BaseInv
<1> QED
  BY <1>1, Invariance, PTL DEF Spec, BatchGoesOn
-----------------------------------------------------------------------------
(* What a put without rivals has seen and done at one size, of which its   *)
(* collection holds the points h of the document.                          *)

NewCut(r, s) == Cut(r.call.doc, r.call.text, s)

(* It has listed what is there.                                            *)
Knows(r, h) == IdsOf(h) \subseteq r.old

(* It has written the new text, and what else there is will be removed.    *)
Rewrote(r, s, h) ==
    NewCut(r, s) \subseteq h /\ IdsOf(h \ NewCut(r, s)) \subseteq Leftovers(r)

(* The new text in place of as much of the old one as it reaches.          *)
Merged(r, s, text) ==
    NewCut(r, s) \cup
    {p \in Cut(r.call.doc, text, s) : Ref(p) \notin IdsOf(NewCut(r, s))}

PutPlaces == {"config", "list", "scroll", "embed", "upsert", "write", "tombstone",
              "delete", "register", "record"}

Listed(r, s) ==
    \/ r.at \in {"embed", "upsert"}
    \/ r.at = "scroll" /\ s \notin r.todo
    \/ r.at = "write" /\ s \in r.todo

Written(r, s) ==
    \/ r.at = "tombstone"
    \/ r.at = "write" /\ s \notin r.todo
    \/ r.at = "delete" /\ s \in r.todo

Replaced(r, s) ==
    \/ r.at \in {"register", "record"}
    \/ r.at = "delete" /\ s \notin r.todo

Untouched(r, s) ==
    \/ r.at \in {"config", "list", "scroll", "embed", "upsert"}
    \/ r.at = "write" /\ s \in r.todo

PutSees(r, s, h) ==
    /\ Listed(r, s) => Knows(r, h)
    /\ Written(r, s) => Rewrote(r, s, h)
    /\ Replaced(r, s) => h = NewCut(r, s)

(* What it finds of the text its document had before.                      *)
GapSees(r, s, old, h) ==
    /\ Untouched(r, s) => h = Cut(r.call.doc, old, s)
    /\ Written(r, s) => h = Merged(r, s, old)

PutKnows(w) == reqs[w].at # "config" =>
    /\ meta = reqs[w].config
    /\ \A s \in meta.sizes : PutSees(reqs[w], s, HeldAt(reqs[w].call.doc, s))

PutKeeps(w) == \A old \in reqs[w].was \ {None} :
    meta # None /\ \A s \in meta.sizes : GapSees(reqs[w], s, old, HeldAt(reqs[w].call.doc, s))

PutOK(w) == reqs[w].at \in PutPlaces /\ PutKnows(w) /\ PutKeeps(w)

-----------------------------------------------------------------------------
(* What the coordinates of a point of one size tell.                       *)
LEMMA RefOfSize ==
    ASSUME NEW doc, NEW text, NEW s, NEW p \in Cut(doc, text, s)
    PROVE  Ref(p).size = s /\ Ref(p).doc = doc
BY CutIs DEF Ref

(* Only points of that size have coordinates of that size.                 *)
LEMMA RefIsNew ==
    ASSUME NEW doc, NEW text, NEW sizes, NEW s \in sizes, NEW i, i.size = s
    PROVE  i \in IdsOf(Points(doc, text, sizes)) <=> i \in IdsOf(Cut(doc, text, s))
<1>1. Cut(doc, text, s) \subseteq Points(doc, text, sizes)
  BY PointsOfSize DEF OfSize
<1>2. ASSUME NEW p \in Points(doc, text, sizes), i = Ref(p)
      PROVE  p \in Cut(doc, text, s)
  BY <1>2, PointIs DEF Ref
<1> QED
  BY <1>1, <1>2 DEF IdsOf

(* What is left over of one size.                                          *)
LEMMA LeftoverIs ==
    ASSUME NEW r, NEW s \in r.config.sizes, NEW i, i.size = s
    PROVE  i \in Leftovers(r) <=> i \in r.old /\ i \notin IdsOf(NewCut(r, s))
BY RefIsNew DEF Leftovers, NewCut

(* A write makes the listed points leftovers, or replaces them.            *)
LEMMA WriteRewrites ==
    ASSUME NEW r, NEW s \in r.config.sizes, NEW h, NEW k, Knows(r, h),
           \A p \in h : Ref(p).size = s,
           k = {p \in h : Ref(p) \notin IdsOf(NewCut(r, s))} \cup NewCut(r, s)
    PROVE  Rewrote(r, s, k)
<1>1. ASSUME NEW p \in k \ NewCut(r, s)
      PROVE  Ref(p) \in Leftovers(r)
  <2>1. p \in h /\ Ref(p) \notin IdsOf(NewCut(r, s)) /\ Ref(p) \in r.old
    BY <1>1 DEF Knows, IdsOf
  <2> QED
    BY <2>1, LeftoverIs
<1> QED
  BY <1>1 DEF Rewrote, IdsOf

(* So does the empty text, of which nothing is written.                    *)
LEMMA NothingRewrites ==
    ASSUME NEW r, NEW s \in r.config.sizes, NEW h, Knows(r, h),
           \A p \in h : Ref(p).size = s, NewCut(r, s) = {}
    PROVE  Rewrote(r, s, h)
<1>1. ASSUME NEW p \in h
      PROVE  Ref(p) \in Leftovers(r)
  BY <1>1, LeftoverIs DEF Knows, IdsOf
<1> QED
  BY <1>1 DEF Rewrote, IdsOf

(* Where nothing is left over, the new text stands alone, ...              *)
LEMMA NothingIsLeft ==
    ASSUME NEW r, NEW s, NEW h, Rewrote(r, s, h), \A p \in h : Ref(p).size = s,
           \A i \in Leftovers(r) : i.size # s
    PROVE  h = NewCut(r, s)
<1>1. ASSUME NEW p \in h \ NewCut(r, s)
      PROVE  FALSE
  BY <1>1 DEF Rewrote, IdsOf
<1> QED
  BY <1>1 DEF Rewrote

(* ... and it does once what is left over is removed.                      *)
LEMMA TombstonesLeave ==
    ASSUME NEW r, NEW s \in r.config.sizes, NEW h, NEW k, Rewrote(r, s, h),
           \A p \in h : Ref(p).size = s,
           k = {p \in h : Ref(p) \notin OfSize(Leftovers(r), s)}
    PROVE  k = NewCut(r, s)
<1>1. ASSUME NEW p \in k
      PROVE  p \in NewCut(r, s)
  <2>1. p \in h /\ Ref(p).size = s /\ Ref(p) \notin Leftovers(r)
    BY <1>1 DEF OfSize
  <2> QED
    BY <2>1 DEF Rewrote, IdsOf
<1>2. ASSUME NEW p \in NewCut(r, s)
      PROVE  p \in k
  <2>1. p \in h /\ Ref(p).size = s /\ Ref(p) \in IdsOf(NewCut(r, s))
    BY <1>2 DEF Rewrote, IdsOf
  <2>2. Ref(p) \notin Leftovers(r)
    BY <2>1, LeftoverIs
  <2> QED
    BY <2>1, <2>2 DEF OfSize
<1> QED
  BY <1>1, <1>2

(* The points a collection holds of a document are cut at its size.        *)
LEMMA HeldRefs ==
    ASSUME TypeInv, NEW d, NEW s \in Sizes, NEW p \in HeldAt(d, s)
    PROVE  Ref(p).size = s
<1>1. colls[s] # None /\ p \in Held(d, s)
  BY DEF HeldAt
<1>2. p \in Cut(d, p.of, s)
  BY <1>1, HeldIs
<1> QED
  BY <1>2, RefOfSize

(* The same of a put after a step, of its document by name.                *)
LEMMA PutIsOK ==
    ASSUME NEW w, NEW d, reqs'[w].call.doc = d, reqs'[w].at \in PutPlaces,
           reqs'[w].at # "config" =>
              /\ meta' = reqs'[w].config
              /\ \A s \in meta'.sizes : PutSees(reqs'[w], s, HeldAt(d, s)'),
           \A old \in reqs'[w].was \ {None} :
              meta' # None /\ \A s \in meta'.sizes : GapSees(reqs'[w], s, old, HeldAt(d, s)')
    PROVE  PutOK(w)'
<1>1. \A s : HeldAt(reqs[w].call.doc, s)' = HeldAt(d, s)'
  BY DEF HeldAt, Held
<1> QED
  BY <1>1 DEF PutOK, PutKnows, PutKeeps

(* A put that goes on changes the points of its own document only, as      *)
(* these say, and leaves the config alone.                                 *)
LEMMA PutHolds ==
    ASSUME TypeInv, NEW w \in Busy, PutGoes(w), NEW d, d = reqs[w].call.doc, NEW s \in Sizes
    PROVE  /\ meta' = meta
           /\ reqs[w].at \notin {"write", "delete"} \/ s # Size(w) => HeldAt(d, s)' = HeldAt(d, s)
           /\ reqs[w].at = "write" /\ s = Size(w) =>
                HeldAt(d, s)' = {p \in HeldAt(d, s) : Ref(p) \notin IdsOf(NewAt(w, s))} \cup NewAt(w, s)
           /\ reqs[w].at = "delete" /\ s = Size(w) =>
                HeldAt(d, s)' = {p \in HeldAt(d, s) : Ref(p) \notin OfSize(Leftovers(reqs[w]), s)}
<1>1. d \in Docs /\ reqs[w].call.op = "put" /\ Orphans(w, reqs[w].old) = Leftovers(reqs[w])
  BY PutHas, OrphansLeft DEF PutGoes
<1>2. reqs[w].at \in {"write", "delete"} => Size(w) \in Sizes
  <2>1. reqs[w].at \in {"write", "delete"} => reqs[w].todo # {} /\ reqs[w].todo \subseteq Sizes
    BY BusyHas DEF PlaceOK, Looping
  <2> QED
    BY <2>1, SizeIsLeft
<1>3. PICK z : z = Size(w)
  OBVIOUS
<1>4. CASE reqs[w].at = "write"
  <2>1. /\ colls[z] # None /\ UpsertPoints(z, OfSize(New(w), z))
        /\ z \in Sizes /\ reqs[w].at # "config"
    BY <1>2, <1>3, <1>4 DEF PutGoes
  <2>2. s # z => HeldAt(d, s)' = HeldAt(d, s)
    BY <1>1, <2>1, UpsertHolds
  <2>3. HeldAt(d, z)' = {p \in HeldAt(d, z) : Ref(p) \notin IdsOf(NewAt(w, z))} \cup NewAt(w, z)
    BY <1>1, <2>1, UpsertHolds
  <2>4. meta' = meta
    BY <2>1 DEF UpsertPoints
  <2> QED
    BY <1>3, <1>4, <2>2, <2>3, <2>4
<1>5. CASE reqs[w].at = "delete"
  <2>1. /\ colls[z] # None /\ DeleteIds(z, OfSize(Orphans(w, reqs[w].old), z))
        /\ z \in Sizes
    BY <1>2, <1>3, <1>5 DEF PutGoes
  <2>2. s # z => HeldAt(d, s)' = HeldAt(d, s)
    BY <1>1, <2>1, DeleteHolds
  <2>3. HeldAt(d, z)' = {p \in HeldAt(d, z) : Ref(p) \notin OfSize(Orphans(w, reqs[w].old), z)}
    BY <1>1, <2>1, DeleteHolds
  <2>4. meta' = meta
    BY <2>1 DEF DeleteIds
  <2> QED
    BY <1>1, <1>3, <1>5, <2>2, <2>3, <2>4
<1>6. CASE reqs[w].at \notin {"write", "delete"}
  <2>1. UNCHANGED store
    BY <1>6 DEF PutGoes
  <2> QED
    BY <1>6, <2>1 DEF store, HeldAt, Held
<1> QED
  BY <1>4, <1>5, <1>6

(* What is left over does not change once the ids are listed.              *)
LEMMA LeftoversStay ==
    ASSUME NEW r, NEW q, q.call = r.call, q.config = r.config, q.old = r.old
    PROVE  Leftovers(q) = Leftovers(r)
BY DEF Leftovers

(* The place after the writes.                                             *)
LEMMA AfterWritesIs ==
    ASSUME NEW w, NEW q, q.call = reqs[w].call, q.config = reqs[w].config,
           q.at = AfterWrites(w, q.old)
    PROVE  \/ q.at = "register" /\ Leftovers(q) = {}
           \/ q.at = "tombstone"
BY DEF AfterWrites, Orphans, New, Leftovers

(* A put that goes on sees at each size what its new place says.           *)
LEMMA PutSeesOn ==
    ASSUME TypeInv, NEW w \in Busy, PutGoes(w), PutOK(w), NEW d, d = reqs[w].call.doc,
           NEW s \in Sizes, meta # None, s \in meta.sizes
    PROVE  PutSees(reqs'[w], s, HeldAt(d, s)')
<1> DEFINE r == reqs[w]
           q == reqs'[w]
<1>1. /\ q.call = r.call
      /\ r.at # "config" => q.config = r.config /\ s \in r.config.sizes
                            /\ PutSees(r, s, HeldAt(d, s))
      /\ r.at \notin {"config", "scroll"} => q.old = r.old
  BY DEF PutGoes, Onward, PutOK, PutKnows
<1>2. NewCut(q, s) = NewCut(r, s) /\ (r.at # "config" => NewAt(w, s) = NewCut(r, s))
  BY <1>1, PointsOfSize DEF NewCut, NewAt, New
<1>3. \A p \in HeldAt(d, s) : Ref(p).size = s
  BY HeldRefs
<1>4. r.at \notin {"config", "scroll"} => Leftovers(q) = Leftovers(r)
  BY <1>1, LeftoversStay
<1>5. /\ r.at \notin {"write", "delete"} \/ s # Size(w) => HeldAt(d, s)' = HeldAt(d, s)
      /\ r.at = "write" /\ s = Size(w) =>
           HeldAt(d, s)' = {p \in HeldAt(d, s) : Ref(p) \notin IdsOf(NewCut(r, s))} \cup NewCut(r, s)
      /\ r.at = "delete" /\ s = Size(w) =>
           HeldAt(d, s)' = {p \in HeldAt(d, s) : Ref(p) \notin OfSize(Leftovers(r), s)}
  BY <1>2, PutHolds
<1>6. PICK h : h = HeldAt(d, s)
  OBVIOUS
<1>7. PICK k : k = HeldAt(d, s)'
  OBVIOUS
<1>8. CASE r.at \in {"config", "list"}
  <2>1. q.at = "list" \/ (q.at = "scroll" /\ s \in q.todo)
    BY <1>8 DEF PutGoes
  <2> QED
    BY <2>1 DEF PutSees, Listed, Written, Replaced
<1>9. CASE r.at = "scroll"
  <2>1. /\ q.todo = Rest(w) /\ colls[Size(w)] # None
        /\ q.old = r.old \cup IdsOf(Held(d, Size(w)))
        /\ q.at = IF Rest(w) # {} THEN "scroll"
                  ELSE IF New(w) # {} THEN "embed" ELSE AfterWrites(w, q.old)
    BY <1>9 DEF PutGoes
  <2>2. k = h
    BY <1>5, <1>6, <1>7, <1>9
  <2>3. s \notin r.todo => Knows(r, h)
    BY <1>1, <1>6, <1>9 DEF PutSees, Listed
  <2>4. s \notin Rest(w) => Knows(q, h)
    <3>1. CASE s = Size(w)
      <4>1. h = Held(d, Size(w))
        BY <1>6, <2>1, <3>1 DEF HeldAt
      <4> QED
        BY <2>1, <4>1 DEF Knows
    <3>2. CASE s # Size(w)
      BY <2>1, <2>3, <3>2 DEF Rest, Knows
    <3> QED
      BY <3>1, <3>2
  <2>5. CASE q.at = "scroll" \/ q.at = "embed"
    <3>1. q.at = "embed" => Rest(w) = {}
      BY <2>1
    <3> QED
      BY <1>7, <2>1, <2>2, <2>4, <2>5, <3>1 DEF PutSees, Listed, Written, Replaced
  <2>6. CASE q.at # "scroll" /\ q.at # "embed"
    <3>1. Rest(w) = {} /\ New(w) = {} /\ q.at = AfterWrites(w, q.old)
      BY <2>1, <2>6
    <3>2. NewCut(q, s) = {}
      BY <1>2, <1>9, <3>1 DEF NewAt, OfSize
    <3>3. Rewrote(q, s, h)
      BY <1>1, <1>3, <1>6, <1>9, <2>4, <3>1, <3>2, NothingRewrites
    <3>4. \/ q.at = "register" /\ Leftovers(q) = {}
          \/ q.at = "tombstone"
      BY <1>1, <1>9, <3>1, AfterWritesIs
    <3>5. q.at = "register" => h = NewCut(q, s)
      BY <1>3, <1>6, <3>3, <3>4, NothingIsLeft
    <3> QED
      BY <1>7, <2>2, <3>3, <3>4, <3>5 DEF PutSees, Listed, Written, Replaced
  <2> QED
    BY <2>5, <2>6
<1>10. CASE r.at \in {"embed", "upsert"}
  <2>1. q.at = "upsert" \/ (q.at = "write" /\ q.todo = r.config.sizes)
    BY <1>10 DEF PutGoes
  <2>2. k = h /\ Knows(r, h) /\ q.old = r.old /\ s \in r.config.sizes
    BY <1>1, <1>5, <1>6, <1>7, <1>10 DEF PutSees, Listed
  <2> QED
    BY <1>7, <2>1, <2>2 DEF PutSees, Listed, Written, Replaced, Knows
<1>11. CASE r.at = "write"
  <2>1. /\ q.todo = Rest(w)
        /\ q.at = IF Rest(w) # {} THEN "write" ELSE AfterWrites(w, r.old)
    BY <1>11 DEF PutGoes
  <2>2. q.old = r.old /\ q.config = r.config /\ s \in q.config.sizes
    BY <1>1, <1>11
  <2>3. /\ s \in r.todo => Knows(q, h)
        /\ s \notin r.todo => Rewrote(q, s, h)
    BY <1>1, <1>2, <1>4, <1>6, <1>11, <2>2 DEF PutSees, Listed, Written, Knows, Rewrote
  <2>4. s # Size(w) => k = h
    BY <1>5, <1>6, <1>7
  <2>5. s \notin Rest(w) => Rewrote(q, s, k) /\ \A p \in k : Ref(p).size = s
    <3>1. CASE s \notin r.todo
      <4>1. s # Size(w)
        BY <1>11, <3>1, BusyHas, SizeIsLeft DEF PlaceOK, Looping
      <4> QED
        BY <1>3, <1>6, <2>3, <2>4, <3>1, <4>1
    <3>2. CASE s \in r.todo /\ s = Size(w)
      <4>1. k = {p \in h : Ref(p) \notin IdsOf(NewCut(q, s))} \cup NewCut(q, s)
        BY <1>2, <1>5, <1>6, <1>7, <1>11, <3>2
      <4>2. Rewrote(q, s, k)
        BY <1>3, <1>6, <2>2, <2>3, <3>2, <4>1, WriteRewrites
      <4>3. \A p \in NewCut(q, s) : Ref(p).size = s
        BY RefOfSize DEF NewCut
      <4> QED
        BY <1>3, <1>6, <4>1, <4>2, <4>3
    <3> QED
      BY <3>1, <3>2 DEF Rest
  <2>6. CASE Rest(w) # {}
    <3>1. s \in Rest(w) => s \in r.todo /\ s # Size(w)
      BY DEF Rest
    <3> QED
      BY <1>7, <2>1, <2>3, <2>4, <2>5, <2>6, <3>1 DEF PutSees, Listed, Written, Replaced
  <2>7. CASE Rest(w) = {}
    <3>1. \/ q.at = "register" /\ Leftovers(q) = {}
          \/ q.at = "tombstone"
      BY <1>1, <2>1, <2>2, <2>7, AfterWritesIs
    <3>2. Rewrote(q, s, k) /\ \A p \in k : Ref(p).size = s
      BY <2>5, <2>7
    <3>3. q.at = "register" => k = NewCut(q, s)
      BY <3>1, <3>2, NothingIsLeft
    <3> QED
      BY <1>7, <3>1, <3>2, <3>3 DEF PutSees, Listed, Written, Replaced
  <2> QED
    BY <2>6, <2>7
<1>12. CASE r.at = "tombstone"
  <2>1. q.at = "delete" /\ q.todo = {i.size : i \in Leftovers(r)}
    BY <1>12, OrphansLeft DEF PutGoes
  <2>2. k = h /\ Rewrote(r, s, h)
    BY <1>1, <1>5, <1>6, <1>7, <1>12 DEF PutSees, Written
  <2>3. Rewrote(q, s, k)
    BY <1>2, <1>4, <1>12, <2>2 DEF Rewrote
  <2>4. s \notin q.todo => h = NewCut(r, s)
    BY <1>3, <1>6, <2>1, <2>2, NothingIsLeft
  <2> QED
    BY <1>2, <1>7, <2>1, <2>2, <2>3, <2>4 DEF PutSees, Listed, Written, Replaced
<1>13. CASE r.at = "delete"
  <2>1. /\ q.todo = Rest(w)
        /\ q.at = IF Rest(w) # {} THEN "delete" ELSE "register"
    BY <1>13 DEF PutGoes
  <2>2. /\ s \in r.todo => Rewrote(r, s, h)
        /\ s \notin r.todo => h = NewCut(r, s)
    BY <1>1, <1>6, <1>13 DEF PutSees, Written, Replaced
  <2>3. s # Size(w) => k = h
    BY <1>5, <1>6, <1>7
  <2>4. s \notin Rest(w) => k = NewCut(q, s)
    <3>1. CASE s \notin r.todo
      <4>1. s # Size(w)
        BY <1>13, <3>1, BusyHas, SizeIsLeft DEF PlaceOK, Looping
      <4> QED
        BY <1>2, <2>2, <2>3, <3>1, <4>1
    <3>2. CASE s \in r.todo /\ s = Size(w)
      <4>1. k = {p \in h : Ref(p) \notin OfSize(Leftovers(r), s)}
        BY <1>5, <1>6, <1>7, <1>13, <3>2
      <4> QED
        BY <1>1, <1>2, <1>3, <1>6, <1>13, <2>2, <3>2, <4>1, TombstonesLeave
    <3> QED
      BY <3>1, <3>2 DEF Rest
  <2>5. s \in Rest(w) => Rewrote(q, s, k)
    <3>1. s \in Rest(w) => s \in r.todo /\ s # Size(w)
      BY DEF Rest
    <3> QED
      BY <1>2, <1>4, <1>13, <2>2, <2>3, <3>1 DEF Rewrote
  <2> QED
    BY <1>7, <2>1, <2>4, <2>5 DEF PutSees, Listed, Written, Replaced
<1>14. CASE r.at = "register"
  <2>1. q.at = "record"
    BY <1>14 DEF PutGoes
  <2>2. k = h /\ h = NewCut(q, s)
    BY <1>1, <1>2, <1>5, <1>6, <1>7, <1>14 DEF PutSees, Replaced
  <2> QED
    BY <1>7, <2>1, <2>2 DEF PutSees, Listed, Written, Replaced
<1> QED
  BY <1>8, <1>9, <1>10, <1>11, <1>12, <1>13, <1>14 DEF PutGoes

(* And it finds of the old text what its new place says.                   *)
LEMMA GapSeesOn ==
    ASSUME TypeInv, NEW w \in Busy, PutGoes(w), PutOK(w), NEW d, d = reqs[w].call.doc,
           NEW old \in reqs[w].was \ {None},
           NEW s \in Sizes, meta # None, s \in meta.sizes
    PROVE  GapSees(reqs'[w], s, old, HeldAt(d, s)')
<1> DEFINE r == reqs[w]
           q == reqs'[w]
<1>1. /\ q.call = r.call /\ GapSees(r, s, old, HeldAt(d, s))
      /\ r.at # "config" => s \in r.config.sizes
  BY DEF PutGoes, Onward, PutOK, PutKnows, PutKeeps
<1>2. /\ NewCut(q, s) = NewCut(r, s) /\ Merged(q, s, old) = Merged(r, s, old)
      /\ Cut(q.call.doc, old, s) = Cut(r.call.doc, old, s)
      /\ r.at # "config" => NewAt(w, s) = NewCut(r, s)
  BY <1>1, PointsOfSize DEF NewCut, NewAt, New, Merged
<1>3. PICK h : h = HeldAt(d, s)
  OBVIOUS
<1>4. PICK k : k = HeldAt(d, s)'
  OBVIOUS
<1>5. /\ r.at \notin {"write", "delete"} \/ s # Size(w) => k = h
      /\ r.at = "write" /\ s = Size(w) =>
           k = {p \in h : Ref(p) \notin IdsOf(NewCut(r, s))} \cup NewCut(r, s)
  BY <1>2, <1>3, <1>4, PutHolds
<1>6. /\ Untouched(r, s) => h = Cut(r.call.doc, old, s)
      /\ Written(r, s) => h = Merged(r, s, old)
  BY <1>1, <1>3 DEF GapSees
<1>7. SUFFICES /\ Untouched(q, s) => k = Cut(r.call.doc, old, s)
               /\ Written(q, s) => k = Merged(r, s, old)
  BY <1>2, <1>4 DEF GapSees
<1>8. CASE r.at \in {"config", "list", "embed", "upsert", "register"}
  <2>1. /\ r.at \in {"config", "list", "embed"} => q.at \in {"list", "scroll", "upsert"}
        /\ r.at = "upsert" => q.at = "write" /\ q.todo = r.config.sizes
        /\ r.at = "register" => q.at = "record"
    BY DEF PutGoes
  <2> QED
    BY <1>1, <1>5, <1>6, <1>8, <2>1 DEF Untouched, Written
<1>9. CASE r.at = "scroll"
  <2>1. q.at = IF Rest(w) # {} THEN "scroll"
               ELSE IF New(w) # {} THEN "embed" ELSE AfterWrites(w, q.old)
    BY <1>9 DEF PutGoes
  <2>2. k = h /\ h = Cut(r.call.doc, old, s)
    BY <1>5, <1>6, <1>9 DEF Untouched
  <2>3. CASE Rest(w) # {} \/ New(w) # {}
    BY <2>1, <2>2, <2>3 DEF Untouched, Written
  <2>4. CASE New(w) = {}
    <3>1. NewCut(r, s) = {}
      BY <1>2, <1>9, <2>4 DEF NewAt, OfSize
    <3>2. Merged(r, s, old) = Cut(r.call.doc, old, s)
      BY <3>1 DEF Merged, IdsOf
    <3> QED
      BY <2>2, <3>2
  <2> QED
    BY <2>3, <2>4
<1>10. CASE r.at = "write"
  <2>1. /\ q.todo = Rest(w)
        /\ q.at = IF Rest(w) # {} THEN "write" ELSE AfterWrites(w, r.old)
    BY <1>10 DEF PutGoes
  <2>2. /\ s \in r.todo => h = Cut(r.call.doc, old, s)
        /\ s \notin r.todo => h = Merged(r, s, old)
    BY <1>6, <1>10 DEF Untouched, Written
  <2>3. AfterWrites(w, r.old) \in {"register", "tombstone"}
    BY DEF AfterWrites
  <2>4. Size(w) \in r.todo
    BY <1>10, BusyHas, SizeIsLeft DEF PlaceOK, Looping
  <2>5. CASE s = Size(w)
    <3>1. k = Merged(r, s, old)
      BY <1>5, <1>10, <2>2, <2>4, <2>5 DEF Merged
    <3> QED
      BY <2>1, <2>3, <2>5, <3>1 DEF Untouched, Rest
  <2>6. CASE s # Size(w)
    <3>1. k = h
      BY <1>5, <2>6
    <3>2. CASE s \in r.todo
      <4>1. s \in Rest(w)
        BY <2>6, <3>2 DEF Rest
      <4> QED
        BY <2>1, <2>2, <3>1, <3>2, <4>1 DEF Untouched, Written
    <3>3. CASE s \notin r.todo
      BY <2>1, <2>2, <2>3, <3>1, <3>3 DEF Untouched, Rest
    <3> QED
      BY <3>2, <3>3
  <2> QED
    BY <2>5, <2>6
<1>11. CASE r.at \in {"tombstone", "delete"}
  <2>1. /\ q.at \in {"delete", "register"}
        /\ r.at = "delete" => q.todo = Rest(w)
    BY <1>11 DEF PutGoes
  <2>2. CASE Written(q, s)
    <3>1. r.at = "delete" => s \in r.todo /\ s # Size(w)
      BY <2>1, <2>2 DEF Written, Rest
    <3>2. k = h /\ Written(r, s)
      BY <1>5, <1>11, <3>1 DEF Written
    <3> QED
      BY <1>6, <2>1, <3>2 DEF Untouched
  <2>3. CASE ~ Written(q, s)
    BY <2>1, <2>3 DEF Untouched
  <2> QED
    BY <2>2, <2>3
<1> QED
  BY <1>8, <1>9, <1>10, <1>11 DEF PutGoes

(* So a put that goes on stays as it should be.                            *)
LEMMA PutGoesOn ==
    ASSUME TypeInv, NEW w \in Busy, PutGoes(w), PutOK(w)
    PROVE  PutOK(w)'
<1>1. PICK d : d = reqs[w].call.doc
  OBVIOUS
<1>2. reqs'[w].call.doc = d /\ reqs'[w].was = reqs[w].was
  BY <1>1 DEF PutGoes, Onward
<1>3. reqs'[w].at \in PutPlaces
  BY DEF PutGoes, PutPlaces, AfterWrites
<1>4. reqs[w].at # "config" => meta = reqs[w].config /\ meta # None
  BY PutHas, NoneAssumption DEF PutOK, PutKnows, PutGoes
<1>5. meta # None /\ meta' = meta /\ meta' = reqs'[w].config
  <2>1. meta' = meta
    <3>1. PICK s : s \in Sizes
      BY GridAssumption
    <3> QED
      BY <1>1, <3>1, PutHolds
  <2>2. /\ reqs[w].at = "config" => meta # None /\ reqs'[w].config = meta
        /\ reqs[w].at # "config" => reqs'[w].config = reqs[w].config
    BY DEF PutGoes
  <2> QED
    BY <1>4, <2>1, <2>2
<1>6. meta.sizes \subseteq Sizes
  BY <1>5, MetaHas
<1>7. \A s \in meta.sizes : PutSees(reqs'[w], s, HeldAt(d, s)')
  BY <1>1, <1>5, <1>6, PutSeesOn
<1>8. \A old \in reqs[w].was \ {None} : \A s \in meta.sizes : GapSees(reqs'[w], s, old, HeldAt(d, s)')
  BY <1>1, <1>5, <1>6, GapSeesOn
<1> QED
  BY <1>2, <1>3, <1>5, <1>7, <1>8, PutIsOK

-----------------------------------------------------------------------------
(* What is promised, and what is known of whoever is at work.              *)

(* Nothing is promised of a document that somebody writes.                 *)
UnwrittenInv == \A d \in Docs : promised[d] # {} =>
    \A w \in Busy : ~ Writes(reqs[w].call, d)

(* A create that has found the name free, and is to save its config.       *)
InCreate(w) == w \in Busy /\ reqs[w].call.op = "create" /\ reqs[w].at \in Creating

(* Where a text is promised nobody is about to save another config.        *)
SettledInv == \A d \in Docs : promised[d] \ {None} # {} => \A w \in Workers : ~ InCreate(w)

(* The registry and the collections of the corpus hold that text.          *)
Serves(d, text) ==
    /\ meta # None
    /\ docs[d] = text
    /\ \A s \in meta.sizes : HeldAt(d, s) = Cut(d, text, s)

ServedInv == \A d \in Docs : \A c \in promised[d] \ {None} : Serves(d, c)

PutInv == \A w \in Busy : reqs[w].call.op = "put" /\ reqs[w].alone => PutOK(w)

PromiseInv == BaseInv /\ UnwrittenInv /\ SettledInv /\ ServedInv /\ PutInv

-----------------------------------------------------------------------------
(* Two calls that write one document disturb each other.                   *)
LEMMA WritersClash ==
    ASSUME NEW c, NEW e, NEW d, Writes(c, d), Writes(e, d)
    PROVE  Clash(c, e)
BY DEF Writes, Clash

(* What a step changes of what is promised: it keeps it, or it finishes a  *)
(* call that had no rival.                                                 *)
LEMMA PromiseChanges ==
    ASSUME TypeInv, BootInv, NEW w \in Workers, Acts(w), NEW d \in Docs, NEW c, c \in promised'[d]
    PROVE  /\ \/ c \in promised[d]
              \/ /\ reqs[w].alone /\ Finishes(w) /\ Writes(reqs[w].call, d)
                 /\ c = Content(reqs[w].call)
           /\ w \in Busy' =>
                 \/ ~ Writes(reqs'[w].call, d)
                 \/ promised' = promised /\ reqs'[w].call = reqs[w].call
<1>1. w \in Busy
  BY ActsGo
<1>2. CASE promised' = promised /\ reqs'[w].call = reqs[w].call
  BY <1>2
<1>3. ASSUME NEW kept, c \in kept[d]
      PROVE  kept \in {promised, Returned(w)} =>
                \/ c \in promised[d]
                \/ /\ reqs[w].alone /\ kept = Returned(w) /\ Writes(reqs[w].call, d)
                   /\ c = Content(reqs[w].call)
  BY <1>3 DEF Returned
<1>4. ASSUME NEW e, NEW rest, NEW kept, Enters(w, e, rest, kept)
      PROVE  c \in kept[d] /\ w \in Busy' /\ ~ Writes(reqs'[w].call, d)
  <2>1. reqs'[w].call = e /\ w \in Busy' /\ promised'[d] = IF Writes(e, d) THEN {} ELSE kept[d]
    BY <1>4, EntersHas
  <2> QED
    BY <2>1
<1>5. ASSUME NEW kept, Answers(w, kept)
      PROVE  c \in kept[d] /\ (w \in Busy' => ~ Writes(reqs'[w].call, d))
  <2>1. CASE Ends(w, kept)
    <3>1. reqs'[w] = None /\ promised' = kept
      BY <1>1, <2>1, BusyHas DEF Ends
    <3> QED
      BY <3>1 DEF Busy
  <2>2. CASE ~ Ends(w, kept)
    BY <1>4, <1>5, <2>2 DEF Answers
  <2> QED
    BY <2>1, <2>2
<1>6. CASE Answers(w, promised)
  BY <1>5, <1>6
<1>7. CASE Finishes(w) /\ Answers(w, Returned(w))
  BY <1>3, <1>5, <1>7
<1>8. CASE Opens(w)
  <2>1. \E e, rest : Enters(w, e, rest, promised)
    BY <1>1, <1>8, OpensHas
  <2> QED
    BY <1>4, <2>1
<1>9. CASE \/ BootGoes(w) \/ DownGoes(w) \/ PingGoes(w) \/ CreateGoes(w) \/ DropGoes(w)
           \/ PutGoes(w) \/ DeleteGoes(w)
  <2>1. Onward(w)
    BY <1>9 DEF BootGoes, DownGoes, PingGoes, CreateGoes, DropGoes, PutGoes, DeleteGoes, Steady
  <2> QED
    BY <1>2, <2>1 DEF Onward
<1> QED
  BY <1>6, <1>7, <1>8, <1>9, ActsGo

(* What is promised stays unwritten.                                       *)
LEMMA UnwrittenKept ==
    ASSUME TypeInv, BootInv, AloneInv, UnwrittenInv, [Next]_vars
    PROVE  UnwrittenInv'
<1> SUFFICES ASSUME NEW d \in Docs, NEW c, c \in promised'[d], NEW v \in Busy'
             PROVE  ~ Writes(reqs'[v].call, d)
  BY DEF UnwrittenInv
<1>0. v \in Workers
  BY DEF Busy
<1>1. CASE UNCHANGED vars
  BY <1>1 DEF vars, UnwrittenInv, Busy
<1>2. CASE Crash
  BY <1>2 DEF Crash, Busy
<1>3. ASSUME NEW w \in Workers, Begin(w) PROVE ~ Writes(reqs'[v].call, d)
  <2>1. PICK e : Enters(w, e, << >>, promised)
    BY <1>3, BeginEnters
  <2>2. /\ reqs'[w].call = e
        /\ promised'[d] = IF Writes(e, d) THEN {} ELSE promised[d]
    BY <2>1, EntersHas
  <2>3. v # w => v \in Busy /\ reqs'[v].call = reqs[v].call
    BY <1>0, <2>1, OthersUnderEnter DEF Same
  <2> QED
    BY <2>2, <2>3 DEF UnwrittenInv
<1>4. ASSUME NEW w \in Workers, Acts(w) PROVE ~ Writes(reqs'[v].call, d)
  <2>0. w \in Busy
    BY <1>4, ActsGo
  <2>1. /\ \/ c \in promised[d]
           \/ reqs[w].alone /\ Writes(reqs[w].call, d)
        /\ w \in Busy' =>
              \/ ~ Writes(reqs'[w].call, d)
              \/ promised' = promised /\ reqs'[w].call = reqs[w].call
    BY <1>4, PromiseChanges
  <2>2. v # w => v \in Busy /\ reqs'[v].call = reqs[v].call
    BY <1>0, <1>4, OthersStay DEF Same
  <2>3. CASE v = w
    BY <2>0, <2>1, <2>3 DEF UnwrittenInv
  <2>4. CASE v # w
    <3>1. reqs[w].alone => ~ Clash(reqs[v].call, reqs[w].call)
      BY <2>0, <2>2, <2>4 DEF AloneInv
    <3> QED
      BY <2>1, <2>2, <2>4, <3>1, WritersClash DEF UnwrittenInv
  <2> QED
    BY <2>3, <2>4
<1> QED
  BY <1>1, <1>2, <1>3, <1>4 DEF Next, Acts

(* A text that is promised goes on being served: nobody writes its         *)
(* document, and nobody is about to save or erase a config.                *)
LEMMA ServesOn ==
    ASSUME TypeInv, BootInv, UnwrittenInv, SettledInv, ServedInv, NEW w \in Workers, Acts(w),
           NEW d \in Docs, NEW c \in promised[d] \ {None}
    PROVE  Serves(d, c)'
<1>1. w \in Busy /\ ~ Writes(reqs[w].call, d) /\ ~ InCreate(w) /\ Serves(d, c)
  BY ActsGo DEF UnwrittenInv, SettledInv, ServedInv
<1>2. meta # None /\ meta' = meta
  <2>1. ~ (reqs[w].call.op = "create" /\ reqs[w].at = "save")
    BY <1>1 DEF InCreate, Creating
  <2>2. reqs[w].call.op # "drop"
    BY <1>1 DEF Writes
  <2> QED
    BY <1>1, <2>1, <2>2, ActsLeave DEF Serves
<1>3. docs'[d] = docs[d]
  <2>1. PICK s : s \in Sizes
    BY GridAssumption
  <2> QED
    BY <1>1, <2>1, ActsSpare
<1>4. \A s \in meta.sizes : HeldAt(d, s)' = HeldAt(d, s)
  BY <1>1, <1>2, ActsSpare, MetaHas
<1> QED
  BY <1>1, <1>2, <1>3, <1>4 DEF Serves

(* What a put without rivals leaves is served.                             *)
LEMMA ServesReturned ==
    ASSUME TypeInv, PutInv, NEW w \in Busy, Finishes(w), reqs[w].alone,
           NEW d \in Docs, NEW c, Writes(reqs[w].call, d), c = Content(reqs[w].call), c # None
    PROVE  Serves(d, c)'
<1>1. reqs[w].call.op = "put" /\ d = reqs[w].call.doc /\ c = reqs[w].call.text
  BY DEF Content, Writes
<1>2. reqs[w].at = "record" /\ WriteRecord(d, c)
  BY <1>1 DEF Finishes
<1>3. PutOK(w) /\ reqs[w].config \in Configs
  BY <1>1, <1>2, PutHas DEF PutInv
<1>4. /\ meta # None
      /\ \A s \in meta.sizes : HeldAt(d, s) = Cut(d, c, s)
  BY <1>1, <1>2, <1>3, NoneAssumption DEF PutOK, PutKnows, PutSees, Replaced, NewCut
<1>5. meta' = meta /\ \A s : HeldAt(d, s)' = HeldAt(d, s)
  BY <1>2 DEF WriteRecord, HeldAt, Held
<1>6. docs'[d] = c
  BY <1>2 DEF WriteRecord, TypeInv, TypeOK, StoreTypeOK
<1> QED
  BY <1>4, <1>5, <1>6 DEF Serves

(* Both, of what a call leaves promised when it is answered.               *)
LEMMA KeptServes ==
    ASSUME TypeInv, BootInv, UnwrittenInv, SettledInv, ServedInv, PutInv,
           NEW w \in Workers, Acts(w), NEW kept,
           kept = promised \/ (kept = Returned(w) /\ Finishes(w)),
           NEW d \in Docs, NEW c \in kept[d] \ {None}
    PROVE  Serves(d, c)'
<1>1. \/ c \in promised[d]
      \/ /\ reqs[w].alone /\ Finishes(w) /\ Writes(reqs[w].call, d)
         /\ c = Content(reqs[w].call)
  BY DEF Returned
<1>2. w \in Busy
  BY ActsGo
<1> QED
  BY <1>1, <1>2, ServesOn, ServesReturned

(* Every step keeps the promised texts served.                             *)
LEMMA ServedKept ==
    ASSUME TypeInv, BootInv, UnwrittenInv, SettledInv, ServedInv, PutInv, [Next]_vars
    PROVE  ServedInv'
<1> SUFFICES ASSUME NEW d \in Docs, NEW c \in promised'[d] \ {None}
             PROVE  Serves(d, c)'
  BY DEF ServedInv
<1>1. ASSUME UNCHANGED store, c \in promised[d] PROVE Serves(d, c)'
  <2>1. Serves(d, c)
    BY <1>1 DEF ServedInv
  <2> QED
    BY <1>1, <2>1 DEF Serves, store, HeldAt, Held
<1>2. CASE UNCHANGED vars \/ Crash
  BY <1>1, <1>2 DEF vars, Crash
<1>3. ASSUME NEW w \in Workers, Begin(w) PROVE Serves(d, c)'
  <2>1. UNCHANGED store /\ \E e : Enters(w, e, << >>, promised)
    BY <1>3, BeginEnters
  <2>2. c \in promised[d]
    BY <2>1, EntersHas
  <2> QED
    BY <1>1, <2>1, <2>2
<1>4. ASSUME NEW w \in Workers, Acts(w) PROVE Serves(d, c)'
  <2>1. \/ c \in promised[d]
        \/ /\ reqs[w].alone /\ Finishes(w) /\ Writes(reqs[w].call, d)
           /\ c = Content(reqs[w].call)
    BY <1>4, PromiseChanges
  <2>2. w \in Busy
    BY <1>4, ActsGo
  <2> QED
    BY <1>4, <2>1, <2>2, ServesOn, ServesReturned
<1> QED
  BY <1>2, <1>3, <1>4 DEF Next, Acts

(* How a create comes to the places past its look at the name.             *)
LEMMA CreateComes ==
    ASSUME TypeInv, BootInv, NEW w \in Workers, Acts(w), InCreate(w)'
    PROVE  CreateGoes(w) /\ (InCreate(w) \/ (reqs[w].at = "check" /\ meta = None))
<1>1. w \in Busy /\ w \in Busy' /\ reqs'[w].call.op = "create" /\ reqs'[w].at \in Creating
  BY ActsGo DEF InCreate
<1>2. ASSUME \E c \in ClientCalls : \E rest, kept : c.op = "put" /\ Enters(w, c, rest, kept)
      PROVE  FALSE
  BY <1>1, <1>2, EntersHas
<1>3. ~ (Answers(w, promised) \/ Answers(w, Returned(w)) \/ Opens(w))
  BY <1>1, <1>2, AnswersHas, OpensHas
<1>4. ~ (DownGoes(w) \/ PingGoes(w) \/ DropGoes(w) \/ PutGoes(w) \/ DeleteGoes(w))
  BY <1>1 DEF DownGoes, PingGoes, DropGoes, PutGoes, DeleteGoes, Steady, Onward
<1>5. ~ BootGoes(w)
  BY <1>1 DEF BootGoes, Booted, Creating, Steady, Onward
<1>6. CreateGoes(w)
  BY <1>3, <1>4, <1>5, ActsGo
<1> QED
  BY <1>1, <1>6 DEF CreateGoes, InCreate, Creating

(* No create is about to save its config where a text is promised.         *)
LEMMA SettledKept ==
    ASSUME TypeInv, BootInv, AloneInv, SettledInv, ServedInv, [Next]_vars
    PROVE  SettledInv'
<1> SUFFICES ASSUME NEW d \in Docs, NEW c \in promised'[d] \ {None}, NEW v \in Workers, InCreate(v)'
             PROVE  FALSE
  BY DEF SettledInv
<1>1. CASE UNCHANGED vars
  BY <1>1 DEF vars, SettledInv, Busy, InCreate
<1>2. CASE Crash
  BY <1>2 DEF Crash, Busy, InCreate
<1>3. ASSUME NEW w \in Workers, NEW v2 \in Busy, v2 # w, reqs'[v2].call = reqs[v2].call, reqs'[v2].at = reqs[v2].at
      PROVE  InCreate(v2)' => InCreate(v2)
  BY <1>3 DEF InCreate, Busy
<1>4. ASSUME NEW w \in Workers, Begin(w) PROVE FALSE
  <2>1. PICK e : Enters(w, e, << >>, promised)
    BY <1>4, BeginEnters
  <2>2. /\ reqs'[w].call = e /\ reqs'[w].at = Entry(e.op) /\ c \in promised[d]
    BY <2>1, EntersHas
  <2>3. v # w
    BY <2>2 DEF InCreate, Creating, Entry
  <2>4. v \in Busy /\ Same(v)
    BY <2>1, <2>3, OthersUnderEnter DEF InCreate
  <2> QED
    BY <1>3, <2>2, <2>3, <2>4 DEF SettledInv, Same
<1>5. ASSUME NEW w \in Workers, Acts(w) PROVE FALSE
  <2>0. w \in Busy
    BY <1>5, ActsGo
  <2>1. \/ c \in promised[d]
        \/ /\ reqs[w].alone /\ Finishes(w) /\ Writes(reqs[w].call, d)
           /\ c = Content(reqs[w].call)
    BY <1>5, PromiseChanges
  <2>2. CASE v # w
    <3>1. v \in Busy /\ reqs'[v].call = reqs[v].call /\ reqs'[v].at = reqs[v].at
      BY <1>5, <2>2, OthersStay DEF InCreate, Same
    <3>2. InCreate(v) /\ reqs[v].call.op = "create"
      BY <1>3, <1>5, <2>2, <3>1 DEF InCreate
    <3>3. c \notin promised[d]
      BY <3>2 DEF SettledInv
    <3>4. reqs[w].call.op = "put" /\ ~ Clash(reqs[v].call, reqs[w].call)
      BY <2>0, <2>1, <2>2, <3>1, <3>3 DEF Content, AloneInv
    <3> QED
      BY <3>2, <3>4 DEF Clash
  <2>3. CASE v = w
    <3>1. InCreate(w) \/ (reqs[w].at = "check" /\ meta = None)
      BY <1>5, <2>3, CreateComes
    <3>2. c \in promised[d]
      <4>1. reqs[w].call.op = "create"
        BY <1>5, <2>3, CreateComes DEF CreateGoes
      <4> QED
        BY <2>1, <4>1 DEF Content
    <3> QED
      BY <3>1, <3>2 DEF SettledInv, ServedInv, Serves
  <2> QED
    BY <2>2, <2>3
<1> QED
  BY <1>1, <1>2, <1>4, <1>5 DEF Next, Acts

(* A put knows the same as long as its record, the config and its          *)
(* document's points stay.                                                 *)
LEMMA PutUndisturbed ==
    ASSUME TypeInv, NEW v \in Busy, reqs[v].call.op = "put", PutOK(v), Same(v), meta' = meta,
           NEW d, d = reqs[v].call.doc,
           meta # None => \A s \in meta.sizes : HeldAt(d, s)' = HeldAt(d, s)
    PROVE  PutOK(v)'
<1> DEFINE r == reqs[v]
           q == reqs'[v]
<1>1. /\ q.at = r.at /\ q.call = r.call /\ q.config = r.config /\ q.old = r.old
      /\ q.todo = r.todo /\ q.was = r.was
  BY DEF Same
<1>2. r.at # "config" => meta # None
  BY PutHas, NoneAssumption DEF PutOK, PutKnows
<1>3. ASSUME NEW s, NEW h
      PROVE  PutSees(q, s, h) <=> PutSees(r, s, h)
  <2>1. NewCut(q, s) = NewCut(r, s) /\ Leftovers(q) = Leftovers(r)
    BY <1>1 DEF NewCut, Leftovers
  <2>2. (Rewrote(q, s, h) <=> Rewrote(r, s, h)) /\ (Knows(q, h) <=> Knows(r, h))
    BY <1>1, <2>1 DEF Rewrote, Knows
  <2>3. /\ Listed(q, s) <=> Listed(r, s)
        /\ Written(q, s) <=> Written(r, s)
        /\ Replaced(q, s) <=> Replaced(r, s)
    BY <1>1 DEF Listed, Written, Replaced
  <2> QED
    BY <2>1, <2>2, <2>3 DEF PutSees
<1>4. ASSUME NEW s, NEW h, NEW old
      PROVE  GapSees(q, s, old, h) <=> GapSees(r, s, old, h)
  <2>1. Merged(q, s, old) = Merged(r, s, old)
    BY <1>1 DEF Merged, NewCut
  <2> QED
    BY <1>1, <2>1 DEF GapSees, Untouched, Written
<1>5. /\ q.call.doc = d /\ q.at \in PutPlaces
      /\ q.at # "config" =>
            /\ meta' = q.config
            /\ \A s \in meta'.sizes : PutSees(r, s, HeldAt(d, s)')
      /\ \A old \in q.was \ {None} :
            meta' # None /\ \A s \in meta'.sizes : GapSees(r, s, old, HeldAt(d, s)')
  BY <1>1, <1>2 DEF PutOK, PutKnows, PutKeeps
<1> HIDE DEF r, q
<1>6. /\ q.at # "config" => \A s \in meta'.sizes : PutSees(q, s, HeldAt(d, s)')
      /\ \A old \in q.was \ {None} : \A s \in meta'.sizes : GapSees(q, s, old, HeldAt(d, s)')
  BY <1>3, <1>4, <1>5
<1> QED
  BY <1>5, <1>6, PutIsOK DEF q

(* A put that begins may count on what is promised of its document.        *)
LEMMA PutBegins ==
    ASSUME TypeInv, NEW w \in Workers, NEW c, NEW rest, NEW kept, Enters(w, c, rest, kept),
           c.op = "put", \A d \in Docs : \A t \in kept[d] \ {None} : Serves(d, t)'
    PROVE  PutOK(w)'
<1>1. /\ reqs'[w].call = c /\ reqs'[w].at = "config" /\ reqs'[w].was = kept[c.doc]
      /\ c.doc \in Docs
  BY EntersHas, CallHas DEF Entry, Enters
<1>2. PICK d : d = c.doc
  OBVIOUS
<1>3. ASSUME NEW old \in reqs'[w].was \ {None}
      PROVE  meta' # None /\ \A s \in meta'.sizes : GapSees(reqs'[w], s, old, HeldAt(d, s)')
  <2>1. Serves(d, old)'
    BY <1>1, <1>2, <1>3
  <2> QED
    BY <1>1, <1>2, <2>1 DEF Serves, GapSees, Untouched, Written
<1> QED
  BY <1>1, <1>2, <1>3, PutIsOK DEF PutPlaces

(* Nobody who does not clash with a put changes the config, or the points  *)
(* of its document.                                                        *)
LEMMA PutElsewhere ==
    ASSUME TypeInv, BootInv, AloneInv, PutInv, NEW w \in Workers, Acts(w),
           NEW v \in Busy \ {w}, reqs'[v].call.op = "put", reqs'[v].alone
    PROVE  PutOK(v)'
<1>1. w \in Busy /\ Same(v) /\ v \in Workers
  BY ActsGo, OthersStay DEF Busy
<1>2. reqs[v].call.op = "put" /\ reqs[v].alone /\ PutOK(v)
  BY <1>1 DEF Same, PutInv
<1>3. ~ Clash(reqs[w].call, reqs[v].call)
  BY <1>1, <1>2 DEF AloneInv
<1>4. PICK d : d = reqs[v].call.doc
  OBVIOUS
<1>5. d \in Docs
  BY <1>2, <1>4, PutHas
<1>6. reqs[w].call.op \notin {"create", "drop"} /\ ~ Writes(reqs[w].call, d)
  BY <1>2, <1>3, <1>4 DEF Clash, Writes
<1>7. meta' = meta
  BY <1>1, <1>6, ActsLeave
<1>8. meta # None => \A s \in meta.sizes : HeldAt(d, s)' = HeldAt(d, s)
  BY <1>1, <1>5, <1>6, ActsSpare, MetaHas
<1> QED
  BY <1>1, <1>2, <1>4, <1>7, <1>8, PutUndisturbed

(* So every put without rivals knows what it should.                       *)
LEMMA PutKept ==
    ASSUME TypeInv, BootInv, AloneInv, UnwrittenInv, SettledInv, ServedInv, PutInv, [Next]_vars
    PROVE  PutInv'
<1> SUFFICES ASSUME NEW v \in Busy', reqs'[v].call.op = "put", reqs'[v].alone
             PROVE  PutOK(v)'
  BY DEF PutInv
<1>0. v \in Workers
  BY DEF Busy
<1>1. ASSUME v \in Busy, Same(v), UNCHANGED store PROVE PutOK(v)'
  <2>1. reqs[v].call.op = "put" /\ PutOK(v)
    BY <1>1 DEF Same, PutInv
  <2>2. PICK d : d = reqs[v].call.doc
    OBVIOUS
  <2>3. meta' = meta /\ \A s : HeldAt(d, s)' = HeldAt(d, s)
    BY <1>1 DEF store, HeldAt, Held
  <2> QED
    BY <1>1, <2>1, <2>2, <2>3, PutUndisturbed
<1>2. CASE UNCHANGED vars
  BY <1>1, <1>2 DEF vars, Busy, Same
<1>3. CASE Crash
  BY <1>3 DEF Crash, Busy
<1>4. ASSUME NEW w \in Workers, Begin(w) PROVE PutOK(v)'
  <2>1. UNCHANGED store /\ \E c : Enters(w, c, << >>, promised)
    BY <1>4, BeginEnters
  <2>2. PICK c : Enters(w, c, << >>, promised)
    BY <2>1
  <2>3. CASE v = w
    <3>1. c.op = "put"
      BY <2>2, <2>3, EntersHas
    <3>2. \A d \in Docs : \A t \in promised[d] \ {None} : Serves(d, t)'
      BY <2>1 DEF ServedInv, Serves, store, HeldAt, Held
    <3> QED
      BY <2>2, <2>3, <3>1, <3>2, PutBegins
  <2>4. CASE v # w
    BY <1>0, <1>1, <2>1, <2>2, <2>4, OthersUnderEnter
  <2> QED
    BY <2>3, <2>4
<1>5. ASSUME NEW w \in Workers, Acts(w) PROVE PutOK(v)'
  <2>0. w \in Busy
    BY <1>5, ActsGo
  <2>1. CASE v # w
    <3>1. v \in Busy
      BY <1>0, <1>5, <2>1, OthersStay
    <3> QED
      BY <1>5, <2>1, <3>1, PutElsewhere
  <2>2. ASSUME v = w, NEW kept, kept = promised \/ (kept = Returned(w) /\ Finishes(w)),
               \E c, rest : c.op = "put" /\ Enters(w, c, rest, kept)
        PROVE  PutOK(v)'
    <3>1. \A d \in Docs : \A t \in kept[d] \ {None} : Serves(d, t)'
      BY <1>5, <2>2, KeptServes
    <3> QED
      BY <2>2, <3>1, PutBegins
  <2>3. CASE v = w /\ PutGoes(w)
    <3>1. PutOK(w)
      BY <2>0, <2>3 DEF PutInv, PutGoes, Onward
    <3> QED
      BY <2>0, <2>3, <3>1, PutGoesOn
  <2>4. CASE v = w /\ (BootGoes(w) \/ DownGoes(w) \/ PingGoes(w) \/ CreateGoes(w)
                       \/ DropGoes(w) \/ DeleteGoes(w))
    BY <2>4 DEF BootGoes, DownGoes, PingGoes, CreateGoes, DropGoes, DeleteGoes, Steady, Onward
  <2>5. CASE v = w /\ Answers(w, promised)
    BY <2>0, <2>2, <2>5, AnswersHas
  <2>6. CASE v = w /\ Finishes(w) /\ Answers(w, Returned(w))
    BY <2>0, <2>2, <2>6, AnswersHas
  <2>7. CASE v = w /\ Opens(w)
    BY <2>0, <2>2, <2>7, OpensHas
  <2> QED
    BY <1>5, <2>1, <2>3, <2>4, <2>5, <2>6, <2>7, ActsGo
<1> QED
  BY <1>2, <1>3, <1>4, <1>5 DEF Next, Acts

-----------------------------------------------------------------------------
(* At the start every size of the corpus has its collection.               *)
LEMMA InitHas ==
    ASSUME InitService, meta # None, NEW s \in Sizes, s \in meta.sizes
    PROVE  /\ colls[s] # None
           /\ colls[s].points =
                UNION {Points(d, docs[d], {s}) : d \in {e \in Docs : docs[e] # None}}
<1> DEFINE P == UNION {Points(d, docs[d], {s}) : d \in {e \in Docs : docs[e] # None}}
           k == [dim |-> meta.dim, indexed |-> TRUE, points |-> P]
<1>1. colls[s] = k
  BY DEF InitService
<1>2. meta \in Configs /\ docs \in [Docs -> Texts \cup {None}]
  BY ServiceAssumption DEF InitService
<1>3. P \in SUBSET SlicePoints(Texts)
  <2>1. ASSUME NEW d \in Docs, docs[d] # None
        PROVE  Points(d, docs[d], {s}) \subseteq SlicePoints(Texts)
    BY <1>2, <2>1, PointsTyped
  <2> QED
    BY <2>1
<1>4. k.points = P
  OBVIOUS
<1>5. k \in Collections(Texts, Configs)
  <2>1. meta.dim \in {c.dim : c \in Configs}
    BY <1>2
  <2> HIDE DEF P
  <2> QED
    BY <1>3, <2>1 DEF Collections
<1> HIDE DEF k
<1> QED
  BY <1>1, <1>4, <1>5, NoneAssumption

(* At the start the documents there are are promised, and served.          *)
LEMMA InitPromise ==
    ASSUME InitService
    PROVE  PromiseInv
<1>1. BaseInv /\ Busy = {} /\ \A w \in Workers : reqs[w] = None
  BY InitKinds DEF BaseInv, InitService, Busy
<1>2. UnwrittenInv /\ SettledInv /\ PutInv
  BY <1>1 DEF UnwrittenInv, SettledInv, PutInv, InCreate
<1>3. ASSUME NEW d \in Docs, NEW c \in promised[d] \ {None}
      PROVE  Serves(d, c)
  <2>1. c = docs[d] /\ c # None /\ meta # None
    BY <1>3 DEF InitService
  <2>2. ASSUME NEW s \in meta.sizes
        PROVE  HeldAt(d, s) = Cut(d, c, s)
    <3>1. s \in Sizes
      BY <1>1, <2>1, MetaHas DEF BaseInv
    <3>2. /\ colls[s] # None
          /\ colls[s].points =
               UNION {Points(e, docs[e], {s}) : e \in {f \in Docs : docs[f] # None}}
      BY <2>1, <3>1, InitHas
    <3>3. ASSUME NEW p \in Cut(d, c, s)
          PROVE  p \in Held(d, s)
      <4>1. p \in Points(d, docs[d], {s}) /\ docs[d] # None
        BY <2>1 DEF Cut
      <4>2. p.doc = d
        BY CutIs
      <4>3. p \in colls[s].points
        BY <3>2, <4>1
      <4> QED
        BY <4>2, <4>3 DEF Held
    <3>4. ASSUME NEW p \in Held(d, s)
          PROVE  p \in Cut(d, c, s)
      <4>1. PICK e \in Docs : docs[e] # None /\ p \in Points(e, docs[e], {s})
        BY <3>2 DEF Held
      <4>2. e = d
        BY <4>1, PointIs DEF Held
      <4> QED
        BY <2>1, <4>1, <4>2 DEF Cut
    <3> QED
      BY <3>2, <3>3, <3>4 DEF HeldAt
  <2> QED
    BY <2>1, <2>2 DEF Serves
<1> QED
  BY <1>1, <1>2, <1>3 DEF PromiseInv, ServedInv

(* What the stores hold of a document over a grid, size by size.           *)
LEMMA StoredIs ==
    ASSUME NEW d, NEW sizes, NEW p
    PROVE  p \in Stored(d, sizes) <=> \E s \in sizes : p \in HeldAt(d, s)
BY DEF Stored, HeldAt

(* The points of a text over a grid, size by size.                         *)
LEMMA PointsAreCuts ==
    ASSUME NEW d, NEW text, NEW sizes, NEW p
    PROVE  p \in Points(d, text, sizes) <=> \E s \in sizes : p \in Cut(d, text, s)
BY PointIs, PointsOfSize DEF OfSize

(* A put that knows what it should leaves no gap.                          *)
LEMMA NoGapHere ==
    ASSUME PutInv, NEW w \in Busy, NEW old \in reqs[w].was \ {None},
           reqs[w].call.op = "put", reqs[w].alone
    PROVE  LET doc == reqs[w].call.doc
               before == Points(doc, old, meta.sizes)
               after == Points(doc, reqs[w].call.text, meta.sizes)
               now == Stored(doc, meta.sizes)
           IN  /\ \E generation \in {before, after} : IdsOf(generation) \subseteq IdsOf(now)
               /\ now \subseteq before \cup after
<1> DEFINE r == reqs[w]
           doc == r.call.doc
           before == Points(doc, old, meta.sizes)
           after == Points(doc, r.call.text, meta.sizes)
           now == Stored(doc, meta.sizes)
<1>1. /\ r.at \in PutPlaces
      /\ \A s \in meta.sizes : GapSees(r, s, old, HeldAt(doc, s))
      /\ r.at # "config" => \A s \in meta.sizes : PutSees(r, s, HeldAt(doc, s))
  BY DEF PutInv, PutOK, PutKeeps, PutKnows
<1>2. ASSUME NEW s \in meta.sizes
      PROVE  /\ \/ HeldAt(doc, s) = Cut(doc, old, s)
                \/ HeldAt(doc, s) = Merged(r, s, old)
                \/ HeldAt(doc, s) = NewCut(r, s)
             /\ r.at \in {"config", "list", "scroll", "embed", "upsert", "write", "tombstone"} =>
                   \/ HeldAt(doc, s) = Cut(doc, old, s)
                   \/ HeldAt(doc, s) = Merged(r, s, old)
             /\ r.at \in {"delete", "register", "record"} => NewCut(r, s) \subseteq HeldAt(doc, s)
  <2>1. GapSees(r, s, old, HeldAt(doc, s)) /\ (r.at # "config" => PutSees(r, s, HeldAt(doc, s)))
    BY <1>1
  <2>2. Untouched(r, s) \/ Written(r, s) \/ Replaced(r, s)
    BY <1>1 DEF Untouched, Written, Replaced, PutPlaces
  <2>3. r.at \in {"config", "list", "scroll", "embed", "upsert", "write", "tombstone"} => ~ Replaced(r, s)
    BY DEF Replaced
  <2>4. r.at \in {"delete", "register", "record"} => ~ Untouched(r, s) /\ r.at # "config"
    BY DEF Untouched
  <2> HIDE DEF r, doc
  <2>5. /\ Untouched(r, s) => HeldAt(doc, s) = Cut(doc, old, s)
        /\ Written(r, s) => HeldAt(doc, s) = Merged(r, s, old)
        /\ r.at # "config" /\ Written(r, s) => NewCut(r, s) \subseteq HeldAt(doc, s)
        /\ r.at # "config" /\ Replaced(r, s) => HeldAt(doc, s) = NewCut(r, s)
    BY <2>1 DEF GapSees, PutSees, Rewrote, doc
  <2>6. Replaced(r, s) => r.at # "config"
    BY DEF Replaced
  <2> QED
    BY <2>2, <2>3, <2>4, <2>5, <2>6
<1>3. ASSUME NEW p \in now
      PROVE  p \in before \cup after
  <2>1. PICK s \in meta.sizes : p \in HeldAt(doc, s)
    BY StoredIs
  <2>2. p \in Cut(doc, old, s) \/ p \in NewCut(r, s)
    BY <1>2, <2>1 DEF Merged
  <2> QED
    BY <2>1, <2>2, PointsAreCuts DEF NewCut
<1>4. CASE r.at \in {"config", "list", "scroll", "embed", "upsert", "write", "tombstone"}
  <2>1. ASSUME NEW p \in before
        PROVE  Ref(p) \in IdsOf(now)
    <3>1. PICK s \in meta.sizes : p \in Cut(doc, old, s)
      BY PointsAreCuts
    <3>2. Ref(p) \in IdsOf(HeldAt(doc, s))
      BY <1>2, <1>4, <3>1 DEF IdsOf, Merged
    <3> QED
      BY <3>1, <3>2, StoredIs DEF IdsOf
  <2> QED
    BY <1>3, <2>1 DEF IdsOf
<1>5. CASE r.at \in {"delete", "register", "record"}
  <2>1. ASSUME NEW p \in after
        PROVE  p \in now
    <3>1. PICK s \in meta.sizes : p \in Cut(doc, r.call.text, s)
      BY PointsAreCuts
    <3>2. p \in HeldAt(doc, s)
      BY <1>2, <1>5, <3>1 DEF NewCut
    <3> QED
      BY <3>1, <3>2, StoredIs
  <2> QED
    BY <1>3, <2>1 DEF IdsOf
<1> QED
  BY <1>1, <1>4, <1>5 DEF PutPlaces

(* Whatever the clients do, and whatever fails: what is promised of a      *)
(* document is as the request at work on it knows it.                      *)
THEOREM PromiseInvariance == Spec => []PromiseInv
<1>1. InitService => PromiseInv
  BY InitPromise
<1>2. PromiseInv /\ BaseInv' /\ [Next]_vars => PromiseInv'
  BY UnwrittenKept, SettledKept, ServedKept, PutKept DEF PromiseInv, BaseInv
<1>3. Spec => []BaseInv
  BY Invariance
<1> QED
  BY <1>1, <1>2, <1>3, PTL DEF Spec

(* While a put without rivals replaces a document, a search finds the      *)
(* coordinates of a whole generation of it, and nothing but the two.       *)
THEOREM ReplaceLeavesNoGap == Spec => []NoGap
<1>1. PromiseInv => NoGap
  BY NoGapHere DEF PromiseInv, NoGap
<1> QED
  BY <1>1, PromiseInvariance, PTL

(* A text that was put without rivals is served, on every size of the      *)
(* corpus and without a point of another text, until a next call writes    *)
(* its document: whatever grids the other clients create.                  *)
TextsServed == \A d \in Docs : \A c \in promised[d] \ {None} :
    meta # None /\ docs[d] = c /\ Stored(d, meta.sizes) = Points(d, c, meta.sizes)

(* Under every interleaving and failure, texts put without rivals are      *)
(* served.                                                                 *)
THEOREM PutTextsAreServed == Spec => []TextsServed
<1>1. ASSUME PromiseInv, NEW d \in Docs, NEW c \in promised[d] \ {None}
      PROVE  meta # None /\ docs[d] = c /\ Stored(d, meta.sizes) = Points(d, c, meta.sizes)
  <2>1. Serves(d, c)
    BY <1>1 DEF PromiseInv, ServedInv
  <2>2. \A p : p \in Stored(d, meta.sizes) <=> p \in Points(d, c, meta.sizes)
    BY <2>1, StoredIs, PointsAreCuts DEF Serves
  <2> QED
    BY <2>1, <2>2 DEF Serves, Stored
<1>2. PromiseInv => TextsServed
  BY <1>1 DEF TextsServed
<1> QED
  BY <1>2, PromiseInvariance, PTL

-----------------------------------------------------------------------------
(* What is left of what was removed.                                       *)

(* A delete without rivals has emptied the sizes it is done with.          *)
DeleteSees(r, s, h) ==
    (r.at = "forget" \/ (r.at \in {"lookup", "read", "purge"} /\ s \notin r.todo)) => h = {}

DeleteOK(w) == reqs[w].at \in {"lookup", "read", "purge", "forget"} =>
    meta # None /\ \A s \in meta.sizes : DeleteSees(reqs[w], s, HeldAt(reqs[w].call.doc, s))

DeleteInv == \A w \in Busy : reqs[w].call.op = "delete" /\ reqs[w].alone => DeleteOK(w)

(* A drop without rivals has removed the collections it is done with, and  *)
(* the registry entries before it erases the config.                       *)
DropSees(r, s) == r.at \in {"clear", "erase"} \/ s \notin r.todo

DropOK(w) == reqs[w].at \in {"present", "remove", "clear", "erase"} =>
    /\ meta # None
    /\ \A s \in meta.sizes : DropSees(reqs[w], s) => colls[s] = None
    /\ reqs[w].at = "erase" => \A d \in Docs : docs[d] = None

DropInv == \A w \in Busy : reqs[w].call.op = "drop" /\ reqs[w].alone => DropOK(w)

(* The same after a step, of its document by name.                         *)
LEMMA DeleteIsOK ==
    ASSUME NEW w, NEW d, reqs'[w].call.doc = d,
           reqs'[w].at \in {"lookup", "read", "purge", "forget"} =>
              meta' # None /\ \A s \in meta'.sizes : DeleteSees(reqs'[w], s, HeldAt(d, s)')
    PROVE  DeleteOK(w)'
<1>1. \A s : HeldAt(reqs[w].call.doc, s)' = HeldAt(d, s)'
  BY DEF HeldAt, Held
<1> QED
  BY <1>1 DEF DeleteOK

(* A delete that goes on stays as it should be.                            *)
LEMMA DeleteGoesOn ==
    ASSUME TypeInv, NEW w \in Busy, DeleteGoes(w), DeleteOK(w)
    PROVE  DeleteOK(w)'
<1> DEFINE r == reqs[w]
           q == reqs'[w]
<1>1. PICK d : d = r.call.doc
  OBVIOUS
<1>2. q.call.doc = d /\ d \in Docs
  BY <1>1, BusyHas, CallHas DEF DeleteGoes, Onward, Requests
<1>3. CASE r.at \in {"config", "find"}
  <2>1. \/ q.at = "find"
        \/ /\ q.at = "lookup" /\ meta # None /\ q.todo = meta.sizes /\ meta' = meta
    BY <1>3 DEF DeleteGoes, store
  <2> QED
    BY <1>2, <2>1, DeleteIsOK DEF DeleteSees
<1>4. CASE r.at \in {"lookup", "read"}
  <2>1. q.at \in {"read", "purge"} /\ q.todo = r.todo /\ UNCHANGED store
    BY <1>4 DEF DeleteGoes
  <2>2. meta' = meta /\ \A s : HeldAt(d, s)' = HeldAt(d, s)
    BY <2>1 DEF store, HeldAt, Held
  <2>3. meta # None /\ \A s \in meta.sizes : DeleteSees(r, s, HeldAt(d, s))
    BY <1>1, <1>4 DEF DeleteOK
  <2>4. meta' # None /\ \A s \in meta'.sizes : DeleteSees(q, s, HeldAt(d, s)')
    BY <1>4, <2>1, <2>2, <2>3 DEF DeleteSees
  <2> QED
    BY <1>2, <2>4, DeleteIsOK
<1>5. CASE r.at = "purge"
  <2>1. PICK z : z = Size(w)
    OBVIOUS
  <2>2. /\ q.todo = Rest(w) /\ colls[z] # None
        /\ q.at = IF Rest(w) # {} THEN "purge" ELSE "forget"
        /\ DeleteByDocument(z, d)
    BY <1>1, <1>5, <2>1 DEF DeleteGoes
  <2>3. z \in Sizes
    BY <1>5, <2>1, BusyHas, SizeIsLeft DEF PlaceOK, Looping
  <2>4. meta' = meta
    BY <2>2 DEF DeleteByDocument
  <2>5. meta # None /\ \A s \in meta.sizes : DeleteSees(r, s, HeldAt(d, s))
    BY <1>1, <1>5 DEF DeleteOK
  <2>6. HeldAt(d, z)' = {}
    BY <1>2, <2>2, <2>3, PurgeHolds
  <2>7. ASSUME NEW s \in meta.sizes
        PROVE  DeleteSees(q, s, HeldAt(d, s)')
    <3>1. s \in Sizes
      BY <2>5, MetaHas
    <3>2. s # z => HeldAt(d, s)' = HeldAt(d, s)
      BY <1>2, <2>2, <2>3, <3>1, PurgeHolds
    <3>3. s \notin r.todo => HeldAt(d, s) = {}
      BY <1>5, <2>5 DEF DeleteSees
    <3>4. s \notin Rest(w) => s \notin r.todo \/ s = z
      BY <2>1 DEF Rest
    <3>5. s \notin Rest(w) => HeldAt(d, s)' = {}
      BY <2>6, <3>2, <3>3, <3>4
    <3> QED
      BY <2>2, <3>5 DEF DeleteSees
  <2> QED
    BY <1>2, <2>4, <2>5, <2>7, DeleteIsOK
<1> QED
  BY <1>3, <1>4, <1>5 DEF DeleteGoes

(* A drop that goes on stays as it should be.                              *)
LEMMA DropGoesOn ==
    ASSUME TypeInv, NEW w \in Busy, DropGoes(w), DropOK(w)
    PROVE  DropOK(w)'
<1> DEFINE r == reqs[w]
           q == reqs'[w]
<1>1. CASE r.at \in {"config", "reread"}
  <2>1. \/ q.at = "reread"
        \/ q.at = "present" /\ meta # None /\ q.todo = meta.sizes /\ meta' = meta
    BY <1>1 DEF DropGoes, store
  <2> QED
    BY <2>1 DEF DropOK, DropSees
<1>2. CASE r.at = "present" /\ UNCHANGED store
  <2>1. \/ q.at = "remove" /\ q.todo = r.todo
        \/ /\ q.at = (IF Rest(w) = {} THEN "clear" ELSE "present") /\ q.todo = Rest(w)
           /\ colls[Size(w)] = None
    BY <1>2 DEF DropGoes
  <2>2. meta' = meta /\ colls' = colls /\ docs' = docs
    BY <1>2 DEF store
  <2> QED
    BY <1>2, <2>1, <2>2 DEF DropOK, DropSees, Rest
<1>3. CASE r.at = "remove"
  <2>1. PICK z : z = Size(w)
    OBVIOUS
  <2>2. /\ q.at = (IF Rest(w) = {} THEN "clear" ELSE "present") /\ q.todo = Rest(w)
        /\ DeleteCollection(z)
    BY <1>3, <2>1 DEF DropGoes
  <2>3. /\ meta' = meta /\ docs' = docs
        /\ z \in Sizes
    BY <1>3, <2>1, <2>2, BusyHas, SizeIsLeft DEF DeleteCollection, PlaceOK, Looping
  <2>4. meta # None /\ \A s \in meta.sizes : s \notin r.todo => colls[s] = None
    BY <1>3 DEF DropOK, DropSees
  <2>5. \A s \in meta.sizes : s \notin Rest(w) => colls'[s] = None
    <3>1. ASSUME NEW s \in meta.sizes, s \notin Rest(w)
          PROVE  colls'[s] = None
      <4>1. s \in Sizes /\ (s = z \/ s \notin r.todo)
        BY <2>1, <2>4, <3>1, MetaHas DEF Rest
      <4> QED
        BY <2>2, <2>4, <4>1 DEF DeleteCollection, TypeInv, TypeOK, StoreTypeOK
    <3> QED
      BY <3>1
  <2> QED
    BY <2>2, <2>3, <2>4, <2>5 DEF DropOK, DropSees
<1>4. CASE r.at = "clear"
  <2>1. q.at = "erase" /\ PurgeRegistry
    BY <1>4 DEF DropGoes
  <2>2. meta # None /\ \A s \in meta.sizes : colls[s] = None
    BY <1>4 DEF DropOK, DropSees
  <2>3. meta' = meta /\ colls' = colls /\ \A d \in Docs : docs'[d] = None
    BY <2>1 DEF PurgeRegistry
  <2> QED
    BY <2>1, <2>2, <2>3 DEF DropOK
<1> QED
  BY <1>1, <1>2, <1>3, <1>4 DEF DropGoes

(* Nobody who does not clash with a delete or a drop changes what it did.  *)
LEMMA RemovalUndisturbed ==
    ASSUME TypeInv, NEW v \in Busy, Same(v), meta' = meta,
           reqs[v].call.op = "drop" => colls' = colls /\ docs' = docs,
           NEW d, d = reqs[v].call.doc,
           reqs[v].call.op = "delete" => \A s \in Sizes : HeldAt(d, s)' = HeldAt(d, s)
    PROVE  /\ reqs[v].call.op = "delete" /\ DeleteOK(v) => DeleteOK(v)'
           /\ reqs[v].call.op = "drop" /\ DropOK(v) => DropOK(v)'
<1> DEFINE r == reqs[v]
           q == reqs'[v]
<1>1. q.at = r.at /\ q.call = r.call /\ q.todo = r.todo
  BY DEF Same
<1>2. ASSUME r.call.op = "delete", DeleteOK(v)
      PROVE  DeleteOK(v)'
  <2>1. ASSUME q.at \in {"lookup", "read", "purge", "forget"}
        PROVE  meta' # None /\ \A s \in meta'.sizes : DeleteSees(q, s, HeldAt(d, s)')
    <3>1. meta # None /\ \A s \in meta.sizes : s \in Sizes /\ DeleteSees(r, s, HeldAt(d, s))
      BY <1>1, <1>2, <2>1, MetaHas DEF DeleteOK
    <3> QED
      BY <1>1, <1>2, <3>1 DEF DeleteSees
  <2> QED
    BY <1>1, <2>1, DeleteIsOK
<1>3. r.call.op = "drop" /\ DropOK(v) => DropOK(v)'
  BY <1>1 DEF DropOK, DropSees
<1> QED
  BY <1>2, <1>3

(* What others leave alone of it.                                          *)
LEMMA RemovalElsewhere ==
    ASSUME TypeInv, BootInv, AloneInv, DeleteInv, DropInv, NEW w \in Workers, Acts(w),
           NEW v \in Busy \ {w}, reqs'[v].alone
    PROVE  /\ reqs'[v].call.op = "delete" => DeleteOK(v)'
           /\ reqs'[v].call.op = "drop" => DropOK(v)'
<1> SUFFICES ASSUME reqs'[v].call.op \in {"delete", "drop"}
             PROVE  /\ reqs'[v].call.op = "delete" => DeleteOK(v)'
                    /\ reqs'[v].call.op = "drop" => DropOK(v)'
  OBVIOUS
<1>1. w \in Busy /\ Same(v) /\ v \in Workers
  BY ActsGo, OthersStay DEF Busy
<1>2. /\ reqs[v].call = reqs'[v].call /\ reqs[v].alone
      /\ reqs[v].call.op = "delete" => DeleteOK(v)
      /\ reqs[v].call.op = "drop" => DropOK(v)
  BY <1>1 DEF Same, DeleteInv, DropInv
<1>3. ~ Clash(reqs[w].call, reqs[v].call)
  BY <1>1, <1>2 DEF AloneInv
<1>4. meta' = meta
  BY <1>1, <1>2, <1>3, ActsLeave DEF Clash
<1>5. PICK d : d = reqs[v].call.doc
  OBVIOUS
<1>6. reqs[v].call.op = "delete" => \A s \in Sizes : HeldAt(d, s)' = HeldAt(d, s)
  <2>1. ASSUME reqs[v].call.op = "delete", NEW s \in Sizes
        PROVE  HeldAt(d, s)' = HeldAt(d, s)
    <3>1. d \in Docs
      BY <1>1, <1>5, <2>1, BusyHas, CallHas DEF Requests
    <3>2. ~ Writes(reqs[w].call, d)
      BY <1>3, <1>5, <2>1 DEF Clash, Writes
    <3> QED
      BY <1>1, <3>1, <3>2, ActsSpare
  <2> QED
    BY <2>1
<1>7. reqs[v].call.op = "drop" => colls' = colls /\ docs' = docs
  <2>1. reqs[v].call.op = "drop" => reqs[w].call.op \notin {"put", "delete", "create", "drop"}
    BY <1>3 DEF Clash
  <2>2. BootStores(w) \/ UNCHANGED store => colls' = colls /\ docs' = docs
    BY DEF BootStores, CreateRegistry, IndexRegistry, store
  <2> QED
    BY <2>1, <2>2, ActsStore DEF PutStores, DeleteStores, CreateStores, DropStores
<1> QED
  BY <1>1, <1>2, <1>4, <1>5, <1>6, <1>7, RemovalUndisturbed

(* So every delete and every drop without rivals has removed what it says. *)
LEMMA RemovalKept ==
    ASSUME TypeInv, BootInv, AloneInv, DeleteInv, DropInv, [Next]_vars
    PROVE  DeleteInv' /\ DropInv'
<1> SUFFICES ASSUME NEW v \in Busy', reqs'[v].alone
             PROVE  /\ reqs'[v].call.op = "delete" => DeleteOK(v)'
                    /\ reqs'[v].call.op = "drop" => DropOK(v)'
  BY DEF DeleteInv, DropInv
<1>0. v \in Workers
  BY DEF Busy
<1>1. ASSUME v \in Busy, Same(v), UNCHANGED store
      PROVE  /\ reqs'[v].call.op = "delete" => DeleteOK(v)'
             /\ reqs'[v].call.op = "drop" => DropOK(v)'
  <2>1. /\ reqs'[v].call = reqs[v].call
        /\ reqs[v].call.op = "delete" => DeleteOK(v)
        /\ reqs[v].call.op = "drop" => DropOK(v)
    BY <1>1 DEF Same, DeleteInv, DropInv
  <2>2. PICK d : d = reqs[v].call.doc
    OBVIOUS
  <2>3. meta' = meta /\ colls' = colls /\ docs' = docs /\ \A s : HeldAt(d, s)' = HeldAt(d, s)
    BY <1>1 DEF store, HeldAt, Held
  <2> QED
    BY <1>1, <2>1, <2>2, <2>3, RemovalUndisturbed
<1>2. CASE UNCHANGED vars
  BY <1>1, <1>2 DEF vars, Busy, Same
<1>3. CASE Crash
  BY <1>3 DEF Crash, Busy
<1>4. ASSUME NEW w \in Workers, NEW c, NEW rest, NEW kept, Enters(w, c, rest, kept)
      PROVE  DeleteOK(w)' /\ DropOK(w)'
  <2>1. reqs'[w].at \in {"probe", "ping", "config"}
    BY <1>4, EntersHas DEF Entry
  <2> QED
    BY <2>1 DEF DeleteOK, DropOK
<1>5. ASSUME NEW w \in Workers, Begin(w)
      PROVE  /\ reqs'[v].call.op = "delete" => DeleteOK(v)'
             /\ reqs'[v].call.op = "drop" => DropOK(v)'
  <2>1. UNCHANGED store /\ \E c : Enters(w, c, << >>, promised)
    BY <1>5, BeginEnters
  <2>2. PICK c : Enters(w, c, << >>, promised)
    BY <2>1
  <2>3. v # w => v \in Busy /\ Same(v)
    BY <1>0, <2>2, OthersUnderEnter
  <2> QED
    BY <1>1, <1>4, <2>1, <2>2, <2>3
<1>6. ASSUME NEW w \in Workers, Acts(w)
      PROVE  /\ reqs'[v].call.op = "delete" => DeleteOK(v)'
             /\ reqs'[v].call.op = "drop" => DropOK(v)'
  <2>0. w \in Busy
    BY <1>6, ActsGo
  <2>1. CASE v # w
    <3>1. v \in Busy
      BY <1>0, <1>6, <2>1, OthersStay
    <3> QED
      BY <1>6, <2>1, <3>1, RemovalElsewhere
  <2>2. CASE v = w /\ (Answers(w, promised) \/ Answers(w, Returned(w)) \/ Opens(w))
    BY <1>4, <2>0, <2>2, AnswersHas, OpensHas
  <2>3. CASE v = w /\ DeleteGoes(w)
    <3>1. reqs'[w].call = reqs[w].call /\ reqs[w].alone /\ reqs[w].call.op = "delete"
      BY <2>3 DEF DeleteGoes, Onward
    <3> QED
      BY <2>0, <2>3, <3>1, DeleteGoesOn DEF DeleteInv
  <2>4. CASE v = w /\ DropGoes(w)
    <3>1. reqs'[w].call = reqs[w].call /\ reqs[w].alone /\ reqs[w].call.op = "drop"
      BY <2>4 DEF DropGoes, Onward
    <3> QED
      BY <2>0, <2>4, <3>1, DropGoesOn DEF DropInv
  <2>5. CASE v = w /\ (BootGoes(w) \/ DownGoes(w) \/ PingGoes(w) \/ CreateGoes(w) \/ PutGoes(w))
    BY <2>5 DEF BootGoes, DownGoes, PingGoes, CreateGoes, PutGoes, Steady, Onward
  <2> QED
    BY <1>6, <2>1, <2>2, <2>3, <2>4, <2>5, ActsGo
<1> QED
  BY <1>2, <1>3, <1>5, <1>6 DEF Next, Acts

-----------------------------------------------------------------------------
(* What is promised to be gone is gone, as long as no collection outside   *)
(* the grid of the corpus has points.                                      *)

Outside == meta # None => \A s \in Sizes \ meta.sizes : \A d \in Docs : HeldAt(d, s) = {}

Cleared(d) == docs[d] = None /\ \A s \in Sizes : HeldAt(d, s) = {}

ClearedInv == \A d \in Docs : None \in promised[d] => Cleared(d)

(* What a delete or a drop without rivals leaves.                          *)
LEMMA ClearedReturned ==
    ASSUME TypeInv, DeleteInv, DropInv, Outside, NEW w \in Busy, Finishes(w), reqs[w].alone,
           NEW d \in Docs, Writes(reqs[w].call, d), Content(reqs[w].call) = None
    PROVE  Cleared(d)'
<1>1. reqs[w].call.op # "put"
  BY BusyHas, CallHas, NoneAssumption DEF Content, Requests
<1>2. CASE reqs[w].call.op = "delete"
  <2>1. reqs[w].at = "forget" /\ WriteRecord(d, None) /\ d = reqs[w].call.doc
    BY <1>2 DEF Finishes, Writes
  <2>2. meta # None /\ \A s \in meta.sizes : HeldAt(d, s) = {}
    BY <1>2, <2>1 DEF DeleteInv, DeleteOK, DeleteSees
  <2>3. \A s \in Sizes : HeldAt(d, s) = {}
    BY <2>2 DEF Outside
  <2>4. \A s : HeldAt(d, s)' = HeldAt(d, s)
    BY <2>1 DEF WriteRecord, HeldAt, Held
  <2>5. docs'[d] = None
    BY <2>1 DEF WriteRecord, TypeInv, TypeOK, StoreTypeOK
  <2> QED
    BY <2>3, <2>4, <2>5 DEF Cleared
<1>3. CASE reqs[w].call.op = "drop"
  <2>1. reqs[w].at = "erase" /\ WriteMeta(None)
    BY <1>3 DEF Finishes
  <2>2. meta # None /\ docs[d] = None /\ \A s \in meta.sizes : colls[s] = None
    BY <1>3, <2>1 DEF DropInv, DropOK, DropSees
  <2>3. \A s \in Sizes : HeldAt(d, s) = {}
    BY <2>2 DEF Outside, HeldAt
  <2>4. docs' = docs /\ \A s : HeldAt(d, s)' = HeldAt(d, s)
    BY <2>1 DEF WriteMeta, HeldAt, Held
  <2> QED
    BY <2>2, <2>3, <2>4 DEF Cleared
<1> QED
  BY <1>1, <1>2, <1>3 DEF Writes

(* Every step keeps the promised removals done, as long as no point lies   *)
(* outside its corpus.                                                     *)
LEMMA ClearedKept ==
    ASSUME TypeInv, BootInv, UnwrittenInv, DeleteInv, DropInv, ClearedInv, Outside, [Next]_vars
    PROVE  ClearedInv'
<1> SUFFICES ASSUME NEW d \in Docs, None \in promised'[d]
             PROVE  Cleared(d)'
  BY DEF ClearedInv
<1>1. ASSUME UNCHANGED store, None \in promised[d] PROVE Cleared(d)'
  <2>1. Cleared(d)
    BY <1>1 DEF ClearedInv
  <2> QED
    BY <1>1, <2>1 DEF Cleared, store, HeldAt, Held
<1>2. CASE UNCHANGED vars \/ Crash
  BY <1>1, <1>2 DEF vars, Crash
<1>3. ASSUME NEW w \in Workers, Begin(w) PROVE Cleared(d)'
  <2>1. UNCHANGED store /\ \E e : Enters(w, e, << >>, promised)
    BY <1>3, BeginEnters
  <2>2. None \in promised[d]
    BY <2>1, EntersHas
  <2> QED
    BY <1>1, <2>1, <2>2
<1>4. ASSUME NEW w \in Workers, Acts(w) PROVE Cleared(d)'
  <2>1. \/ None \in promised[d]
        \/ /\ reqs[w].alone /\ Finishes(w) /\ Writes(reqs[w].call, d)
           /\ None = Content(reqs[w].call)
    BY <1>4, PromiseChanges
  <2>2. w \in Busy
    BY <1>4, ActsGo
  <2>3. CASE None \in promised[d]
    <3>1. Cleared(d) /\ ~ Writes(reqs[w].call, d)
      BY <2>2, <2>3 DEF ClearedInv, UnwrittenInv
    <3>2. docs'[d] = docs[d]
      <4>1. PICK s : s \in Sizes
        BY GridAssumption
      <4> QED
        BY <1>4, <2>2, <3>1, <4>1, ActsSpare
    <3>3. \A s \in Sizes : HeldAt(d, s)' = HeldAt(d, s)
      BY <1>4, <2>2, <3>1, ActsSpare
    <3> QED
      BY <3>1, <3>2, <3>3 DEF Cleared
  <2>4. CASE None \notin promised[d]
    BY <2>1, <2>2, <2>4, ClearedReturned
  <2> QED
    BY <2>3, <2>4
<1> QED
  BY <1>2, <1>3, <1>4 DEF Next, Acts

(* What is known of the removals.                                          *)
RemovalInv == DeleteInv /\ DropInv /\ ClearedInv

(* Before any call, the documents that were never put have nothing stored. *)
LEMMA InitRemoval ==
    ASSUME InitService
    PROVE  RemovalInv
<1>1. Busy = {} /\ TypeInv
  BY InitKinds DEF InitService, Busy
<1>2. ASSUME NEW d \in Docs, None \in promised[d]
      PROVE  Cleared(d)
  <2>1. docs[d] = None
    BY <1>2 DEF InitService
  <2>2. ASSUME NEW s \in Sizes, NEW p \in HeldAt(d, s)
        PROVE  FALSE
    <3>1. colls[s] # None /\ p \in colls[s].points /\ p.doc = d
      BY <2>2 DEF HeldAt, Held
    <3>2. meta # None /\ s \in meta.sizes
      BY <3>1 DEF InitService
    <3>3. PICK e \in Docs : docs[e] # None /\ p \in Points(e, docs[e], {s})
      BY <3>1, <3>2, InitHas
    <3>4. p.doc = e
      BY <3>3, PointIs
    <3> QED
      BY <2>1, <3>1, <3>3, <3>4
  <2> QED
    BY <2>1, <2>2 DEF Cleared
<1> QED
  BY <1>1, <1>2 DEF RemovalInv, DeleteInv, DropInv, ClearedInv

(* All that is promised is so while nothing is outside.                    *)
LEMMA PromisesStand ==
    ASSUME ServedInv, ClearedInv, Outside, TypeInv
    PROVE  PromiseKept
<1> SUFFICES ASSUME NEW d \in Docs, NEW c \in promised[d]
             PROVE  /\ docs[d] = c
                    /\ Stored(d, Sizes) = IF c = None THEN {} ELSE Points(d, c, meta.sizes)
  BY DEF PromiseKept
<1>1. CASE c = None
  <2>1. Cleared(d)
    BY <1>1 DEF ClearedInv
  <2>2. \A p : p \notin Stored(d, Sizes)
    BY <2>1, StoredIs DEF Cleared
  <2> QED
    BY <1>1, <2>1, <2>2 DEF Cleared, Stored
<1>2. CASE c # None
  <2>1. Serves(d, c) /\ meta.sizes \subseteq Sizes
    BY <1>2, MetaHas DEF ServedInv, Serves
  <2>2. \A s \in Sizes \ meta.sizes : HeldAt(d, s) = {}
    BY <2>1 DEF Outside, Serves
  <2>3. ASSUME NEW p
        PROVE  p \in Stored(d, Sizes) <=> p \in Points(d, c, meta.sizes)
    BY <2>1, <2>2, StoredIs, PointsAreCuts DEF Serves
  <2> QED
    BY <1>2, <2>1, <2>3 DEF Serves, Stored
<1> QED
  BY <1>1, <1>2

(* So every promise is kept, of deletes and drops as well as of puts, as   *)
(* long as there are no points outside the grid of the corpus.             *)
THEOREM PromisesWithin == Spec /\ []Outside => []PromiseKept
<1>1. InitService => RemovalInv
  BY InitRemoval
<1>2. PromiseInv /\ Outside /\ RemovalInv /\ [Next]_vars => RemovalInv'
  BY RemovalKept, ClearedKept DEF PromiseInv, BaseInv, RemovalInv
<1>3. PromiseInv /\ Outside /\ RemovalInv => PromiseKept
  BY PromisesStand DEF PromiseInv, BaseInv, RemovalInv
<1> QED
  BY <1>1, <1>2, <1>3, PromiseInvariance, PTL DEF Spec

-----------------------------------------------------------------------------
(* Clients that agree on one grid leave nothing outside it.                *)

(* All creates ask for the grid G.                                         *)
CreatesOn(G) == \A w \in Workers : \A c \in Menu[w] : c.op = "create" => c.config.sizes = G

(* A drop that knows which collections it has to remove.                   *)
InDrop(w) ==
    /\ w \in Busy /\ reqs[w].call.op = "drop"
    /\ reqs[w].at \in {"present", "remove", "clear", "erase"}

(* Collections of other sizes are those of the config there was at first:  *)
(* the drop that erases it removes them all, and nobody makes them again.  *)
AskG(G) == \A w \in Busy : reqs[w].call.op = "create" => reqs[w].call.config.sizes = G

MakeG(G) == \A w \in Workers : InCreate(w) => reqs[w].todo \subseteq G

StrayG(G) == \A s \in Sizes \ G : colls[s] # None => meta # None /\ s \in meta.sizes

FirstG(G) == (meta # None /\ meta.sizes # G) =>
    /\ \A s \in Sizes \ meta.sizes : colls[s] = None
    /\ \A w \in Workers : ~ InCreate(w)

DropG(G) == \A w \in Workers : InDrop(w) =>
    \A s \in Sizes \ G : colls[s] # None =>
        s \in reqs[w].todo /\ reqs[w].at \in {"present", "remove"}

GridInv(G) == AskG(G) /\ MakeG(G) /\ StrayG(G) /\ FirstG(G) /\ DropG(G)

(* The requests of others stand where they stood.                          *)
LEMMA OthersStand ==
    ASSUME NEW v \in Workers, v \in Busy' <=> v \in Busy, v \in Busy => Same(v)
    PROVE  /\ InCreate(v)' <=> InCreate(v)
           /\ InDrop(v)' <=> InDrop(v)
           /\ v \in Busy => reqs'[v].todo = reqs[v].todo /\ reqs'[v].at = reqs[v].at
                            /\ reqs'[v].call = reqs[v].call
BY DEF InCreate, InDrop, Same

(* How a drop comes to where it knows its collections.                     *)
LEMMA DropComes ==
    ASSUME TypeInv, BootInv, NEW w \in Workers, Acts(w), InDrop(w)'
    PROVE  DropGoes(w)
<1>1. w \in Busy /\ w \in Busy' /\ reqs'[w].call.op = "drop"
  BY ActsGo DEF InDrop
<1>2. ASSUME \E c \in ClientCalls : \E rest, kept : c.op = "put" /\ Enters(w, c, rest, kept)
      PROVE  FALSE
  BY <1>1, <1>2, EntersHas
<1>3. ~ (Answers(w, promised) \/ Answers(w, Returned(w)) \/ Opens(w))
  BY <1>1, <1>2, AnswersHas, OpensHas
<1>4. ~ (BootGoes(w) \/ DownGoes(w) \/ PingGoes(w) \/ CreateGoes(w) \/ PutGoes(w) \/ DeleteGoes(w))
  BY <1>1 DEF BootGoes, DownGoes, PingGoes, CreateGoes, PutGoes, DeleteGoes, Steady, Onward
<1> QED
  BY <1>3, <1>4, ActsGo

(* A call that begins asks for G, and makes and drops nothing yet.         *)
LEMMA GridEntered ==
    ASSUME NEW G, TypeInv, GridInv(G), NEW w \in Workers, NEW c, NEW rest, NEW kept,
           Enters(w, c, rest, kept), c.op = "create" => c.config.sizes = G
    PROVE  /\ AskG(G)'
           /\ \A v \in Workers : /\ InCreate(v)' => InCreate(v) /\ reqs'[v].todo = reqs[v].todo
                                 /\ InDrop(v)' => InDrop(v) /\ reqs'[v].todo = reqs[v].todo
                                                  /\ reqs'[v].at = reqs[v].at
<1>1. /\ reqs'[w].call = c /\ reqs'[w].at \in {"probe", "ping", "config"}
  BY EntersHas DEF Entry
<1>2. ~ InCreate(w)' /\ ~ InDrop(w)'
  BY <1>1 DEF InCreate, InDrop, Creating
<1>3. \A v \in Workers \ {w} : (v \in Busy' <=> v \in Busy) /\ (v \in Busy => Same(v))
  BY OthersUnderEnter
<1>4. AskG(G)'
  BY <1>1, <1>3 DEF GridInv, AskG, Busy, Same
<1> QED
  BY <1>2, <1>3, <1>4, OthersStand DEF InCreate, InDrop

(* A step makes no collection outside G.                                   *)
LEMMA MadeOnGrid ==
    ASSUME NEW G, TypeInv, BootInv, GridInv(G), NEW w \in Workers, Acts(w), Docs # {}, NEW s \in Sizes,
           colls'[s] # None
    PROVE  \/ colls[s] # None
           \/ InCreate(w) /\ s \in G
<1>1. PICK d : d \in Docs
  OBVIOUS
<1>2. w \in Busy
  BY ActsGo
<1>3. \/ colls[s] # None
      \/ reqs[w].call.op = "create" /\ reqs[w].at = "make" /\ s = Size(w)
  BY <1>1, <1>2, ActsSpare
<1>4. ASSUME reqs[w].call.op = "create", reqs[w].at = "make", s = Size(w)
      PROVE  InCreate(w) /\ s \in G
  <2>1. InCreate(w)
    BY <1>2, <1>4 DEF InCreate, Creating
  <2>2. Size(w) \in reqs[w].todo
    BY <1>2, <1>4, BusyHas, SizeIsLeft DEF PlaceOK, Looping
  <2> QED
    BY <1>4, <2>1, <2>2 DEF GridInv, MakeG
<1> QED
  BY <1>3, <1>4

(* The parts of the grid invariant after a step of a request.              *)
LEMMA StrayOn ==
    ASSUME NEW G, TypeInv, BootInv, GridInv(G), NEW w \in Workers, Acts(w), Docs # {}
    PROVE  StrayG(G)'
<1> SUFFICES ASSUME NEW s \in Sizes \ G, colls'[s] # None
             PROVE  meta' # None /\ s \in meta'.sizes
  BY DEF StrayG
<1>1. w \in Busy
  BY ActsGo
<1>2. colls[s] # None
  BY MadeOnGrid
<1>3. meta # None /\ s \in meta.sizes
  BY <1>2 DEF GridInv, StrayG
<1>4. ~ InCreate(w)
  <2>1. meta.sizes # G
    BY <1>3
  <2> QED
    BY <1>3, <2>1 DEF GridInv, FirstG
<1>5. ~ (reqs[w].call.op = "create" /\ reqs[w].at = "save")
  BY <1>1, <1>4 DEF InCreate, Creating
<1>6. ~ (reqs[w].call.op = "drop" /\ reqs[w].at = "erase")
  <2>1. InDrop(w) => reqs[w].at \in {"present", "remove"}
    BY <1>2 DEF GridInv, DropG
  <2> QED
    BY <1>1, <2>1 DEF InDrop
<1> QED
  BY <1>1, <1>3, <1>5, <1>6, ActsLeave

(* A corpus of another grid, there from the start, stays without strays.   *)
LEMMA FirstOn ==
    ASSUME NEW G, TypeInv, BootInv, GridInv(G), NEW w \in Workers, Acts(w), Docs # {}
    PROVE  FirstG(G)'
<1> SUFFICES ASSUME meta' # None, meta'.sizes # G
             PROVE  /\ \A s \in Sizes \ meta'.sizes : colls'[s] = None
                    /\ \A v \in Workers : ~ InCreate(v)'
  BY DEF FirstG
<1>1. w \in Busy
  BY ActsGo
<1>2. meta' = meta
  <2>1. reqs[w].call.op = "create" => reqs[w].call.config.sizes = G
    BY <1>1 DEF GridInv, AskG
  <2> QED
    BY <1>1, <2>1, ActsLeave
<1>3. /\ \A s \in Sizes \ meta.sizes : colls[s] = None
      /\ \A v \in Workers : ~ InCreate(v)
  BY <1>2 DEF GridInv, FirstG
<1>4. \A s \in Sizes \ meta.sizes : colls'[s] = None
  BY <1>3, MadeOnGrid
<1>5. ~ InCreate(w)'
  BY <1>2, <1>3, CreateComes
<1>6. \A v \in Workers \ {w} : ~ InCreate(v)'
  BY <1>3, OthersStay, OthersStand
<1> QED
  BY <1>2, <1>4, <1>5, <1>6

(* A drop on its way has left behind no collection outside the grid.       *)
LEMMA DropOn ==
    ASSUME NEW G, TypeInv, BootInv, GridInv(G), NEW w \in Workers, Acts(w), Docs # {}
    PROVE  DropG(G)'
<1> SUFFICES ASSUME NEW v \in Workers, InDrop(v)', NEW s \in Sizes \ G, colls'[s] # None
             PROVE  s \in reqs'[v].todo /\ reqs'[v].at \in {"present", "remove"}
  BY DEF DropG
<1>1. w \in Busy
  BY ActsGo
<1>2. colls[s] # None
  BY MadeOnGrid
<1>3. InDrop(v) => s \in reqs[v].todo /\ reqs[v].at \in {"present", "remove"}
  BY <1>2 DEF GridInv, DropG
<1>4. CASE v # w
  <2>1. InDrop(v) /\ reqs'[v].todo = reqs[v].todo /\ reqs'[v].at = reqs[v].at
    BY <1>4, OthersStay, OthersStand DEF InDrop
  <2> QED
    BY <1>3, <2>1
<1>5. CASE v = w
  <2>1. DropGoes(w) /\ reqs'[w].at \in {"present", "remove", "clear", "erase"}
    BY <1>5, DropComes DEF InDrop
  <2>2. CASE reqs[w].at = "reread"
    <3>1. reqs'[w].at = "present" /\ reqs'[w].todo = meta.sizes
      BY <2>1, <2>2 DEF DropGoes
    <3> QED
      BY <1>2, <1>5, <3>1 DEF GridInv, StrayG
  <2>3. CASE reqs[w].at \in {"present", "remove", "clear"}
    <3>1. s \in reqs[w].todo /\ reqs[w].at \in {"present", "remove"}
      BY <1>1, <1>3, <1>5, <2>1, <2>3 DEF InDrop, DropGoes
    <3>2. CASE reqs'[w].at = "remove" /\ reqs'[w].todo = reqs[w].todo
      BY <1>5, <3>1, <3>2
    <3>3. CASE /\ reqs'[w].at = (IF Rest(w) = {} THEN "clear" ELSE "present")
               /\ reqs'[w].todo = Rest(w)
               /\ (reqs[w].at = "present" /\ colls[Size(w)] = None)
                     \/ (reqs[w].at = "remove" /\ DeleteCollection(Size(w)))
      <4>1. s # Size(w)
        BY <1>2, <3>3 DEF DeleteCollection, TypeInv, TypeOK, StoreTypeOK
      <4>2. s \in Rest(w)
        BY <3>1, <4>1 DEF Rest
      <4> QED
        BY <1>5, <3>3, <4>2
    <3> QED
      BY <2>1, <3>1, <3>2, <3>3 DEF DropGoes
  <2> QED
    BY <2>1, <2>2, <2>3 DEF DropGoes
<1> QED
  BY <1>4, <1>5

(* Creates make collections of the grid only.                              *)
LEMMA MakeOn ==
    ASSUME NEW G, TypeInv, BootInv, GridInv(G), NEW w \in Workers, Acts(w)
    PROVE  MakeG(G)' /\ AskG(G)'
<1>1. w \in Busy
  BY ActsGo
<1>2. \A v \in Workers \ {w} : (v \in Busy' <=> v \in Busy) /\ (v \in Busy => Same(v))
  BY OthersStay
<1>3. ASSUME InCreate(w)'
      PROVE  reqs'[w].todo \subseteq G
  <2>1. CreateGoes(w) /\ (InCreate(w) \/ (reqs[w].at = "check" /\ meta = None))
    BY <1>3, CreateComes
  <2>2. reqs[w].call.config.sizes = G
    BY <1>1, <2>1 DEF CreateGoes, GridInv, AskG
  <2>3. InCreate(w) => reqs[w].todo \subseteq G
    BY DEF GridInv, MakeG
  <2> QED
    BY <1>3, <2>1, <2>2, <2>3 DEF CreateGoes, Rest, InCreate, Creating
<1>4. MakeG(G)'
  <2>1. ASSUME NEW v \in Workers \ {w}, InCreate(v)'
        PROVE  reqs'[v].todo \subseteq G
    <3>1. InCreate(v) /\ reqs'[v].todo = reqs[v].todo
      BY <1>2, <2>1, OthersStand DEF InCreate
    <3> QED
      BY <3>1 DEF GridInv, MakeG
  <2> QED
    BY <1>3, <2>1 DEF MakeG
<1>5. ASSUME w \in Busy', reqs'[w].call.op = "create"
      PROVE  reqs'[w].call.config.sizes = G
  <2>1. ASSUME \E c \in ClientCalls : \E rest, kept : c.op = "put" /\ Enters(w, c, rest, kept)
        PROVE  FALSE
    BY <1>5, <2>1, EntersHas
  <2>2. ~ (Answers(w, promised) \/ Answers(w, Returned(w)) \/ Opens(w))
    BY <1>1, <1>5, <2>1, AnswersHas, OpensHas
  <2>3. reqs'[w].call = reqs[w].call
    BY <2>2, ActsGo DEF BootGoes, DownGoes, PingGoes, CreateGoes, DropGoes, PutGoes, DeleteGoes,
                        Steady, Onward
  <2> QED
    BY <1>1, <1>5, <2>3 DEF GridInv, AskG
<1>6. AskG(G)'
  <2>1. ASSUME NEW v \in Busy', v # w
        PROVE  v \in Busy /\ reqs'[v].call = reqs[v].call
    BY <1>2, <2>1, OthersStand DEF Busy, Same
  <2> QED
    BY <1>5, <2>1 DEF GridInv, AskG
<1> QED
  BY <1>4, <1>6

(* Every step keeps the collections on the grid.                           *)
LEMMA GridKept ==
    ASSUME NEW G, CreatesOn(G), TypeInv, BootInv, GridInv(G), Docs # {}, [Next]_vars
    PROVE  GridInv(G)'
<1>1. CASE UNCHANGED vars
  BY <1>1 DEF vars, store, GridInv, AskG, MakeG, StrayG, FirstG, DropG, InCreate, InDrop, Busy
<1>2. CASE Crash
  <2>1. Busy' = {} /\ UNCHANGED store
    BY <1>2 DEF Crash, Busy
  <2> QED
    BY <2>1 DEF store, GridInv, AskG, MakeG, StrayG, FirstG, DropG, InCreate, InDrop
<1>3. ASSUME NEW w \in Workers, Begin(w) PROVE GridInv(G)'
  <2>1. UNCHANGED store /\ \E c \in Menu[w] : Enters(w, c, << >>, promised)
    BY <1>3, BeginEnters
  <2>2. /\ AskG(G)'
        /\ \A v \in Workers : /\ InCreate(v)' => InCreate(v) /\ reqs'[v].todo = reqs[v].todo
                              /\ InDrop(v)' => InDrop(v) /\ reqs'[v].todo = reqs[v].todo
                                               /\ reqs'[v].at = reqs[v].at
    BY <2>1, GridEntered DEF CreatesOn
  <2>3. meta' = meta /\ colls' = colls
    BY <2>1 DEF store
  <2>4. StrayG(G)' /\ FirstG(G)'
    BY <2>2, <2>3 DEF GridInv, StrayG, FirstG
  <2>5. MakeG(G)'
    BY <2>2 DEF GridInv, MakeG
  <2>6. DropG(G)'
    BY <2>2, <2>3 DEF GridInv, DropG
  <2> QED
    BY <2>2, <2>4, <2>5, <2>6 DEF GridInv
<1>4. ASSUME NEW w \in Workers, Acts(w) PROVE GridInv(G)'
  BY <1>4, StrayOn, FirstOn, DropOn, MakeOn DEF GridInv
<1> QED
  BY <1>1, <1>2, <1>3, <1>4 DEF Next, Acts

(* Before any call, the collections are those of the corpus.               *)
LEMMA InitGrid ==
    ASSUME NEW G, InitService
    PROVE  GridInv(G)
<1>1. \A w \in Workers : w \notin Busy
  BY DEF InitService, Busy
<1>2. \A s \in Sizes : colls[s] # None => meta # None /\ s \in meta.sizes
  BY DEF InitService
<1> QED
  BY <1>1, <1>2 DEF GridInv, AskG, MakeG, StrayG, FirstG, DropG, InCreate, InDrop, Busy

(* Then no collection is outside the grid of the corpus.                   *)
LEMMA OnGridNothingOutside ==
    ASSUME NEW G, GridInv(G)
    PROVE  Outside
BY DEF GridInv, StrayG, FirstG, Outside, HeldAt

(* Clients that create the corpus always with the same grid may do what    *)
(* they like at the same time, and keep every promise: content that was    *)
(* put, deleted or dropped without a rival is what the store holds, on     *)
(* whatever grid the corpus there was at first.                            *)
THEOREM PromisesOnOneGrid ==
    ASSUME NEW G, CreatesOn(G)
    PROVE  Spec => []PromiseKept
<1>1. CASE Docs = {}
  <2>1. PromiseKept
    BY <1>1 DEF PromiseKept
  <2> QED
    BY <2>1, PTL
<1>2. CASE Docs # {}
  <2>1. InitService => GridInv(G)
    BY InitGrid
  <2>2. BaseInv /\ GridInv(G) /\ [Next]_vars => GridInv(G)'
    BY <1>2, GridKept DEF BaseInv
  <2>3. GridInv(G) => Outside
    BY OnGridNothingOutside
  <2> QED
    BY <2>1, <2>2, <2>3, Invariance, PromisesWithin, PTL DEF Spec
<1> QED
  BY <1>1, <1>2

-----------------------------------------------------------------------------
(* Creates and drops that no rival meets leave nothing outside the corpus, *)
(* whatever grids they ask for.                                            *)

Unrivalled == \A w \in Busy : reqs[w].call.op \in {"create", "drop"} => reqs[w].alone

(* Then a put writes on the grid of the corpus, ...                        *)
WriterOK(w) == reqs[w].call.op = "put" /\ reqs[w].at # "config" =>
    /\ meta = reqs[w].config
    /\ reqs[w].at = "write" => reqs[w].todo \subseteq meta.sizes

WritersInv == \A w \in Busy : WriterOK(w)

(* ... a create that makes collections makes them for a free name, ...     *)
MakerInv == \A w \in Workers : InCreate(w) => meta = None

(* ... and collections that are no part of the corpus hold no points.      *)
InsideInv == \A s \in Sizes : (meta = None \/ s \notin meta.sizes) =>
    \A d \in Docs : HeldAt(d, s) = {}

QuietInv == WritersInv /\ MakerInv /\ InsideInv

(* Who changes the config is beside batches and health checks only.        *)
LEMMA MetaStays ==
    ASSUME TypeInv, BootInv, AloneInv, Unrivalled, NEW w \in Workers, Acts(w), meta' # meta,
           NEW v \in Busy \ {w}
    PROVE  reqs[v].call.op \notin {"put", "delete", "create", "drop"}
<1>1. w \in Busy
  BY ActsGo
<1>2. reqs[w].call.op \in {"create", "drop"}
  BY <1>1, ActsLeave
<1>3. ~ Clash(reqs[v].call, reqs[w].call)
  BY <1>1, <1>2 DEF Unrivalled, AloneInv
<1> QED
  BY <1>2, <1>3 DEF Clash

(* A put writes on the grid of the corpus.                                 *)
LEMMA WritersKept ==
    ASSUME TypeInv, BootInv, AloneInv, Unrivalled, WritersInv, [Next]_vars
    PROVE  WritersInv'
<1> SUFFICES ASSUME NEW v \in Busy', reqs'[v].call.op = "put", reqs'[v].at # "config"
             PROVE  /\ meta' = reqs'[v].config
                    /\ reqs'[v].at = "write" => reqs'[v].todo \subseteq meta'.sizes
  BY DEF WritersInv, WriterOK
<1>0. v \in Workers
  BY DEF Busy
<1>1. ASSUME v \in Busy, Same(v), meta' = meta
      PROVE  /\ meta' = reqs'[v].config
             /\ reqs'[v].at = "write" => reqs'[v].todo \subseteq meta'.sizes
  BY <1>1 DEF Same, WritersInv, WriterOK
<1>2. CASE UNCHANGED vars
  BY <1>1, <1>2 DEF vars, store, Busy, Same
<1>3. CASE Crash
  BY <1>3 DEF Crash, Busy
<1>4. ASSUME NEW w \in Workers, NEW c, NEW rest, NEW kept, Enters(w, c, rest, kept)
      PROVE  v # w
  BY <1>4, EntersHas DEF Entry
<1>5. CASE \E w \in Workers : Begin(w)
  <2>1. PICK w \in Workers : Begin(w)
    BY <1>5
  <2>2. UNCHANGED store /\ \E c : Enters(w, c, << >>, promised)
    BY <2>1, BeginEnters
  <2>3. PICK c : Enters(w, c, << >>, promised)
    BY <2>2
  <2>4. v # w
    BY <1>4, <2>3
  <2>5. v \in Busy /\ Same(v)
    BY <1>0, <2>3, <2>4, OthersUnderEnter
  <2> QED
    BY <1>1, <2>2, <2>5 DEF store
<1>6. ASSUME NEW w \in Workers, Acts(w)
      PROVE  /\ meta' = reqs'[v].config
             /\ reqs'[v].at = "write" => reqs'[v].todo \subseteq meta'.sizes
  <2>0. w \in Busy
    BY <1>6, ActsGo
  <2>1. CASE v # w
    <3>1. v \in Busy /\ Same(v)
      BY <1>0, <1>6, <2>1, OthersStay
    <3>2. meta' = meta
      BY <1>6, <2>1, <3>1, MetaStays DEF Same
    <3> QED
      BY <1>1, <3>1, <3>2
  <2>2. CASE v = w /\ (Answers(w, promised) \/ Answers(w, Returned(w)) \/ Opens(w))
    BY <1>4, <2>0, <2>2, AnswersHas, OpensHas
  <2>3. CASE v = w /\ PutGoes(w)
    <3>1. WriterOK(w) /\ reqs[w].call.op = "put" /\ Rest(w) \subseteq reqs[w].todo
      BY <2>0, <2>3 DEF WritersInv, PutGoes, Rest
    <3>2. meta' = meta
      BY <2>3 DEF PutGoes, store, UpsertPoints, DeleteIds
    <3>3. reqs[w].at # "config" => reqs'[w].config = reqs[w].config
      BY <2>3 DEF PutGoes
    <3>4. reqs[w].at = "config" => reqs'[w].config = meta /\ reqs'[w].at = "list"
      BY <2>3 DEF PutGoes
    <3>5. reqs'[w].at = "write" => \/ reqs[w].at = "upsert" /\ reqs'[w].todo = reqs[w].config.sizes
                                   \/ reqs[w].at = "write" /\ reqs'[w].todo = Rest(w)
      BY <2>3 DEF PutGoes, AfterWrites
    <3> QED
      BY <2>3, <3>1, <3>2, <3>3, <3>4, <3>5 DEF WriterOK
  <2>4. CASE v = w /\ (BootGoes(w) \/ DownGoes(w) \/ PingGoes(w) \/ CreateGoes(w)
                       \/ DropGoes(w) \/ DeleteGoes(w))
    BY <2>4 DEF BootGoes, DownGoes, PingGoes, CreateGoes, DropGoes, DeleteGoes, Steady, Onward
  <2> QED
    BY <1>6, <2>1, <2>2, <2>3, <2>4, ActsGo
<1> QED
  BY <1>2, <1>3, <1>5, <1>6 DEF Next, Acts

(* A create makes collections for a free name.                             *)
LEMMA MakerKept ==
    ASSUME TypeInv, BootInv, AloneInv, Unrivalled, MakerInv, [Next]_vars
    PROVE  MakerInv'
<1> SUFFICES ASSUME NEW v \in Workers, InCreate(v)'
             PROVE  meta' = None
  BY DEF MakerInv
<1>1. CASE UNCHANGED vars
  BY <1>1 DEF vars, store, MakerInv, InCreate, Busy
<1>2. CASE Crash
  BY <1>2 DEF Crash, InCreate, Busy
<1>3. CASE \E w \in Workers : Begin(w)
  <2>1. PICK w \in Workers : Begin(w)
    BY <1>3
  <2>2. UNCHANGED store /\ \E c : Enters(w, c, << >>, promised)
    BY <2>1, BeginEnters
  <2>3. PICK c : Enters(w, c, << >>, promised)
    BY <2>2
  <2>4. v # w
    BY <2>3, EntersHas DEF InCreate, Creating, Entry
  <2>5. InCreate(v)
    BY <2>3, <2>4, OthersUnderEnter, OthersStand
  <2> QED
    BY <2>2, <2>5 DEF MakerInv, store
<1>4. ASSUME NEW w \in Workers, Acts(w)
      PROVE  meta' = None
  <2>1. CASE v # w
    <3>1. InCreate(v)
      BY <1>4, <2>1, OthersStay, OthersStand
    <3>2. meta' = meta
      BY <1>4, <2>1, <3>1, MetaStays DEF InCreate
    <3> QED
      BY <3>1, <3>2 DEF MakerInv
  <2>2. CASE v = w
    <3>1. CreateGoes(w) /\ meta = None
      BY <1>4, <2>2, CreateComes DEF MakerInv
    <3>2. meta' = meta
      BY <2>2, <3>1 DEF InCreate, Creating, CreateGoes, store, CreateCollection, CreateIndex
    <3> QED
      BY <3>1, <3>2
  <2> QED
    BY <2>1, <2>2
<1> QED
  BY <1>1, <1>2, <1>3, <1>4 DEF Next, Acts

(* A change of the config strands no points.                               *)
LEMMA InsideChanged ==
    ASSUME TypeInv, BootInv, Unrivalled, DropInv, MakerInv, InsideInv,
           NEW w \in Workers, Acts(w), meta' # meta, NEW s \in Sizes, NEW d \in Docs
    PROVE  HeldAt(d, s)' = {}
<1>1. w \in Busy
  BY ActsGo
<1>2. \/ /\ reqs[w].call.op = "create" /\ reqs[w].at = "save"
      \/ reqs[w].call.op = "drop" /\ reqs[w].at = "erase"
  BY <1>1, ActsLeave
<1>3. HeldAt(d, s)' = HeldAt(d, s)
  <2>1. colls' = colls
    BY <1>2, ActsStore DEF store, PutStores, DeleteStores, CreateStores, DropStores, BootStores,
                           WriteMeta
  <2> QED
    BY <2>1 DEF HeldAt, Held
<1>4. CASE reqs[w].call.op = "create" /\ reqs[w].at = "save"
  <2>1. meta = None
    BY <1>1, <1>4 DEF MakerInv, InCreate, Creating
  <2> QED
    BY <1>3, <2>1 DEF InsideInv
<1>5. CASE reqs[w].call.op = "drop" /\ reqs[w].at = "erase"
  <2>1. meta # None /\ \A z \in meta.sizes : colls[z] = None
    BY <1>1, <1>5 DEF Unrivalled, DropInv, DropOK, DropSees
  <2>2. s \in meta.sizes => HeldAt(d, s) = {}
    BY <2>1 DEF HeldAt
  <2> QED
    BY <1>3, <2>2 DEF InsideInv
<1> QED
  BY <1>2, <1>4, <1>5

(* Nobody adds points outside the corpus.                                  *)
LEMMA InsideUnchanged ==
    ASSUME TypeInv, BootInv, WritersInv, InsideInv, NEW w \in Workers, Acts(w),
           NEW s \in Sizes, meta = None \/ s \notin meta.sizes, NEW d \in Docs
    PROVE  HeldAt(d, s)' = {}
<1>1. w \in Busy /\ HeldAt(d, s) = {}
  BY ActsGo DEF InsideInv
<1>2. PICK z : z = Size(w)
  OBVIOUS
<1>3. reqs[w].at \in {"write", "delete", "purge", "make", "index", "remove"} => z \in Sizes /\ z \in reqs[w].todo
  BY <1>1, <1>2, BusyHas, SizeIsLeft DEF PlaceOK, Looping
<1>4. ASSUME colls' = colls
      PROVE  HeldAt(d, s)' = {}
  BY <1>1, <1>4 DEF HeldAt, Held
<1>5. CASE PutStores(w)
  <2>1. CASE reqs[w].at = "write" /\ colls[z] # None /\ UpsertPoints(z, OfSize(New(w), z))
    <3>1. reqs[w].call.op = "put"
      BY <1>5 DEF PutStores
    <3>2. z # s
      BY <1>1, <1>3, <2>1, <3>1, PutHas, NoneAssumption DEF WritersInv, WriterOK
    <3>3. HeldAt(d, s)' = HeldAt(d, s)
      BY <1>1, <1>3, <2>1, <3>1, <3>2, UpsertHolds
    <3> QED
      BY <1>1, <3>3
  <2>2. CASE /\ reqs[w].at = "delete" /\ colls[z] # None
             /\ DeleteIds(z, OfSize(Orphans(w, reqs[w].old), z))
    <3>1. reqs[w].call.op = "put"
      BY <1>5 DEF PutStores
    <3>2. HeldAt(d, s)' \subseteq HeldAt(d, s)
      BY <1>1, <1>3, <2>2, <3>1, DeleteHolds
    <3> QED
      BY <1>1, <3>2
  <2>3. CASE reqs[w].at = "record"
    BY <1>4, <1>5, <2>3 DEF PutStores, WriteRecord
  <2> QED
    BY <1>2, <1>5, <2>1, <2>2, <2>3 DEF PutStores
<1>6. CASE DeleteStores(w)
  <2>1. CASE reqs[w].at = "purge" /\ colls[z] # None /\ DeleteByDocument(z, reqs[w].call.doc)
    <3>1. HeldAt(d, s)' \subseteq HeldAt(d, s)
      BY <1>3, <2>1, PurgeHolds
    <3> QED
      BY <1>1, <3>1
  <2>2. CASE reqs[w].at = "forget"
    BY <1>4, <1>6, <2>2 DEF DeleteStores, WriteRecord
  <2> QED
    BY <1>2, <1>6, <2>1, <2>2 DEF DeleteStores
<1>7. CASE CreateStores(w)
  <2>1. CASE reqs[w].at = "save"
    BY <1>4, <1>7, <2>1 DEF CreateStores, WriteMeta
  <2>2. CASE reqs[w].at \in {"make", "index"}
    <3>1. PICK c \in Configs : c = reqs[w].call.config
      BY <1>1, <1>7, BusyHas, CallHas DEF CreateStores, Requests
    <3>2. \/ colls[z] = None /\ CreateCollection(z, c.dim)
          \/ colls[z] # None /\ CreateIndex(z)
      BY <1>2, <1>7, <2>2, <3>1 DEF CreateStores
    <3>3. HeldAt(d, s)' = HeldAt(d, s)
      BY <1>3, <2>2, <3>2, MakeHolds
    <3> QED
      BY <1>1, <3>3
  <2> QED
    BY <1>7, <2>1, <2>2 DEF CreateStores
<1>8. CASE DropStores(w)
  <2>1. CASE reqs[w].at = "remove" /\ DeleteCollection(z)
    BY <1>1, <1>3, <2>1, RemoveHolds
  <2>2. CASE reqs[w].at \in {"clear", "erase"}
    BY <1>4, <1>8, <2>2 DEF DropStores, PurgeRegistry, WriteMeta
  <2> QED
    BY <1>2, <1>8, <2>1, <2>2 DEF DropStores
<1>9. CASE BootStores(w) \/ UNCHANGED store
  BY <1>4, <1>9 DEF BootStores, CreateRegistry, IndexRegistry, store
<1> QED
  BY <1>5, <1>6, <1>7, <1>8, <1>9, ActsStore

(* So every step keeps the points inside the corpus.                       *)
LEMMA InsideKept ==
    ASSUME TypeInv, BootInv, Unrivalled, DropInv, WritersInv, MakerInv, InsideInv, [Next]_vars
    PROVE  InsideInv'
<1> SUFFICES ASSUME NEW s \in Sizes, meta' = None \/ s \notin meta'.sizes, NEW d \in Docs
             PROVE  HeldAt(d, s)' = {}
  BY DEF InsideInv
<1>1. ASSUME UNCHANGED store
      PROVE  HeldAt(d, s)' = {}
  BY <1>1 DEF store, InsideInv, HeldAt, Held
<1>2. CASE UNCHANGED vars
  BY <1>1, <1>2 DEF vars
<1>3. CASE Crash
  BY <1>1, <1>3 DEF Crash
<1>4. ASSUME NEW w \in Workers, Begin(w)
      PROVE  HeldAt(d, s)' = {}
  BY <1>1, <1>4, BeginEnters
<1>5. ASSUME NEW w \in Workers, Acts(w)
      PROVE  HeldAt(d, s)' = {}
  BY <1>5, InsideChanged, InsideUnchanged
<1> QED
  BY <1>2, <1>3, <1>4, <1>5 DEF Next, Acts

(* Before any call, all points are those of the corpus.                    *)
LEMMA InitQuiet ==
    ASSUME InitService
    PROVE  QuietInv
<1>1. \A w \in Workers : w \notin Busy
  BY DEF InitService, Busy
<1>2. \A s \in Sizes : colls[s] # None => meta # None /\ s \in meta.sizes
  BY DEF InitService
<1>3. InsideInv
  BY <1>2 DEF InsideInv, HeldAt
<1>4. WritersInv /\ MakerInv
  BY <1>1 DEF WritersInv, MakerInv, InCreate, Busy
<1> QED
  BY <1>3, <1>4 DEF QuietInv

(* Clients that do not overlap a create or a drop with another call keep   *)
(* every promise, whatever grids they create the corpus with and whatever  *)
(* failed before: puts and deletes may overlap as they like.               *)
THEOREM PromisesUnlessCreatesRace == Spec /\ []Unrivalled => []PromiseKept
<1>1. InitService => RemovalInv /\ QuietInv
  BY InitRemoval, InitQuiet
<1>2. QuietInv => Outside
  BY DEF QuietInv, InsideInv, Outside
<1>3. PromiseInv /\ RemovalInv /\ Unrivalled /\ QuietInv /\ [Next]_vars => RemovalInv' /\ QuietInv'
  <2> SUFFICES ASSUME PromiseInv, RemovalInv, Unrivalled, QuietInv, [Next]_vars
               PROVE  RemovalInv' /\ QuietInv'
    OBVIOUS
  <2>1. TypeInv /\ BootInv /\ AloneInv /\ UnwrittenInv /\ DeleteInv /\ DropInv /\ ClearedInv
    BY DEF PromiseInv, BaseInv, RemovalInv
  <2>2. RemovalInv'
    BY <1>2, <2>1, RemovalKept, ClearedKept DEF RemovalInv
  <2>3. QuietInv'
    BY <2>1, WritersKept, MakerKept, InsideKept DEF QuietInv
  <2> QED
    BY <2>2, <2>3
<1>4. PromiseInv /\ Outside /\ RemovalInv => PromiseKept
  BY PromisesStand DEF PromiseInv, BaseInv, RemovalInv
<1> QED
  BY <1>1, <1>2, <1>3, <1>4, PromiseInvariance, PTL DEF Spec

-----------------------------------------------------------------------------
(* A client that is the only one meets no rival.                           *)

SoleInv == \A w \in Busy : reqs[w].alone

(* A call that is entered beside no other is alone.                        *)
LEMMA EntersAlone ==
    ASSUME TypeInv, NEW w \in Workers, NEW c, NEW rest, NEW kept, Enters(w, c, rest, kept),
           Busy \ {w} = {}
    PROVE  reqs'[w].alone
<1> DEFINE rivals == {v \in Busy \ {w} : Clash(reqs[v].call, c)}
           r == [call |-> c, at |-> Entry(c.op), rest |-> rest, config |-> None,
                 todo |-> {}, old |-> {}, ok |-> TRUE, alone |-> rivals = {},
                 since |-> IF c.op = "health" THEN faults ELSE 0,
                 was |-> IF c.op = "put" THEN kept[c.doc] ELSE {}]
<1>1. reqs'[w] = r
  BY DEF Enters, Enter
<1>2. r.alone <=> rivals = {}
  OBVIOUS
<1>3. rivals = {}
  OBVIOUS
<1> QED
  BY <1>1, <1>2, <1>3

(* Every step keeps it so.                                                 *)
LEMMA SoleKept ==
    ASSUME \A v, w \in Workers : v = w, TypeInv, BootInv, SoleInv, [Next]_vars
    PROVE  SoleInv'
<1> SUFFICES ASSUME NEW v \in Busy'
             PROVE  reqs'[v].alone
  BY DEF SoleInv
<1>0. v \in Workers /\ Busy \ {v} = {}
  BY DEF Busy
<1>1. CASE UNCHANGED vars
  BY <1>1 DEF vars, SoleInv, Busy
<1>2. CASE Crash
  BY <1>2 DEF Crash, Busy
<1>3. ASSUME NEW w \in Workers, NEW c, NEW rest, NEW kept, Enters(w, c, rest, kept)
      PROVE  reqs'[v].alone
  <2>1. v = w
    BY <1>0
  <2> QED
    BY <1>0, <1>3, <2>1, EntersAlone
<1>4. ASSUME NEW w \in Workers, Begin(w)
      PROVE  reqs'[v].alone
  BY <1>3, <1>4, BeginEnters
<1>5. ASSUME NEW w \in Workers, Acts(w)
      PROVE  reqs'[v].alone
  <2>0. w \in Busy /\ v = w
    BY <1>0, <1>5, ActsGo
  <2>1. CASE Answers(w, promised) \/ Answers(w, Returned(w)) \/ Opens(w)
    BY <1>3, <2>0, <2>1, AnswersHas, OpensHas
  <2>2. CASE BootGoes(w) \/ DownGoes(w) \/ PingGoes(w) \/ CreateGoes(w) \/ DropGoes(w)
             \/ PutGoes(w) \/ DeleteGoes(w)
    <3>1. reqs'[w].alone = reqs[w].alone
      BY <2>2 DEF BootGoes, DownGoes, PingGoes, CreateGoes, DropGoes, PutGoes, DeleteGoes,
                  Steady, Onward
    <3> QED
      BY <2>0, <3>1 DEF SoleInv
  <2> QED
    BY <1>5, <2>1, <2>2, ActsGo
<1> QED
  BY <1>1, <1>2, <1>4, <1>5 DEF Next, Acts

(* So one client, calling whatever it likes one after the other, never has *)
(* rivals.                                                                 *)
LEMMA OneClientIsUnrivalled ==
    ASSUME \A v, w \in Workers : v = w
    PROVE  Spec => []Unrivalled
<1>1. InitService => SoleInv
  BY DEF InitService, SoleInv, Busy
<1>2. BaseInv /\ SoleInv /\ [Next]_vars => SoleInv'
  BY SoleKept DEF BaseInv
<1>3. SoleInv => Unrivalled
  BY DEF SoleInv, Unrivalled
<1> QED
  BY <1>1, <1>2, <1>3, Invariance, PTL DEF Spec

(* Content that the calls of a single client have put, deleted or dropped  *)
(* is what the store holds, whatever grids it creates the corpus with, and *)
(* whatever failed or crashed on the way.                                  *)
THEOREM PromisesOfOneClient ==
    ASSUME \A v, w \in Workers : v = w
    PROVE  Spec => []PromiseKept
BY OneClientIsUnrivalled, PromisesUnlessCreatesRace, PTL

-----------------------------------------------------------------------------
(* A corpus that is created without rivals has the collections it names.   *)

(* Sizes a create is done with, or whose collection it has just made.      *)
MadeSees(r, s) ==
    \/ r.at = "save"
    \/ r.at \in Creating /\ s \notin r.todo
    \/ r.at = "index" /\ s = Min(r.todo)

MadeOK(w) == InCreate(w) =>
    \A s \in reqs[w].call.config.sizes : MadeSees(reqs[w], s) => colls[s] # None

MadeInv == \A w \in Workers : MadeOK(w)

(* What making or indexing a collection does to the collections.           *)
LEMMA MakeLeaves ==
    ASSUME TypeInv, NEW z \in Sizes, NEW c \in Configs,
           CreateCollection(z, c.dim) \/ (colls[z] # None /\ CreateIndex(z))
    PROVE  /\ colls'[z] # None /\ colls'[z].dim \in {c.dim, colls[z].dim}
           /\ colls[z] = None => colls'[z].dim = c.dim
           /\ \A s \in Sizes \ {z} : colls'[s] = colls[s]
<1>0. colls \in [Sizes -> Collections(Texts, Configs) \cup {None}]
  BY DEF TypeInv, TypeOK, StoreTypeOK
<1>1. CASE CreateCollection(z, c.dim)
  <2>1. PICK k : k = [dim |-> c.dim, indexed |-> FALSE, points |-> {}]
    OBVIOUS
  <2>2. colls' = [colls EXCEPT ![z] = k]
    BY <1>1, <2>1 DEF CreateCollection
  <2>3. k \in Collections(Texts, Configs) /\ k.dim = c.dim
    BY <2>1 DEF Collections
  <2> QED
    BY <1>0, <2>2, <2>3, NoneAssumption
<1>2. CASE colls[z] # None /\ CreateIndex(z)
  <2>1. PICK k : k = [colls[z] EXCEPT !.indexed = TRUE]
    OBVIOUS
  <2>2. colls' = [colls EXCEPT ![z] = k]
    BY <1>2, <2>1 DEF CreateIndex
  <2>3. k \in Collections(Texts, Configs) /\ k.dim = colls[z].dim
    BY <1>0, <1>2, <2>1 DEF Collections
  <2> QED
    BY <1>0, <1>2, <2>2, <2>3, NoneAssumption
<1> QED
  BY <1>1, <1>2

(* Only creates and drops make collections come and go.                    *)
LEMMA NoneStays ==
    ASSUME TypeInv, BootInv, NEW w \in Workers, Acts(w), NEW s \in Sizes,
           reqs[w].call.op \notin {"create", "drop"}
    PROVE  colls'[s] = None <=> colls[s] = None
<1>1. w \in Busy
  BY ActsGo
<1>2. CASE reqs[w].call.op \in {"put", "delete"}
  <2>1. PICK d \in Docs : d = reqs[w].call.doc
    BY <1>1, <1>2, BusyHas, CallHas DEF Requests
  <2> QED
    BY <1>1, <1>2, ActsSpare
<1>3. CASE reqs[w].call.op \notin {"put", "delete"}
  <2>1. BootStores(w) \/ UNCHANGED store
    BY <1>3, ActsStore DEF PutStores, DeleteStores, CreateStores, DropStores
  <2>2. colls' = colls
    BY <2>1 DEF BootStores, CreateRegistry, IndexRegistry, store
  <2> QED
    BY <2>2
<1> QED
  BY <1>2, <1>3

(* A create that goes on stays as it should be.                            *)
LEMMA MadeGoesOn ==
    ASSUME TypeInv, NEW w \in Busy, CreateGoes(w), MadeOK(w), InCreate(w)',
           InCreate(w) \/ reqs[w].at = "check"
    PROVE  MadeOK(w)'
<1> DEFINE r == reqs[w]
           q == reqs'[w]
<1> SUFFICES ASSUME NEW s \in q.call.config.sizes, MadeSees(q, s)
             PROVE  colls'[s] # None
  BY DEF MadeOK
<1>1. /\ q.call = r.call /\ q.at \in Creating /\ r.call.op = "create"
      /\ r.call.config \in Configs /\ s \in r.call.config.sizes /\ s \in Sizes
  BY BusyHas, CallHas, ServiceAssumption DEF CreateGoes, Onward, InCreate, Requests
<1>2. PICK z : z = Size(w)
  OBVIOUS
<1>3. r.at \in {"exists", "make", "index"} => z \in r.todo /\ z \in Sizes /\ Rest(w) = r.todo \ {z}
  BY <1>2, BusyHas, SizeIsLeft DEF PlaceOK, Looping, Rest
<1>4. r.at \in Creating => (MadeSees(r, s) => colls[s] # None)
  BY <1>1 DEF MadeOK, InCreate
<1>5. CASE r.at \notin {"exists", "make", "index"}
  <2>1. q.at = "exists" /\ q.todo = r.call.config.sizes
    BY <1>1, <1>5 DEF CreateGoes, Creating, InCreate
  <2> QED
    BY <1>1, <2>1 DEF MadeSees
<1>6. CASE r.at = "exists" /\ q.at = "make"
  <2>1. q.todo = r.todo /\ UNCHANGED store
    BY <1>6 DEF CreateGoes
  <2> QED
    BY <1>4, <1>6, <2>1 DEF MadeSees, store, Creating
<1>7. CASE r.at = "make"
  <2>1. q.at = "index" /\ q.todo = r.todo /\ CreateCollection(z, r.call.config.dim)
    BY <1>2, <1>7 DEF CreateGoes
  <2>2. colls'[z] # None /\ \A y \in Sizes \ {z} : colls'[y] = colls[y]
    BY <1>1, <1>3, <1>7, <2>1, MakeLeaves
  <2>3. z = Min(q.todo)
    BY <1>2, <2>1 DEF Size
  <2>4. s = z \/ MadeSees(r, s)
    BY <1>7, <2>1, <2>3 DEF MadeSees, Creating
  <2> QED
    BY <1>1, <1>4, <1>7, <2>2, <2>4 DEF Creating
<1>8. CASE r.at \in {"exists", "index"} /\ q.at # "make"
  <2>1. /\ q.at \in {"exists", "save"} /\ q.todo = Rest(w) /\ colls[z] # None
        /\ q.at = "save" => Rest(w) = {}
        /\ UNCHANGED store \/ CreateIndex(z)
    BY <1>2, <1>8 DEF CreateGoes
  <2>2. colls[s] # None => colls'[s] # None
    <3>1. CASE UNCHANGED store
      BY <3>1 DEF store
    <3>2. CASE CreateIndex(z)
      BY <1>1, <1>3, <1>8, <2>1, <3>2, MakeLeaves
    <3> QED
      BY <2>1, <3>1, <3>2
  <2>3. s = z \/ MadeSees(r, s)
    BY <1>3, <1>8, <2>1 DEF MadeSees, Creating
  <2> QED
    BY <1>4, <1>8, <2>1, <2>2, <2>3 DEF Creating
<1> QED
  BY <1>5, <1>6, <1>7, <1>8 DEF CreateGoes

(* Nobody without a clash takes them away, and every step keeps it so.     *)
LEMMA MadeKept ==
    ASSUME TypeInv, BootInv, AloneInv, Unrivalled, MadeInv, [Next]_vars
    PROVE  MadeInv'
<1> SUFFICES ASSUME NEW v \in Workers, InCreate(v)'
             PROVE  MadeOK(v)'
  BY DEF MadeInv, MadeOK
<1>0. ASSUME InCreate(v), Same(v), \A s \in Sizes : colls'[s] = None <=> colls[s] = None
      PROVE  MadeOK(v)'
  <2>1. reqs[v].call.config.sizes \subseteq Sizes
    BY <1>0, BusyHas, CallHas, ServiceAssumption DEF InCreate, Requests
  <2>2. \A s \in reqs[v].call.config.sizes : MadeSees(reqs[v], s) => colls[s] # None
    BY <1>0 DEF MadeInv, MadeOK
  <2> QED
    BY <1>0, <2>1, <2>2 DEF MadeOK, MadeSees, Same
<1>1. CASE UNCHANGED vars
  BY <1>1 DEF vars, store, MadeInv, MadeOK, MadeSees, InCreate, Busy
<1>2. CASE Crash
  BY <1>2 DEF Crash, InCreate, Busy
<1>3. CASE \E w \in Workers : Begin(w)
  <2>1. PICK w \in Workers : Begin(w)
    BY <1>3
  <2>2. UNCHANGED store /\ \E c : Enters(w, c, << >>, promised)
    BY <2>1, BeginEnters
  <2>3. PICK c : Enters(w, c, << >>, promised)
    BY <2>2
  <2>4. v # w
    BY <2>3, EntersHas DEF InCreate, Creating, Entry
  <2>5. InCreate(v) /\ Same(v)
    BY <2>3, <2>4, OthersUnderEnter, OthersStand DEF InCreate
  <2> QED
    BY <1>0, <2>2, <2>5 DEF store
<1>4. ASSUME NEW w \in Workers, Acts(w)
      PROVE  MadeOK(v)'
  <2>0. w \in Busy
    BY <1>4, ActsGo
  <2>1. CASE v # w
    <3>1. InCreate(v) /\ Same(v)
      BY <1>4, <2>1, OthersStay, OthersStand DEF InCreate
    <3>2. ~ Clash(reqs[w].call, reqs[v].call)
      BY <2>0, <2>1, <3>1 DEF InCreate, Unrivalled, AloneInv
    <3>3. reqs[w].call.op \notin {"create", "drop"}
      BY <3>1, <3>2 DEF Clash, InCreate
    <3> QED
      BY <1>0, <1>4, <3>1, <3>3, NoneStays
  <2>2. CASE v = w
    <3>1. CreateGoes(w) /\ (InCreate(w) \/ reqs[w].at = "check")
      BY <1>4, <2>2, CreateComes
    <3> QED
      BY <2>0, <2>2, <3>1, MadeGoesOn DEF MadeInv
  <2> QED
    BY <2>1, <2>2
<1> QED
  BY <1>1, <1>2, <1>3, <1>4 DEF Next, Acts

(* All configs, those there may be at the start among them, are of one     *)
(* dimension: that of the vectors of the server's model.                   *)
OneDimension(D) ==
    /\ \A c \in Initially \ {None} : c.dim = D
    /\ \A w \in Workers : \A c \in Menu[w] : c.op = "create" => c.config.dim = D

(* Then so are all collections.                                            *)
AsksFor(D) == \A w \in Busy : reqs[w].call.op = "create" => reqs[w].call.config.dim = D

HasDim(s, D) == colls[s] # None => colls[s].dim = D

DimInv(D) == AsksFor(D) /\ \A s \in Sizes : HasDim(s, D)

(* Points that come or go leave a collection its dimension.                *)
LEMMA PointsLeaveDim ==
    ASSUME TypeInv, NEW D, NEW z \in Sizes, NEW Q, colls[z] # None,
           colls' = [colls EXCEPT ![z].points = Q], NEW s \in Sizes, HasDim(s, D)
    PROVE  HasDim(s, D)'
<1>0. colls \in [Sizes -> Collections(Texts, Configs) \cup {None}]
  BY DEF TypeInv, TypeOK, StoreTypeOK
<1>1. PICK k : k = [colls[z] EXCEPT !.points = Q]
  OBVIOUS
<1>2. colls' = [colls EXCEPT ![z] = k]
  BY <1>1
<1>3. k.dim = colls[z].dim
  BY <1>0, <1>1 DEF Collections
<1> QED
  BY <1>0, <1>2, <1>3 DEF HasDim

(* A step of a request leaves all collections of one dimension.            *)
LEMMA DimOn ==
    ASSUME NEW D, TypeInv, BootInv, DimInv(D), NEW w \in Workers, Acts(w), NEW s \in Sizes
    PROVE  HasDim(s, D)'
<1>0. w \in Busy /\ HasDim(s, D)
  BY ActsGo DEF DimInv
<1>1. PICK z : z = Size(w)
  OBVIOUS
<1>2. reqs[w].at \in {"write", "delete", "purge", "make", "index", "remove"} => z \in Sizes
  BY <1>0, <1>1, BusyHas, SizeIsLeft DEF PlaceOK, Looping
<1>3. ASSUME colls' = colls
      PROVE  HasDim(s, D)'
  BY <1>0, <1>3 DEF HasDim
<1>4. CASE PutStores(w)
  <2>1. CASE reqs[w].at \in {"write", "delete"}
    <3>1. colls[z] # None /\ \E Q : colls' = [colls EXCEPT ![z].points = Q]
      BY <1>1, <1>4, <2>1 DEF PutStores, UpsertPoints, DeleteIds
    <3> QED
      BY <1>0, <1>2, <2>1, <3>1, PointsLeaveDim
  <2>2. CASE reqs[w].at = "record"
    BY <1>3, <1>4, <2>2 DEF PutStores, WriteRecord
  <2> QED
    BY <1>4, <2>1, <2>2 DEF PutStores
<1>5. CASE DeleteStores(w)
  <2>1. CASE reqs[w].at = "purge"
    <3>1. colls[z] # None /\ \E Q : colls' = [colls EXCEPT ![z].points = Q]
      BY <1>1, <1>5, <2>1 DEF DeleteStores, DeleteByDocument
    <3> QED
      BY <1>0, <1>2, <2>1, <3>1, PointsLeaveDim
  <2>2. CASE reqs[w].at = "forget"
    BY <1>3, <1>5, <2>2 DEF DeleteStores, WriteRecord
  <2> QED
    BY <1>5, <2>1, <2>2 DEF DeleteStores
<1>6. CASE CreateStores(w)
  <2>1. CASE reqs[w].at = "save"
    BY <1>3, <1>6, <2>1 DEF CreateStores, WriteMeta
  <2>2. CASE reqs[w].at \in {"make", "index"}
    <3>1. PICK c \in Configs : c = reqs[w].call.config
      BY <1>0, <1>6, BusyHas, CallHas DEF CreateStores, Requests
    <3>2. c.dim = D /\ HasDim(z, D)
      BY <1>0, <1>2, <1>6, <2>2, <3>1 DEF CreateStores, DimInv, AsksFor
    <3>3. \/ colls[z] = None /\ CreateCollection(z, c.dim)
          \/ colls[z] # None /\ CreateIndex(z)
      BY <1>1, <1>6, <2>2, <3>1 DEF CreateStores
    <3>4. /\ colls'[z].dim \in {c.dim, colls[z].dim}
          /\ colls[z] = None => colls'[z].dim = c.dim
          /\ s # z => colls'[s] = colls[s]
      BY <1>2, <2>2, <3>3, MakeLeaves
    <3> QED
      BY <1>0, <3>2, <3>4 DEF HasDim
  <2> QED
    BY <1>6, <2>1, <2>2 DEF CreateStores
<1>7. CASE DropStores(w)
  <2>1. CASE reqs[w].at = "remove"
    <3>1. colls' = [colls EXCEPT ![z] = None] /\ colls \in [Sizes -> Collections(Texts, Configs) \cup {None}]
      BY <1>1, <1>7, <2>1 DEF DropStores, DeleteCollection, TypeInv, TypeOK, StoreTypeOK
    <3> QED
      BY <1>0, <3>1 DEF HasDim
  <2>2. CASE reqs[w].at \in {"clear", "erase"}
    BY <1>3, <1>7, <2>2 DEF DropStores, PurgeRegistry, WriteMeta
  <2> QED
    BY <1>7, <2>1, <2>2 DEF DropStores
<1>8. CASE BootStores(w) \/ UNCHANGED store
  BY <1>3, <1>8 DEF BootStores, CreateRegistry, IndexRegistry, store
<1> QED
  BY <1>4, <1>5, <1>6, <1>7, <1>8, ActsStore

(* Every step leaves them of one dimension.                                *)
LEMMA DimKept ==
    ASSUME NEW D, OneDimension(D), TypeInv, BootInv, DimInv(D), [Next]_vars
    PROVE  DimInv(D)'
<1>1. ASSUME UNCHANGED store
      PROVE  \A s \in Sizes : HasDim(s, D)'
  BY <1>1 DEF store, DimInv, HasDim
<1>2. CASE UNCHANGED vars
  BY <1>2 DEF vars, store, DimInv, HasDim, AsksFor, Busy
<1>3. CASE Crash
  <2>1. AsksFor(D)'
    BY <1>3 DEF Crash, AsksFor, Busy
  <2> QED
    BY <1>1, <1>3, <2>1 DEF Crash, DimInv
<1>4. ASSUME NEW w \in Workers, NEW c, NEW rest, NEW kept, Enters(w, c, rest, kept),
             c.op = "create" => c.config.dim = D
      PROVE  AsksFor(D)'
  <2>1. reqs'[w].call = c
    BY <1>4, EntersHas
  <2>2. \A v \in Workers \ {w} : (v \in Busy' <=> v \in Busy) /\ (v \in Busy => Same(v))
    BY <1>4, OthersUnderEnter
  <2> QED
    BY <1>4, <2>1, <2>2 DEF DimInv, AsksFor, Busy, Same
<1>5. ASSUME NEW w \in Workers, Begin(w)
      PROVE  DimInv(D)'
  <2>1. UNCHANGED store /\ \E c \in Menu[w] : Enters(w, c, << >>, promised)
    BY <1>5, BeginEnters
  <2>2. AsksFor(D)'
    BY <1>4, <2>1 DEF OneDimension
  <2> QED
    BY <1>1, <2>1, <2>2 DEF DimInv
<1>6. ASSUME NEW w \in Workers, Acts(w)
      PROVE  DimInv(D)'
  <2>0. w \in Busy
    BY <1>6, ActsGo
  <2>1. \A s \in Sizes : HasDim(s, D)'
    BY <1>6, DimOn
  <2>2. ASSUME NEW v \in Busy', reqs'[v].call.op = "create"
        PROVE  reqs'[v].call.config.dim = D
    <3>1. CASE v # w
      <4>1. v \in Busy /\ Same(v)
        BY <1>6, <2>2, <3>1, OthersStay DEF Busy
      <4> QED
        BY <2>2, <4>1 DEF Same, DimInv, AsksFor
    <3>2. CASE v = w
      <4>1. ASSUME \E c \in ClientCalls : \E rest, kept : c.op = "put" /\ Enters(w, c, rest, kept)
            PROVE  FALSE
        BY <2>2, <3>2, <4>1, EntersHas
      <4>2. ~ (Answers(w, promised) \/ Answers(w, Returned(w)) \/ Opens(w))
        BY <2>0, <2>2, <3>2, <4>1, AnswersHas, OpensHas
      <4>3. reqs'[w].call = reqs[w].call
        BY <1>6, <4>2, ActsGo DEF BootGoes, DownGoes, PingGoes, CreateGoes, DropGoes, PutGoes,
                                  DeleteGoes, Steady, Onward
      <4> QED
        BY <2>0, <2>2, <3>2, <4>3 DEF DimInv, AsksFor
    <3> QED
      BY <3>1, <3>2
  <2>3. AsksFor(D)'
    BY <2>2 DEF AsksFor
  <2> QED
    BY <2>1, <2>3 DEF DimInv
<1> QED
  BY <1>2, <1>3, <1>5, <1>6 DEF Next, Acts

(* Before any call, collections are of that dimension, and none is due.    *)
LEMMA InitMade ==
    ASSUME InitService
    PROVE  MadeInv /\ \A D : OneDimension(D) => DimInv(D)
<1>1. \A w \in Workers : w \notin Busy
  BY DEF InitService, Busy
<1>2. ASSUME NEW D, OneDimension(D), NEW s \in Sizes, colls[s] # None
      PROVE  colls[s].dim = D
  <2>1. /\ meta # None /\ meta \in Initially
        /\ colls[s].dim = meta.dim
    BY <1>2 DEF InitService
  <2> QED
    BY <1>2, <2>1 DEF OneDimension
<1> QED
  BY <1>1, <1>2 DEF MadeInv, MadeOK, InCreate, DimInv, HasDim, AsksFor, Busy

(* A create that saves its config leaves a healthy corpus.                 *)
LEMMA SavedIsHealthy ==
    ASSUME NEW D, TypeInv, BootInv, MadeInv, DimInv(D), [Next]_vars, meta' # meta, meta' # None
    PROVE  Healthy'
<1>1. ~ UNCHANGED store
  BY DEF store
<1>2. PICK w \in Workers : Acts(w)
  <2>1. ~ Crash /\ ~ UNCHANGED vars /\ \A w \in Workers : ~ Begin(w)
    BY <1>1, BeginEnters DEF Crash, vars
  <2> QED
    BY <2>1 DEF Next, Acts
<1>3. w \in Busy
  BY <1>2, ActsGo
<1>4. reqs[w].call.op = "create" /\ reqs[w].at = "save" /\ meta' = reqs[w].call.config
  BY <1>2, <1>3, ActsLeave
<1>5. colls' = colls
  BY <1>1, <1>2, <1>4, ActsStore DEF PutStores, DeleteStores, CreateStores, DropStores, BootStores,
                                     WriteMeta
<1>6. InCreate(w) /\ reqs[w].call.config.dim = D /\ reqs[w].call.config.sizes \subseteq Sizes
  BY <1>3, <1>4, BusyHas, CallHas, ServiceAssumption DEF InCreate, Creating, DimInv, AsksFor, Requests
<1>7. \A s \in reqs[w].call.config.sizes : colls[s] # None
  BY <1>4, <1>6 DEF MadeInv, MadeOK, MadeSees
<1>8. \A s \in reqs[w].call.config.sizes : colls[s].dim = D
  BY <1>6, <1>7 DEF DimInv, HasDim
<1> QED
  BY <1>4, <1>5, <1>6, <1>7, <1>8 DEF Healthy, Accepts

(* Where all configs are of one dimension, a create without rivals leaves  *)
(* every collection its config names, in that dimension, whatever it found *)
(* of earlier creates and drops that failed halfway.                       *)
THEOREM CreatedCorpusIsHealthy ==
    ASSUME NEW D, OneDimension(D)
    PROVE  Spec /\ []Unrivalled => CreatedIsHealthy
<1>1. InitService => MadeInv /\ DimInv(D)
  BY InitMade
<1>2. BaseInv /\ Unrivalled /\ MadeInv /\ DimInv(D) /\ [Next]_vars => MadeInv' /\ DimInv(D)'
  BY MadeKept, DimKept DEF BaseInv
<1>3. BaseInv /\ MadeInv /\ DimInv(D) /\ [Next]_vars => [meta' # meta /\ meta' # None => Healthy']_vars
  BY SavedIsHealthy DEF BaseInv
<1> QED
  BY <1>1, <1>2, <1>3, Invariance, PTL DEF Spec, CreatedIsHealthy

(* The same for a single client.                                           *)
THEOREM OneClientCreatesHealthy ==
    ASSUME \A v, w \in Workers : v = w, NEW D, OneDimension(D)
    PROVE  Spec => CreatedIsHealthy
BY OneClientIsUnrivalled, CreatedCorpusIsHealthy, PTL
=============================================================================
