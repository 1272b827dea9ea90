---------------------------- MODULE ConformanceProofs ----------------------------
(***************************************************************************)
(* Why the adapter keeps the in-memory store's promise: as long as no call *)
(* fails and no client disturbs another, every step of it is one whole     *)
(* call of the in-memory store, or none, proved for every number of        *)
(* clients and documents, every grid and every menu.                       *)
(***************************************************************************)
EXTENDS Conformance, LifecycleProofs

-----------------------------------------------------------------------------
(* The collections there are, in the life of a corpus that nobody disturbs.*)

(* A corpus has all of its collections and no others, of its dimension,    *)
(* but for those a drop has removed already.                               *)
StandsInv == meta # None => \A s \in Sizes :
    IF colls[s] # None
    THEN s \in meta.sizes /\ colls[s].dim = meta.dim
    ELSE s \in meta.sizes => \E w \in Workers : InDrop(w) /\ DropSees(reqs[w], s)

(* Without a corpus there is no document, and no collection but those of a *)
(* create on its way.                                                      *)
Makes(w, s) ==
    /\ InCreate(w) /\ s \in reqs[w].call.config.sizes /\ MadeSees(reqs[w], s)
    /\ colls[s].dim = reqs[w].call.config.dim

FreeInv == meta = None =>
    /\ \A d \in Docs : docs[d] = None
    /\ \A s \in Sizes : colls[s] # None => \E w \in Workers : Makes(w, s)

(* What a request has still to do is part of what it set out to do.        *)
LeftOK(w) ==
    LET r == reqs[w]
    IN  /\ r.call.op = "create" /\ r.at \in Creating => r.todo \subseteq r.call.config.sizes
        /\ r.call.op = "drop" /\ r.at \in {"present", "remove"} => r.todo \subseteq meta.sizes
        /\ r.call.op = "put" =>
              /\ r.at = "write" => r.todo \subseteq r.config.sizes /\ meta.dim = EmbedDim
              /\ r.at = "delete" => r.todo \subseteq {i.size : i \in Leftovers(r)}
        /\ r.call.op = "delete" =>
              /\ r.at \in {"lookup", "read"} => r.todo = meta.sizes
              /\ r.at = "purge" => r.todo \subseteq meta.sizes /\ docs[r.call.doc] # None

LeftInv == \A w \in Busy : LeftOK(w)

(* All that is known while nobody is disturbed and nothing fails.          *)
CalmInv ==
    /\ PromiseInv /\ Polite /\ DeleteInv /\ DropInv /\ QuietInv /\ MadeInv
    /\ StandsInv /\ FreeInv /\ LeftInv

-----------------------------------------------------------------------------
(* The steps there are while nothing fails.                                *)

(* A call raises, though nothing failed.                                   *)
Refused(w) == BootRefused(w) \/ RefusedDocument(w) \/ RefusedCorpus(w)

(* Each step is a move, an answer, or a refusal that leaves the store as   *)
(* it is.                                                                  *)
LEMMA CalmGoes ==
    ASSUME TypeInv, BootInv, NEW w \in Workers, Acts(w), faults' = faults
    PROVE  /\ w \in Busy
           /\ \/ BootGoes(w) \/ DownGoes(w) \/ PingGoes(w) \/ CreateGoes(w) \/ DropGoes(w)
              \/ PutGoes(w) \/ DeleteGoes(w)
              \/ Answers(w, promised) /\ Refused(w) /\ UNCHANGED store
              \/ Finishes(w) /\ Answers(w, Returned(w))
              \/ Opens(w) /\ UNCHANGED store
<1>0. w \in Busy
  BY ActsHappen
<1>1. faults' # faults + 1
  BY ServiceAssumption DEF TypeInv, TypeOK
<1>2. Proceed(w, promised) => Answers(w, promised)
  BY <1>0, ProceedAnswers
<1>3. Proceed(w, Returned(w)) => Answers(w, Returned(w))
  BY <1>0, ProceedAnswers
<1>4. Breaks(w) => Answers(w, promised) /\ Refused(w) /\ UNCHANGED store
  BY <1>1, <1>2 DEF Breaks, Refused, BootRefused, store
<1>5. CASE Put(w)
  BY <1>0, <1>3, <1>4, <1>5, PutStepGoes DEF Finishes
<1>6. CASE Delete(w)
  BY <1>0, <1>3, <1>4, <1>6, DeleteStepGoes DEF Finishes
<1>7. CASE Create(w)
  BY <1>0, <1>3, <1>4, <1>7, CreateStepGoes DEF Finishes
<1>8. CASE Drop(w)
  BY <1>0, <1>3, <1>4, <1>8, DropStepGoes DEF Finishes
<1>9. CASE Health(w)
  BY <1>0, <1>3, <1>4, <1>9, HealthStepGoes DEF Finishes
<1>10. CASE OpenBatch(w)
  BY <1>0, <1>10, BatchSteps DEF OpenBatch, store
<1>11. CASE RefusedDocument(w) \/ RefusedCorpus(w)
  BY <1>0, <1>2, <1>11 DEF RefusedDocument, RefusedCorpus, Refused, Raise, store
<1>12. ~ Broken(w) /\ ~ StrayError(w)
  BY <1>1 DEF Broken, Fault, StrayError
<1> QED
  BY <1>0, <1>5, <1>6, <1>7, <1>8, <1>9, <1>10, <1>11, <1>12 DEF Acts, Step

(* Nobody is disturbed: nobody's call is at odds with another's.           *)
LEMMA NoClash ==
    ASSUME CalmInv, NEW v \in Busy, NEW w \in Busy \ {v}
    PROVE  ~ Clash(reqs[v].call, reqs[w].call)
BY DEF CalmInv, PromiseInv, BaseInv, AloneInv, Polite

(* What of the invariants the earlier lemmas ask for.                      *)
LEMMA CalmHas ==
    ASSUME CalmInv
    PROVE  /\ TypeInv /\ BootInv /\ AloneInv /\ Unrivalled
           /\ PutInv /\ WritersInv /\ MakerInv /\ InsideInv
BY DEF CalmInv, PromiseInv, BaseInv, QuietInv, Polite, Unrivalled

(* What a step does to the collections, their points aside.                *)
LEMMA CollsGo ==
    ASSUME TypeInv, BootInv, NEW w \in Workers, Acts(w), NEW s \in Sizes
    PROVE  \/ /\ colls'[s] # None <=> colls[s] # None
              /\ colls[s] # None => colls'[s].dim = colls[s].dim
           \/ /\ reqs[w].call.op = "create" /\ reqs[w].at = "make" /\ s = Size(w)
              /\ colls'[s].dim = reqs[w].call.config.dim
           \/ /\ reqs[w].call.op = "drop" /\ reqs[w].at = "remove" /\ s = Size(w)
              /\ colls'[s] = None
<1> DEFINE Stays == /\ colls'[s] # None <=> colls[s] # None
                    /\ colls[s] # None => colls'[s].dim = colls[s].dim
<1>0. w \in Busy
  BY ActsGo
<1>1. PICK z : z = Size(w)
  OBVIOUS
<1>2. reqs[w].at \in {"write", "delete", "purge", "make", "index", "remove"} => z \in Sizes
  BY <1>0, <1>1, BusyHas, SizeIsLeft DEF PlaceOK, Looping
<1>3. ASSUME NEW Q, z \in Sizes, colls[z] # None, colls' = [colls EXCEPT ![z].points = Q],
             reqs[w].call.op \notin {"create", "drop"}
      PROVE  Stays
  <2>1. colls'[s] = None <=> colls[s] = None
    BY <1>3, NoneStays
  <2>2. ASSUME NEW D, D = colls[s].dim
        PROVE  HasDim(s, D)'
    BY <1>3, <2>2, PointsLeaveDim DEF HasDim
  <2> QED
    BY <2>1, <2>2 DEF HasDim
<1>4. CASE colls' = colls
  BY <1>4
<1>5. CASE PutStores(w)
  BY <1>1, <1>2, <1>3, <1>4, <1>5 DEF PutStores, UpsertPoints, DeleteIds, WriteRecord
<1>6. CASE DeleteStores(w)
  BY <1>1, <1>2, <1>3, <1>4, <1>6 DEF DeleteStores, DeleteByDocument, WriteRecord
<1>7. CASE CreateStores(w)
  <2>1. CASE reqs[w].at = "save"
    BY <1>4, <1>7, <2>1 DEF CreateStores, WriteMeta
  <2>2. CASE reqs[w].at \in {"make", "index"}
    <3>1. PICK c \in Configs : c = reqs[w].call.config
      BY <1>0, <1>7, BusyHas, CallHas DEF CreateStores, Requests
    <3>2. \/ reqs[w].at = "make" /\ colls[z] = None /\ CreateCollection(z, c.dim)
          \/ reqs[w].at = "index" /\ colls[z] # None /\ CreateIndex(z)
      BY <1>1, <1>7, <2>2, <3>1 DEF CreateStores
    <3>3. /\ colls'[z] # None
          /\ colls[z] = None => colls'[z].dim = c.dim
          /\ s # z => colls'[s] = colls[s]
      BY <1>2, <2>2, <3>2, MakeLeaves
    <3>4. CreateIndex(z) => colls'[z].dim = colls[z].dim
      <4> SUFFICES ASSUME CreateIndex(z), colls[z] # None
                   PROVE  colls'[z].dim = colls[z].dim
        BY <3>2, <3>3 DEF CreateIndex
      <4>1. colls[z] \in Collections(Texts, Configs) /\ DOMAIN colls = Sizes
        BY <1>2, <2>2 DEF TypeInv, TypeOK, StoreTypeOK
      <4>2. colls' = [colls EXCEPT ![z] = [colls[z] EXCEPT !.indexed = TRUE]]
        BY DEF CreateIndex
      <4>3. [colls[z] EXCEPT !.indexed = TRUE].dim = colls[z].dim
        BY <4>1 DEF Collections
      <4> QED
        BY <1>2, <2>2, <4>1, <4>2, <4>3
    <3> QED
      BY <1>1, <1>7, <3>1, <3>2, <3>3, <3>4 DEF CreateStores
  <2> QED
    BY <1>7, <2>1, <2>2 DEF CreateStores
<1>8. CASE DropStores(w)
  BY <1>1, <1>2, <1>4, <1>8 DEF DropStores, DeleteCollection, PurgeRegistry, WriteMeta, TypeInv, TypeOK, StoreTypeOK
<1>9. CASE BootStores(w) \/ UNCHANGED store
  BY <1>4, <1>9 DEF BootStores, CreateRegistry, IndexRegistry, store
<1> QED
  BY <1>5, <1>6, <1>7, <1>8, <1>9, ActsStore

-----------------------------------------------------------------------------
(* Nobody is refused halfway.                                              *)

(* While no drop is on its way the corpus has all of its collections.      *)
LEMMA AllThere ==
    ASSUME CalmInv, meta # None, NEW s \in meta.sizes, NEW w \in Busy,
           \/ reqs[w].call.op \in {"put", "delete"}
           \/ InDrop(w) /\ ~ DropSees(reqs[w], s)
    PROVE  s \in Sizes /\ Accepts(s, meta.dim)
<1>1. s \in Sizes
  BY CalmHas, MetaHas
<1>2. ASSUME NEW v \in Workers, InDrop(v), DropSees(reqs[v], s)
      PROVE  FALSE
  <2>1. v \in Busy /\ reqs[v].call.op = "drop" /\ v # w
    BY <1>2, BusyHas, CalmHas DEF InDrop
  <2> QED
    BY <2>1, NoClash DEF Clash, InDrop
<1>3. colls[s] # None /\ colls[s].dim = meta.dim
  BY <1>1, <1>2 DEF CalmInv, StandsInv
<1> QED
  BY <1>1, <1>3 DEF Accepts

(* A put past its read of the config has the one there is.                 *)
LEMMA PutGrid ==
    ASSUME CalmInv, NEW w \in Busy, reqs[w].call.op = "put", reqs[w].at # "config"
    PROVE  meta # None /\ reqs[w].config = meta /\ meta \in Configs /\ meta.sizes \subseteq Sizes
BY CalmHas, PutHas, NoneAssumption DEF WritersInv, WriterOK

(* The collections there are without a corpus are those of its create.     *)
LEMMA OwnCollections ==
    ASSUME CalmInv, NEW w \in Workers, InCreate(w), NEW s \in Sizes, colls[s] # None
    PROVE  Makes(w, s)
<1>1. meta = None
  BY DEF CalmInv, QuietInv, MakerInv
<1>2. PICK v \in Workers : Makes(v, s)
  BY <1>1 DEF CalmInv, FreeInv
<1>3. v = w
  BY <1>2, NoClash DEF Makes, InCreate, Clash
<1> QED
  BY <1>2, <1>3

(* So a refusal comes before the first call that changes anything.         *)
LEMMA RefusedEarly ==
    ASSUME CalmInv, NEW w \in Busy, Refused(w)
    PROVE  /\ reqs[w].call.op = "put" => reqs[w].at \notin {"write", "delete", "record"}
           /\ reqs[w].call.op = "delete" => reqs[w].at \notin {"purge", "forget"}
           /\ ~ InCreate(w) /\ ~ InDrop(w)
<1>0. TypeInv /\ LeftOK(w) /\ w \in Workers
  BY CalmHas DEF CalmInv, LeftInv, Busy
<1>1. PICK z : z = Size(w)
  OBVIOUS
<1>2. reqs[w].at \in Looping \ {"index docs"} => z \in reqs[w].todo /\ z \in Sizes
  BY <1>0, <1>1, BusyHas, SizeIsLeft DEF PlaceOK
<1>3. CASE BootRefused(w)
  BY <1>3 DEF BootRefused, Booting, InCreate, InDrop, Creating
<1>4. CASE RefusedDocument(w)
  <2>1. ~ InCreate(w) /\ ~ InDrop(w)
    BY <1>4 DEF RefusedDocument, InCreate, InDrop
  <2>2. ASSUME reqs[w].call.op = "put", reqs[w].at \in {"write", "delete", "record"}
        PROVE  FALSE
    <3>1. meta # None /\ reqs[w].config = meta
      BY <2>2, PutGrid
    <3>2. CASE reqs[w].at = "write"
      <4>1. z \in meta.sizes /\ meta.dim = EmbedDim
        BY <1>0, <1>2, <2>2, <3>1, <3>2 DEF LeftOK, Looping
      <4>2. Accepts(z, EmbedDim)
        BY <2>2, <3>1, <4>1, AllThere
      <4> QED
        BY <1>1, <1>4, <3>2, <4>2 DEF RefusedDocument
    <3>3. CASE reqs[w].at = "delete"
      <4>1. z \in meta.sizes
        BY <1>0, <1>2, <2>2, <3>1, <3>3 DEF LeftOK, Looping, Leftovers
      <4>2. colls[z] # None
        BY <2>2, <3>1, <4>1, AllThere DEF Accepts
      <4> QED
        BY <1>1, <1>4, <3>3, <4>2 DEF RefusedDocument
    <3>4. CASE reqs[w].at = "record"
      BY <1>4, <3>4 DEF RefusedDocument
    <3> QED
      BY <2>2, <3>2, <3>3, <3>4
  <2>3. ASSUME reqs[w].call.op = "delete", reqs[w].at \in {"purge", "forget"}
        PROVE  FALSE
    <3>1. CASE reqs[w].at = "purge"
      <4>1. meta # None
        BY <2>3 DEF CalmInv, Polite, DeleteInv, DeleteOK
      <4>2. z \in meta.sizes
        BY <1>0, <1>2, <2>3, <3>1 DEF LeftOK, Looping
      <4>3. colls[z] # None
        BY <2>3, <4>1, <4>2, AllThere DEF Accepts
      <4> QED
        BY <1>1, <1>4, <3>1, <4>3 DEF RefusedDocument
    <3>2. CASE reqs[w].at = "forget"
      BY <1>4, <3>2 DEF RefusedDocument
    <3> QED
      BY <2>3, <3>1, <3>2
  <2> QED
    BY <2>1, <2>2, <2>3
<1>5. CASE RefusedCorpus(w)
  <2>1. reqs[w].call.op \notin {"put", "delete"} /\ ~ InDrop(w)
    BY <1>5 DEF RefusedCorpus, InDrop
  <2>2. ASSUME InCreate(w)
        PROVE  FALSE
    <3>1. reqs[w].at \in {"make", "index"}
      BY <1>5, <2>2 DEF RefusedCorpus, InCreate, Creating
    <3>2. z \in reqs[w].todo /\ z \in reqs[w].call.config.sizes /\ z \in Sizes
      BY <1>0, <1>2, <2>2, <3>1 DEF LeftOK, Looping, InCreate
    <3>3. CASE reqs[w].at = "make"
      <4>1. colls[z] # None
        BY <1>1, <1>5, <3>3 DEF RefusedCorpus
      <4>2. MadeSees(reqs[w], z)
        BY <1>0, <2>2, <3>2, <4>1, OwnCollections DEF Makes
      <4> QED
        BY <3>2, <3>3, <4>2 DEF MadeSees
    <3>4. CASE reqs[w].at = "index"
      <4>1. MadeSees(reqs[w], z)
        BY <1>1, <3>4 DEF MadeSees, Size
      <4>2. colls[z] # None
        BY <1>0, <2>2, <3>2, <4>1 DEF CalmInv, MadeInv, MadeOK
      <4> QED
        BY <1>1, <1>5, <3>4, <4>2 DEF RefusedCorpus
    <3> QED
      BY <3>1, <3>3, <3>4
  <2> QED
    BY <2>1, <2>2
<1> QED
  BY <1>3, <1>4, <1>5 DEF Refused

-----------------------------------------------------------------------------
(* The collections stay those of the corpus, or of its create.             *)

(* A create that goes on, or a drop, is done with what it was done with.   *)
LEMMA SeesOn ==
    ASSUME TypeInv, NEW w \in Busy, NEW s
    PROVE  /\ CreateGoes(w) /\ InCreate(w) =>
                 InCreate(w)' /\ (MadeSees(reqs[w], s) => MadeSees(reqs'[w], s))
           /\ CreateGoes(w) /\ reqs[w].at = "make" /\ s = Size(w) =>
                 InCreate(w)' /\ MadeSees(reqs'[w], s)
           /\ DropGoes(w) /\ InDrop(w) =>
                 InDrop(w)' /\ (DropSees(reqs[w], s) => DropSees(reqs'[w], s))
           /\ DropGoes(w) /\ reqs[w].at = "remove" /\ s = Size(w) =>
                 InDrop(w)' /\ DropSees(reqs'[w], s)
<1>1. (CreateGoes(w) \/ DropGoes(w)) => w \in Busy' /\ reqs'[w].call = reqs[w].call
  BY NoneAssumption, BusyHas DEF CreateGoes, DropGoes, Onward, Busy
<1> QED
  BY <1>1 DEF CreateGoes, DropGoes, InCreate, InDrop, MadeSees, DropSees, Creating, Rest, Size

(* Who makes a collection, or takes one away, goes on.                     *)
LEMMA MakerGoes ==
    ASSUME CalmInv, NEW w \in Workers, Acts(w), faults' = faults
    PROVE  /\ InCreate(w) => CreateGoes(w) \/ (reqs[w].at = "save" /\ Finishes(w))
           /\ InDrop(w) => DropGoes(w) \/ (reqs[w].at = "erase" /\ Finishes(w))
<1>0. TypeInv /\ BootInv
  BY CalmHas
<1>1. w \in Busy
  BY <1>0, CalmGoes
<1>2. ASSUME InCreate(w) \/ InDrop(w)
      PROVE  ~ Refused(w) /\ ~ Opens(w)
  BY <1>1, <1>2, RefusedEarly DEF Opens, InCreate, InDrop
<1>3. ASSUME InCreate(w) \/ InDrop(w)
      PROVE  ~ BootGoes(w) /\ ~ DownGoes(w) /\ ~ PingGoes(w) /\ ~ PutGoes(w) /\ ~ DeleteGoes(w)
  BY <1>3 DEF InCreate, InDrop, Creating, BootGoes, DownGoes, PingGoes, PutGoes, DeleteGoes
<1>4. InCreate(w) => ~ DropGoes(w) /\ (Finishes(w) => reqs[w].at = "save")
  BY DEF InCreate, DropGoes, Finishes
<1>5. InDrop(w) => ~ CreateGoes(w) /\ (Finishes(w) => reqs[w].at = "erase")
  BY DEF InDrop, CreateGoes, Finishes
<1> QED
  BY <1>0, <1>2, <1>3, <1>4, <1>5, CalmGoes

(* Other requests stand where they stood, and so do their makings.         *)
LEMMA OthersMake ==
    ASSUME CalmInv, NEW w \in Workers, Acts(w), NEW v \in Workers \ {w}, NEW s \in Sizes,
           colls[s] # None => colls'[s].dim = colls[s].dim
    PROVE  /\ Makes(v, s) /\ colls[s] # None => Makes(v, s)'
           /\ InDrop(v) /\ DropSees(reqs[v], s) => InDrop(v)' /\ DropSees(reqs'[v], s)
<1>1. (v \in Busy' <=> v \in Busy) /\ (v \in Busy => Same(v))
  BY CalmHas, OthersStay
<1> QED
  BY <1>1, OthersStand DEF Makes, InDrop, InCreate, Same, MadeSees, DropSees

(* With the corpus gone, or as long as there is none, no document is left, *)
(* and no collection but those of a create.                                *)
LEMMA FreeOn ==
    ASSUME CalmInv, NEW w \in Workers, Acts(w), faults' = faults
    PROVE  FreeInv'
<1> SUFFICES ASSUME meta' = None
             PROVE  /\ \A d \in Docs : docs'[d] = None
                    /\ \A s \in Sizes : colls'[s] # None => \E v \in Workers : Makes(v, s)'
  BY DEF FreeInv
<1>0. w \in Busy /\ TypeInv /\ BootInv
  BY CalmHas, CalmGoes
<1>1. CASE meta # None
  <2>1. reqs[w].call.op = "drop" /\ reqs[w].at = "erase"
    BY <1>0, <1>1, ActsLeave, BusyHas, CallHas, NoneAssumption DEF Requests
  <2>2. docs' = docs /\ colls' = colls
    BY <2>1, ActsStore DEF PutStores, DeleteStores, CreateStores, DropStores, BootStores, store, WriteMeta
  <2>3. (\A d \in Docs : docs[d] = None) /\ (\A s \in meta.sizes : colls[s] = None)
    BY <1>0, <2>1 DEF CalmInv, Polite, DropInv, DropOK, DropSees
  <2>4. \A s \in Sizes : colls[s] = None
    BY <1>1, <2>3 DEF CalmInv, StandsInv
  <2> QED
    BY <2>2, <2>3, <2>4
<1>2. CASE meta = None
  <2>1. \A d \in Docs : docs[d] = None
    BY <1>2 DEF CalmInv, FreeInv
  <2>2. \A d \in Docs : docs'[d] = None
    <3>1. reqs[w].call.op = "put" => reqs[w].at = "config"
      BY <1>0, <1>2, PutGrid
    <3>2. ~ PutStores(w)
      BY <3>1 DEF PutStores
    <3>3. DeleteStores(w) => docs' = docs
      <4>1. reqs[w].call.op = "delete" => reqs[w].at # "forget"
        BY <1>0, <1>2 DEF CalmInv, Polite, DeleteInv, DeleteOK
      <4> QED
        BY <4>1 DEF DeleteStores, DeleteByDocument
    <3>4. DropStores(w) => docs' = docs \/ docs' = [d \in Docs |-> None]
      BY DEF DropStores, DeleteCollection, PurgeRegistry, WriteMeta
    <3>5. CreateStores(w) \/ BootStores(w) \/ UNCHANGED store => docs' = docs
      BY DEF CreateStores, BootStores, CreateCollection, CreateIndex, WriteMeta,
             CreateRegistry, IndexRegistry, store
    <3> QED
      BY <2>1, <3>2, <3>3, <3>4, <3>5, ActsStore
  <2>3. ASSUME NEW s \in Sizes, colls'[s] # None
        PROVE  \E v \in Workers : Makes(v, s)'
    <3>1. CASE colls[s] # None /\ colls'[s].dim = colls[s].dim
      <4>1. PICK v \in Workers : Makes(v, s)
        BY <1>2, <3>1 DEF CalmInv, FreeInv
      <4>2. CASE v # w
        BY <3>1, <4>1, <4>2, OthersMake
      <4>3. CASE v = w
        <5>1. ~ (reqs[w].at = "save" /\ Finishes(w))
          <6>1. reqs[w].call.op = "create" /\ reqs[w].call.config \in Configs
            BY <1>0, <4>1, <4>3, BusyHas, CallHas DEF Makes, InCreate, Requests
          <6> QED
            BY <6>1, NoneAssumption DEF Finishes, WriteMeta
        <5>2. CreateGoes(w) /\ InCreate(w)
          BY <4>1, <4>3, <5>1, MakerGoes DEF Makes
        <5>3. InCreate(w)' /\ MadeSees(reqs'[w], s)
          BY <1>0, <4>1, <4>3, <5>2, SeesOn DEF Makes
        <5>4. reqs'[w].call = reqs[w].call
          BY <5>2 DEF CreateGoes, Onward
        <5> QED
          BY <3>1, <4>1, <4>3, <5>3, <5>4 DEF Makes
      <4> QED
        BY <4>2, <4>3
    <3>2. CASE /\ reqs[w].call.op = "create" /\ reqs[w].at = "make" /\ s = Size(w)
               /\ colls'[s].dim = reqs[w].call.config.dim
      <4>1. InCreate(w)
        BY <1>0, <3>2 DEF InCreate, Creating
      <4>2. CreateGoes(w)
        BY <3>2, <4>1, MakerGoes
      <4>3. InCreate(w)' /\ MadeSees(reqs'[w], s) /\ reqs'[w].call = reqs[w].call
        BY <1>0, <3>2, <4>2, SeesOn DEF CreateGoes, Onward
      <4>4. s \in reqs[w].call.config.sizes
        <5>1. s \in reqs[w].todo
          BY <1>0, <3>2, BusyHas, SizeIsLeft DEF PlaceOK, Looping
        <5> QED
          BY <1>0, <3>2, <5>1 DEF CalmInv, LeftInv, LeftOK, Creating
      <4> QED
        BY <3>2, <4>3, <4>4 DEF Makes
    <3> QED
      BY <1>0, <2>3, <3>1, <3>2, CollsGo
  <2> QED
    BY <2>2, <2>3
<1> QED
  BY <1>1, <1>2

(* A corpus keeps its collections, and loses them to its drop alone.       *)
LEMMA StandsOn ==
    ASSUME CalmInv, NEW w \in Workers, Acts(w), faults' = faults
    PROVE  StandsInv'
<1> SUFFICES ASSUME meta' # None, NEW s \in Sizes
             PROVE  IF colls'[s] # None
                    THEN s \in meta'.sizes /\ colls'[s].dim = meta'.dim
                    ELSE s \in meta'.sizes =>
                            \E v \in Workers : InDrop(v)' /\ DropSees(reqs'[v], s)
  BY DEF StandsInv
<1>0. w \in Busy /\ TypeInv /\ BootInv
  BY CalmHas, CalmGoes
<1>1. CASE meta' # meta
  <2>1. reqs[w].call.op = "create" /\ reqs[w].at = "save" /\ meta' = reqs[w].call.config
    BY <1>0, <1>1, ActsLeave
  <2>2. colls' = colls
    BY <2>1, ActsStore DEF PutStores, DeleteStores, CreateStores, DropStores, BootStores, store, WriteMeta
  <2>3. InCreate(w)
    BY <1>0, <2>1 DEF InCreate, Creating
  <2>4. colls[s] # None => Makes(w, s)
    BY <2>3, OwnCollections
  <2>5. s \in reqs[w].call.config.sizes => colls[s] # None
    BY <2>1, <2>3 DEF CalmInv, MadeInv, MadeOK, MadeSees
  <2> QED
    BY <2>1, <2>2, <2>4, <2>5 DEF Makes
<1>2. CASE meta' = meta
  <2>1. IF colls[s] # None
        THEN s \in meta.sizes /\ colls[s].dim = meta.dim
        ELSE s \in meta.sizes => \E v \in Workers : InDrop(v) /\ DropSees(reqs[v], s)
    BY <1>2 DEF CalmInv, StandsInv
  <2>2. ~ (reqs[w].at = "erase" /\ Finishes(w))
    <3>1. reqs[w].call.op = "drop" => ~ (reqs[w].at = "erase" /\ Finishes(w))
      BY <1>2 DEF Finishes, WriteMeta
    <3> QED
      BY <3>1 DEF Finishes
  <2>3. InDrop(w) => DropGoes(w)
    BY <2>2, MakerGoes
  <2>4. CASE /\ colls'[s] # None <=> colls[s] # None
             /\ colls[s] # None => colls'[s].dim = colls[s].dim
    <3> SUFFICES ASSUME colls[s] = None, s \in meta.sizes
                 PROVE  \E v \in Workers : InDrop(v)' /\ DropSees(reqs'[v], s)
      BY <1>2, <2>1, <2>4
    <3>1. PICK v \in Workers : InDrop(v) /\ DropSees(reqs[v], s)
      BY <2>1
    <3>2. InDrop(v)' /\ DropSees(reqs'[v], s)
      BY <1>0, <2>3, <3>1, OthersMake, SeesOn
    <3> QED
      BY <3>2
  <2>5. CASE reqs[w].call.op = "create" /\ reqs[w].at = "make"
    BY <1>0, <1>2, <2>5, CalmHas DEF MakerInv, InCreate, Creating
  <2>6. CASE reqs[w].call.op = "drop" /\ reqs[w].at = "remove" /\ s = Size(w) /\ colls'[s] = None
    <3>1. InDrop(w)
      BY <1>0, <2>6 DEF InDrop
    <3>2. InDrop(w)' /\ DropSees(reqs'[w], s)
      BY <1>0, <2>3, <2>6, <3>1, SeesOn
    <3> QED
      BY <2>6, <3>2
  <2> QED
    BY <1>0, <2>4, <2>5, <2>6, CollsGo
<1> QED
  BY <1>1, <1>2

(* Nor does a request have anything left to do that it did not set out to. *)
LEMMA LeftElsewhere ==
    ASSUME CalmInv, NEW w \in Workers, Acts(w), NEW v \in Busy \ {w}
    PROVE  LeftOK(v)'
<1>0. w \in Busy /\ TypeInv /\ BootInv /\ LeftOK(v) /\ v \in Workers
  BY CalmHas, ActsGo DEF CalmInv, LeftInv, Busy
<1>1. Same(v)
  BY <1>0, OthersStay
<1>2. reqs[v].call.op \in {"put", "delete", "drop"} => meta' = meta
  BY CalmHas, MetaStays
<1>3. reqs[v].call.op = "delete" /\ reqs[v].at = "purge" =>
         docs'[reqs[v].call.doc] = docs[reqs[v].call.doc]
  <2> SUFFICES ASSUME reqs[v].call.op = "delete", reqs[v].at = "purge",
                      docs'[reqs[v].call.doc] # docs[reqs[v].call.doc]
               PROVE  FALSE
    OBVIOUS
  <2>1. PICK d \in Docs : d = reqs[v].call.doc
    BY <1>0, BusyHas, CallHas DEF Requests
  <2>2. Writes(reqs[w].call, d)
    <3>1. PICK s : s \in reqs[v].todo /\ s \in Sizes
      BY <1>0, BusyHas DEF PlaceOK, Looping
    <3> QED
      BY <1>0, <2>1, <3>1, ActsSpare
  <2>3. Writes(reqs[v].call, d)
    BY <2>1 DEF Writes
  <2> QED
    BY <1>0, <2>2, <2>3, WritersClash, NoClash
<1>4. Leftovers(reqs'[v]) = Leftovers(reqs[v])
  BY <1>1, LeftoversStay DEF Same
<1> QED
  BY <1>0, <1>1, <1>2, <1>3, <1>4 DEF LeftOK, Same

(* One that goes on has the rest of it left.                               *)
LEMMA LeftGoesOn ==
    ASSUME CalmInv, NEW w \in Busy,
           \/ BootGoes(w) \/ DownGoes(w) \/ PingGoes(w) \/ CreateGoes(w) \/ DropGoes(w)
           \/ PutGoes(w) \/ DeleteGoes(w)
    PROVE  LeftOK(w)'
<1>0. TypeInv /\ LeftOK(w) /\ Rest(w) \subseteq reqs[w].todo
  BY CalmHas DEF CalmInv, LeftInv, Rest
<1>1. reqs'[w].call = reqs[w].call
  BY DEF BootGoes, DownGoes, PingGoes, CreateGoes, DropGoes, PutGoes, DeleteGoes, Steady, Onward
<1>2. CASE BootGoes(w) \/ DownGoes(w) \/ PingGoes(w)
  <2>1. reqs'[w].at \notin Creating /\ reqs[w].call.op \in {"create", "health"}
    BY <1>2 DEF BootGoes, DownGoes, PingGoes, Booted, Creating
  <2> QED
    BY <1>1, <2>1 DEF LeftOK
<1>3. CASE CreateGoes(w)
  <2>1. reqs'[w].at \in Creating => reqs'[w].todo \subseteq reqs[w].call.config.sizes
    BY <1>0, <1>3 DEF CreateGoes, LeftOK, Creating
  <2> QED
    BY <1>1, <1>3, <2>1 DEF LeftOK, CreateGoes
<1>4. CASE DropGoes(w)
  <2>1. meta' = meta
    BY <1>4 DEF DropGoes, store, DeleteCollection, PurgeRegistry
  <2>2. reqs'[w].at \in {"present", "remove"} => reqs'[w].todo \subseteq meta.sizes
    BY <1>0, <1>4 DEF DropGoes, LeftOK
  <2> QED
    BY <1>1, <1>4, <2>1, <2>2 DEF LeftOK, DropGoes
<1>5. CASE PutGoes(w)
  <2>1. meta' = meta /\ reqs[w].call.op = "put"
    BY <1>5 DEF PutGoes, store, UpsertPoints, DeleteIds
  <2>2. AfterWrites(w, reqs'[w].old) \in {"register", "tombstone"}
        /\ AfterWrites(w, reqs[w].old) \in {"register", "tombstone"}
    BY DEF AfterWrites
  <2>3. reqs'[w].at = "write" => reqs'[w].todo \subseteq reqs'[w].config.sizes /\ meta.dim = EmbedDim
    BY <1>0, <1>5, <2>2 DEF PutGoes, LeftOK, Matches
  <2>4. ASSUME reqs'[w].at = "delete"
        PROVE  reqs'[w].todo \subseteq {i.size : i \in Leftovers(reqs'[w])}
    <3>1. reqs[w].at \in {"tombstone", "delete"}
      BY <1>5, <2>2, <2>4 DEF PutGoes
    <3>2. Leftovers(reqs'[w]) = Leftovers(reqs[w])
      BY <1>1, <1>5, <3>1, LeftoversStay DEF PutGoes
    <3>3. Orphans(w, reqs[w].old) = Leftovers(reqs[w])
      BY OrphansLeft
    <3>4. reqs[w].at = "tombstone" => reqs'[w].todo = {i.size : i \in Leftovers(reqs[w])}
      BY <1>5, <3>3 DEF PutGoes
    <3>5. reqs[w].at = "delete" => reqs'[w].todo \subseteq reqs[w].todo
      BY <1>0, <1>5 DEF PutGoes
    <3> QED
      BY <1>0, <2>1, <3>1, <3>2, <3>4, <3>5 DEF LeftOK
  <2> QED
    BY <1>1, <2>1, <2>3, <2>4 DEF LeftOK
<1>6. CASE DeleteGoes(w)
  <2>1. meta' = meta /\ docs' = docs /\ reqs[w].call.op = "delete"
    BY <1>6 DEF DeleteGoes, store, DeleteByDocument
  <2>2. reqs'[w].at \in {"lookup", "read"} => reqs'[w].todo = meta.sizes
    BY <1>0, <1>6 DEF DeleteGoes, LeftOK
  <2>3. reqs'[w].at = "purge" => reqs'[w].todo \subseteq meta.sizes /\ docs[reqs[w].call.doc] # None
    BY <1>0, <1>6 DEF DeleteGoes, LeftOK
  <2> QED
    BY <1>1, <2>1, <2>2, <2>3 DEF LeftOK
<1> QED
  BY <1>2, <1>3, <1>4, <1>5, <1>6

(* One that begins has nothing begun.                                      *)
LEMMA LeftEnters ==
    ASSUME NEW w, reqs'[w].at = Entry(reqs'[w].call.op)
    PROVE  LeftOK(w)'
BY DEF LeftOK, Entry, Creating

(* A request goes on with a part of what it had still to do, so what is    *)
(* left stays a part of what it set out to do.                             *)
LEMMA LeftOn ==
    ASSUME CalmInv, NEW w \in Workers, Acts(w), faults' = faults
    PROVE  LeftInv'
<1> SUFFICES ASSUME NEW v \in Busy'
             PROVE  LeftOK(v)'
  BY DEF LeftInv
<1>0. w \in Busy /\ TypeInv /\ BootInv /\ v \in Workers
  BY CalmHas, CalmGoes DEF Busy
<1>1. CASE v # w
  <2>1. v \in Busy
    BY <1>0, <1>1, OthersStay
  <2> QED
    BY <1>1, <2>1, LeftElsewhere
<1>2. CASE v = w
  <2>1. ASSUME \/ BootGoes(w) \/ DownGoes(w) \/ PingGoes(w) \/ CreateGoes(w) \/ DropGoes(w)
               \/ PutGoes(w) \/ DeleteGoes(w)
        PROVE  LeftOK(w)'
    BY <1>0, <2>1, LeftGoesOn
  <2>2. ASSUME NEW kept, Answers(w, kept)
        PROVE  LeftOK(w)'
    <3>1. PICK c \in ClientCalls, rest \in Seq(PutCalls) : Enters(w, c, rest, kept)
      BY <1>0, <1>2, <2>2, AnswersHas
    <3> QED
      BY <1>0, <3>1, EntersHas, LeftEnters
  <2>3. ASSUME Opens(w)
        PROVE  LeftOK(w)'
    <3>1. PICK c \in ClientCalls, rest \in Seq(PutCalls) : Enters(w, c, rest, promised)
      BY <1>0, <2>3, OpensHas
    <3> QED
      BY <1>0, <3>1, EntersHas, LeftEnters
  <2> QED
    BY <1>0, <1>2, <2>1, <2>2, <2>3, CalmGoes
<1> QED
  BY <1>1, <1>2

-----------------------------------------------------------------------------
(* It is all so from the first state on.                                   *)

(* A call that begins changes none of it.                                  *)
LEMMA CalmBegins ==
    ASSUME CalmInv, NEW w \in Workers, Begin(w)
    PROVE  StandsInv' /\ FreeInv' /\ LeftInv'
<1>0. TypeInv /\ w \notin Busy /\ meta' = meta /\ colls' = colls /\ docs' = docs
  BY CalmHas, BeginEnters DEF store
<1>1. PICK c \in Menu[w] : Enters(w, c, << >>, promised)
  BY <1>0, BeginEnters
<1>2. \A v \in Workers \ {w} : (v \in Busy' <=> v \in Busy) /\ (v \in Busy => Same(v))
  BY <1>0, <1>1, OthersUnderEnter
<1>3. ASSUME NEW v \in Workers, NEW s
      PROVE  /\ InDrop(v) /\ DropSees(reqs[v], s) => InDrop(v)' /\ DropSees(reqs'[v], s)
             /\ Makes(v, s) => Makes(v, s)'
  <2>1. v = w => ~ InDrop(v) /\ ~ Makes(v, s)
    BY <1>0 DEF InDrop, Makes, InCreate
  <2>2. v # w => (v \in Busy' <=> v \in Busy) /\ (v \in Busy => Same(v))
    BY <1>2
  <2> QED
    BY <1>0, <2>1, <2>2, OthersStand DEF Makes, InCreate, InDrop, Same, DropSees, MadeSees
<1>4. StandsInv'
  BY <1>0, <1>3 DEF CalmInv, StandsInv
<1>5. FreeInv'
  BY <1>0, <1>3 DEF CalmInv, FreeInv
<1>6. LeftInv'
  <2> SUFFICES ASSUME NEW v \in Busy'
               PROVE  LeftOK(v)'
    BY DEF LeftInv
  <2>1. CASE v = w
    BY <1>0, <1>1, <2>1, EntersHas, LeftEnters
  <2>2. CASE v # w
    <3>1. v \in Workers
      BY DEF Busy
    <3>2. v \in Busy /\ Same(v)
      BY <1>2, <2>2, <3>1
    <3>3. Leftovers(reqs'[v]) = Leftovers(reqs[v])
      BY <3>2, LeftoversStay DEF Same
    <3> QED
      BY <1>0, <3>2, <3>3 DEF CalmInv, LeftInv, LeftOK, Same
  <2> QED
    BY <2>1, <2>2
<1> QED
  BY <1>4, <1>5, <1>6

(* A step that disturbs nobody and in which nothing fails keeps the calm.  *)
LEMMA CalmKept ==
    ASSUME CalmInv, PromiseInv', [PoliteNext]_vars, faults' = faults
    PROVE  CalmInv'
<1>0. TypeInv /\ BootInv /\ AloneInv /\ Unrivalled /\ [Next]_vars /\ DeleteInv /\ DropInv
      /\ WritersInv /\ MakerInv /\ InsideInv /\ MadeInv
  BY CalmHas DEF PoliteNext, CalmInv
<1>1. Polite'
  <2>1. UNCHANGED vars => Polite'
    BY DEF vars, CalmInv, Polite, Busy
  <2> QED
    BY <2>1 DEF PoliteNext
<1>2. DeleteInv' /\ DropInv'
  BY <1>0, RemovalKept
<1>3. QuietInv'
  BY <1>0, WritersKept, MakerKept, InsideKept DEF QuietInv
<1>4. MadeInv'
  BY <1>0, MadeKept
<1>5. StandsInv' /\ FreeInv' /\ LeftInv'
  <2>1. CASE UNCHANGED vars
    <3>1. UNCHANGED <<meta, colls, docs, reqs>>
      BY <2>1 DEF vars, store
    <3> QED
      BY <3>1 DEF CalmInv, StandsInv, FreeInv, LeftInv, LeftOK, Leftovers, Makes, InCreate, InDrop, Busy
  <2>2. CASE Crash
    BY <1>0, <2>2 DEF Crash, TypeInv, TypeOK
  <2>3. CASE \E w \in Workers : Begin(w)
    BY <2>3, CalmBegins
  <2>4. CASE \E w \in Workers : Acts(w)
    BY <2>4, StandsOn, FreeOn, LeftOn
  <2> QED
    BY <1>0, <2>1, <2>2, <2>3, <2>4 DEF Next, Acts
<1> QED
  BY <1>1, <1>2, <1>3, <1>4, <1>5 DEF CalmInv

(* A service that has just started is calm: nobody is at work.             *)
LEMMA InitCalm ==
    ASSUME InitService
    PROVE  CalmInv
<1>1. Busy = {}
  BY DEF InitService, Busy
<1>2. StandsInv
  <2>1. ASSUME meta # None, NEW s \in Sizes, s \in meta.sizes
        PROVE  colls[s] # None /\ colls[s].dim = meta.dim
    <3>1. colls[s] # None
      BY <2>1, InitHas
    <3> QED
      BY <2>1, <3>1 DEF InitService
  <2>2. ASSUME meta # None, NEW s \in Sizes, s \notin meta.sizes
        PROVE  colls[s] = None
    BY <2>2 DEF InitService
  <2> QED
    BY <2>1, <2>2 DEF StandsInv
<1>3. FreeInv
  BY DEF InitService, FreeInv
<1>4. LeftInv /\ Polite
  BY <1>1 DEF LeftInv, Polite
<1> QED
  BY <1>2, <1>3, <1>4, InitPromise, InitRemoval, InitQuiet, InitMade DEF CalmInv, RemovalInv

(* With nobody disturbed and nothing failing, the calm lasts.              *)
LEMMA CalmInvariance == PoliteSpec /\ [](faults = 0) => []CalmInv
<1>1. PoliteSpec => Spec
  <2>1. [PoliteNext]_vars => [Next]_vars
    BY DEF PoliteNext
  <2> QED
    BY <2>1, PTL DEF PoliteSpec, Spec
<1>2. CalmInv /\ PromiseInv' /\ [PoliteNext]_vars /\ faults = 0 /\ (faults = 0)' => CalmInv'
  BY CalmKept
<1>3. InitService => CalmInv
  BY InitCalm
<1> QED
  BY <1>1, <1>2, <1>3, PromiseInvariance, PTL DEF PoliteSpec

-----------------------------------------------------------------------------
(* What one request hides of the store, or lends to it.                    *)

(* A drop has removed the first collection: the corpus is no more.         *)
Drops(w) ==
    /\ w \in Busy /\ reqs[w].call.op = "drop"
    /\ \/ reqs[w].at \in {"present", "remove"} /\ reqs[w].todo # meta.sizes
       \/ reqs[w].at \in {"clear", "erase"}

(* A delete has purged the first collection: the document is no more.      *)
Deletes(w, d) ==
    /\ w \in Busy /\ reqs[w].call.op = "delete" /\ reqs[w].call.doc = d
    /\ \/ reqs[w].at = "purge" /\ reqs[w].todo # meta.sizes
       \/ reqs[w].at = "forget"

(* A put has written its first size: its points of the other sizes count   *)
(* as written.                                                             *)
Lends(w, p) ==
    /\ At(w, "put", "write") /\ reqs[w].todo # reqs[w].config.sizes
    /\ p \in New(w) /\ p.size \in reqs[w].todo

(* A put has removed the leftovers of one size: those of the others count  *)
(* as removed.                                                             *)
Buries(w, i) ==
    /\ At(w, "put", "delete")
    /\ reqs[w].todo # {k.size : k \in Orphans(w, reqs[w].old)}
    /\ i \in Orphans(w, reqs[w].old) /\ i.size \in reqs[w].todo

(* A point that a put lends stands in for the one of the same id.          *)
Replaces(w, i) == \E q : Lends(w, q) /\ Ref(q) = i

(* A request that has begun to do nothing yet hides nothing.               *)
Idle(w) ==
    /\ ~ Drops(w)
    /\ \A d : ~ Deletes(w, d)
    /\ \A p : ~ Lends(w, p)
    /\ \A i : ~ Buries(w, i)

(* What is hidden is what some request hides.                              *)
Hidden ==
    /\ Dropping <=> \E w \in Workers : Drops(w)
    /\ \A d : Deleting(d) <=> \E w \in Workers : Deletes(w, d)
    /\ \A p : p \in ToWrite <=> \E w \in Workers : Lends(w, p)
    /\ \A i : i \in ToDelete <=> \E w \in Workers : Buries(w, i)
    /\ \A i : i \in IdsOf(ToWrite) <=> \E w \in Workers : Replaces(w, i)

(* What Conformance hides and lends, one request at a time.                *)
LEMMA HiddenIs == Hidden
<1>1. Dropping <=> \E w \in Workers : Drops(w)
  BY DEF Dropping, Drops, Busy
<1>2. \A d : Deleting(d) <=> \E w \in Workers : Deletes(w, d)
  BY DEF Deleting, Deletes, Busy
<1>3. \A p : p \in ToWrite <=> \E w \in Workers : Lends(w, p)
  BY DEF ToWrite, Lends
<1>4. \A i : i \in ToDelete <=> \E w \in Workers : Buries(w, i)
  BY DEF ToDelete, Buries
<1>5. \A i : i \in IdsOf(ToWrite) <=> \E w \in Workers : Replaces(w, i)
  BY <1>3 DEF IdsOf, Replaces
<1> QED
  BY <1>1, <1>2, <1>3, <1>4, <1>5 DEF Hidden

(* Before a step and after it.                                             *)
LEMMA HiddenBothWays == Hidden /\ Hidden'
BY HiddenIs, PTL

(* A point is there for a caller when a put is about to write it, or when  *)
(* a collection holds it and nobody is about to take it away.              *)
Shown(p) ==
    \/ \E w \in Workers : Lends(w, p)
    \/ \E d \in Docs, s \in meta.sizes :
          /\ p \in HeldAt(d, s)
          /\ \A w \in Workers : ~ Deletes(w, d) /\ ~ Buries(w, Ref(p)) /\ ~ Replaces(w, Ref(p))

(* The points the in-memory store is said to hold are those there for a    *)
(* caller of a corpus that exists.                                         *)
LEMMA PromisedIs == \A p : p \in PromisedPoints <=> Exists /\ Shown(p)
<1> SUFFICES ASSUME NEW p
             PROVE  p \in PromisedPoints <=> Exists /\ Shown(p)
  OBVIOUS
<1> DEFINE Around == UNION {Stored(d, meta.sizes) : d \in {e \in Docs : ~ Deleting(e)}}
<1>1. p \in Around <=> \E d \in Docs : ~ Deleting(d) /\ p \in Stored(d, meta.sizes)
  OBVIOUS
<1>2. \A d : p \in Stored(d, meta.sizes) <=> \E s \in meta.sizes : p \in HeldAt(d, s)
  BY StoredIs
<1>3. p \in Around <=> \E d \in Docs : ~ Deleting(d) /\ \E s \in meta.sizes : p \in HeldAt(d, s)
  BY <1>1, <1>2
<1>4. p \in PromisedPoints <=>
         /\ Exists
         /\ \/ p \in ToWrite
            \/ p \in Around /\ Ref(p) \notin ToDelete /\ Ref(p) \notin IdsOf(ToWrite)
  BY DEF PromisedPoints
<1>5. Shown(p) <=>
         \/ p \in ToWrite
         \/ p \in Around /\ Ref(p) \notin ToDelete /\ Ref(p) \notin IdsOf(ToWrite)
  BY <1>3, HiddenIs DEF Shown, Hidden
<1> QED
  BY <1>4, <1>5

(* The same, as a formula a step can prime.                                *)
PromisedAreShown == \A p : p \in PromisedPoints <=> Exists /\ Shown(p)

(* Before a step and after it.                                             *)
LEMMA ShownBothWays == PromisedAreShown /\ PromisedAreShown'
<1>1. PromisedAreShown
  BY PromisedIs DEF PromisedAreShown
<1> QED
  BY <1>1, PTL

(* What a request hides is the same after a step.                          *)
SameView(v) ==
    /\ Drops(v)' <=> Drops(v)
    /\ \A d : Deletes(v, d)' <=> Deletes(v, d)
    /\ \A p : Lends(v, p)' <=> Lends(v, p)
    /\ \A i : Buries(v, i)' <=> Buries(v, i)
    /\ \A i : Replaces(v, i)' <=> Replaces(v, i)

(* A request that stays as it is hides what it hid, as long as the grid it *)
(* works on is the same.                                                   *)
LEMMA ViewOf ==
    ASSUME NEW v \in Workers, v \in Busy' <=> v \in Busy, v \in Busy => Same(v),
           meta' = meta \/ ~ (v \in Busy /\ reqs[v].call.op \in {"put", "delete", "drop"})
    PROVE  SameView(v)
<1>1. v \in Busy => New(v)' = New(v) /\ Orphans(v, reqs[v].old)' = Orphans(v, reqs[v].old)
  BY DEF Same, New, Orphans
<1>2. Drops(v)' <=> Drops(v)
  BY DEF Drops, Same
<1>3. \A d : Deletes(v, d)' <=> Deletes(v, d)
  BY DEF Deletes, Same
<1>4. \A p : Lends(v, p)' <=> Lends(v, p)
  BY <1>1 DEF Lends, Same, At
<1>5. \A i : Buries(v, i)' <=> Buries(v, i)
  <2> SUFFICES ASSUME NEW i
               PROVE  Buries(v, i)' <=> Buries(v, i)
    OBVIOUS
  <2>1. PICK O : O = Orphans(v, reqs[v].old)
    OBVIOUS
  <2>2. PICK N : N = Orphans(v, reqs[v].old)'
    OBVIOUS
  <2>3. Buries(v, i) <=>
          /\ At(v, "put", "delete")
          /\ reqs[v].todo # {k.size : k \in O} /\ i \in O /\ i.size \in reqs[v].todo
    BY <2>1 DEF Buries
  <2>4. Buries(v, i)' <=>
          /\ At(v, "put", "delete")'
          /\ reqs'[v].todo # {k.size : k \in N} /\ i \in N /\ i.size \in reqs'[v].todo
    BY <2>2 DEF Buries
  <2>5. v \in Busy => N = O
    BY <1>1, <2>1, <2>2
  <2> QED
    BY <2>3, <2>4, <2>5 DEF At, Same
<1>6. \A i : Replaces(v, i)' <=> Replaces(v, i)
  BY <1>4 DEF Replaces
<1> QED
  BY <1>2, <1>3, <1>4, <1>5, <1>6 DEF SameView

(* A request that begins, and one that is no more, hides nothing.          *)
LEMMA IdleHides ==
    ASSUME NEW w
    PROVE  /\ w \notin Busy => Idle(w)
           /\ reqs[w].at = Entry(reqs[w].call.op) => Idle(w)
           /\ reqs[w].call.op \notin {"put", "delete", "drop"} => Idle(w)
           /\ reqs[w].call.op = "put" /\ reqs[w].at \notin {"write", "delete"} => Idle(w)
           /\ reqs[w].call.op = "delete" /\ reqs[w].at \notin {"purge", "forget"} => Idle(w)
           /\ reqs[w].call.op = "drop"
                 /\ reqs[w].at \notin {"present", "remove", "clear", "erase"} => Idle(w)
BY DEF Idle, Drops, Deletes, Lends, Buries, At, Entry

(* The same, as a formula a step can prime.                                *)
IdleWhen == \A w \in Workers :
    /\ w \notin Busy => Idle(w)
    /\ reqs[w].at = Entry(reqs[w].call.op) => Idle(w)
    /\ reqs[w].call.op \notin {"put", "delete", "drop"} => Idle(w)
    /\ reqs[w].call.op = "put" /\ reqs[w].at \notin {"write", "delete"} => Idle(w)
    /\ reqs[w].call.op = "delete" /\ reqs[w].at \notin {"purge", "forget"} => Idle(w)
    /\ reqs[w].call.op = "drop"
          /\ reqs[w].at \notin {"present", "remove", "clear", "erase"} => Idle(w)

(* Before a step and after it.                                             *)
LEMMA IdleBothWays == IdleWhen /\ IdleWhen'
<1>1. IdleWhen
  BY IdleHides DEF IdleWhen
<1> QED
  BY <1>1, PTL

(* Who hides nothing before a step and after it changes no view.           *)
LEMMA IdleStays ==
    ASSUME NEW w, Idle(w), Idle(w)'
    PROVE  SameView(w)
BY DEF Idle, SameView, Replaces

-----------------------------------------------------------------------------
(* Steps of which a caller sees nothing.                                   *)

(* Nothing moves that a caller could see, when no view changes and the     *)
(* collections, the records and the grid hold what they held.              *)
LEMMA Silent ==
    ASSUME TypeInv, \A v \in Workers : SameView(v), meta' = meta,
           \A d \in Docs : docs'[d] = docs[d],
           \A d \in Docs, s \in Sizes : HeldAt(d, s)' = HeldAt(d, s)
    PROVE  UNCHANGED Memory!store
<1>1. (\E w \in Workers : Drops(w))' <=> (\E w \in Workers : Drops(w))
  BY DEF SameView
<1>2. Dropping' <=> Dropping
  BY <1>1, HiddenBothWays DEF Hidden
<1>3. Exists' <=> Exists
  BY <1>2 DEF Exists
<1>4. \A d : Deleting(d)' <=> Deleting(d)
  BY HiddenBothWays DEF Hidden, SameView
<1>5. PromisedRecords' = PromisedRecords
  BY <1>3, <1>4 DEF PromisedRecords
<1>6. ASSUME Exists, NEW p
      PROVE  Shown(p)' <=> Shown(p)
  <2>1. meta.sizes \subseteq Sizes
    BY <1>6, MetaHas DEF Exists
  <2> QED
    BY <2>1 DEF Shown, SameView
<1>7. PromisedPoints' = PromisedPoints
  BY <1>3, <1>6, ShownBothWays DEF PromisedAreShown
<1> QED
  BY <1>3, <1>5, <1>7 DEF Memory!store

(* What the others hide a step leaves alone.                               *)
LEMMA OthersView ==
    ASSUME CalmInv, NEW w \in Workers, Acts(w), NEW v \in Workers \ {w}
    PROVE  SameView(v)
<1>1. (v \in Busy' <=> v \in Busy) /\ (v \in Busy => Same(v))
  BY CalmHas, OthersStay
<1>2. meta' # meta /\ v \in Busy => reqs[v].call.op \notin {"put", "delete", "drop"}
  BY CalmHas, MetaStays
<1> QED
  BY <1>1, <1>2, ViewOf

(* One that has its answer, or opens its batch, has begun to do nothing.   *)
LEMMA StartsIdle ==
    ASSUME TypeInv, NEW w \in Busy, Opens(w) \/ \E kept : Answers(w, kept)
    PROVE  Idle(w)'
<1>0. w \in Workers
  BY DEF Busy
<1>1. CASE w \notin Busy'
  BY <1>0, <1>1, IdleBothWays DEF IdleWhen
<1>2. CASE w \in Busy'
  <2>0. PICK kept : \E c \in ClientCalls, rest \in Seq(PutCalls) : Enters(w, c, rest, kept)
    BY <1>2, AnswersHas, OpensHas
  <2>1. PICK c \in ClientCalls, rest \in Seq(PutCalls) : Enters(w, c, rest, kept)
    BY <2>0
  <2>2. reqs'[w].at = Entry(reqs'[w].call.op)
    BY <1>0, <2>1, EntersHas
  <2> QED
    BY <1>0, <2>2, IdleBothWays DEF IdleWhen
<1> QED
  BY <1>1, <1>2

(* A step of a request that hides nothing, and touches no document, is one *)
(* a caller does not see.                                                  *)
LEMMA IdleStep ==
    ASSUME CalmInv, NEW w \in Workers, Acts(w), Idle(w), Idle(w)', meta' = meta,
           \/ UNCHANGED store
           \/ reqs[w].call.op \in {"create", "health"}
    PROVE  UNCHANGED Memory!store
<1>0. w \in Busy /\ TypeInv /\ BootInv
  BY CalmHas, ActsGo
<1>1. \A v \in Workers : SameView(v)
  BY OthersView, IdleStays
<1>2. ASSUME NEW d \in Docs, NEW s \in Sizes
      PROVE  docs'[d] = docs[d] /\ HeldAt(d, s)' = HeldAt(d, s)
  <2>1. CASE UNCHANGED store
    BY <2>1 DEF store, HeldAt, Held
  <2>2. CASE reqs[w].call.op \in {"create", "health"}
    <3>1. ~ Writes(reqs[w].call, d)
      BY <2>2 DEF Writes
    <3> QED
      BY <1>0, <3>1, ActsSpare
  <2> QED
    BY <2>1, <2>2
<1>3. \A d \in Docs : docs'[d] = docs[d]
  BY <1>2, GridAssumption
<1> QED
  BY <1>0, <1>1, <1>2, <1>3, Silent

(* The bootstrap, and a health check, are nothing to a caller.             *)
LEMMA BootIsSilent ==
    ASSUME CalmInv, NEW w \in Workers, Acts(w), BootGoes(w) \/ DownGoes(w) \/ PingGoes(w) \/ CreateGoes(w)
    PROVE  UNCHANGED Memory!store
<1>0. w \in Busy /\ TypeInv /\ BootInv
  BY CalmHas, ActsGo
<1>1. reqs[w].call.op \in {"create", "health"} /\ reqs'[w].call = reqs[w].call
  BY DEF BootGoes, DownGoes, PingGoes, CreateGoes, Steady, Onward
<1>2. Idle(w) /\ Idle(w)'
  <2>1. reqs'[w].call.op \notin {"put", "delete", "drop"}
    BY <1>1
  <2> QED
    BY <1>1, <2>1, IdleBothWays DEF IdleWhen
<1>3. meta' = meta
  <2>1. ~ (reqs[w].call.op = "create" /\ reqs[w].at = "save")
    BY DEF BootGoes, DownGoes, PingGoes, CreateGoes
  <2> QED
    BY <1>0, <1>1, <2>1, ActsLeave
<1> QED
  BY <1>1, <1>2, <1>3, IdleStep

(* Nor is a refusal, nor is a batch that opens, nor the report.            *)
LEMMA RefusalIsSilent ==
    ASSUME CalmInv, NEW w \in Busy, Acts(w), UNCHANGED store,
           \/ Refused(w) /\ Answers(w, promised)
           \/ Opens(w)
           \/ reqs[w].call.op = "health" /\ Answers(w, Returned(w))
    PROVE  UNCHANGED Memory!store
<1>0. w \in Workers /\ TypeInv
  BY CalmHas DEF Busy
<1>1. Idle(w)'
  BY <1>0, StartsIdle
<1>2. Idle(w)
  <2>1. CASE Refused(w)
    <3>1. /\ reqs[w].call.op = "put" => reqs[w].at \notin {"write", "delete", "record"}
          /\ reqs[w].call.op = "delete" => reqs[w].at \notin {"purge", "forget"}
          /\ ~ InDrop(w)
      BY <2>1, RefusedEarly
    <3>2. reqs[w].call.op = "drop" =>
             reqs[w].at \notin {"present", "remove", "clear", "erase"}
      BY <3>1 DEF InDrop
    <3> QED
      BY <1>0, <3>1, <3>2, IdleBothWays DEF IdleWhen
  <2>2. CASE Opens(w) \/ reqs[w].call.op = "health"
    <3>1. reqs[w].call.op \in {"batch", "health"}
      BY <2>2 DEF Opens
    <3>2. reqs[w].call.op \notin {"put", "delete", "drop"}
      BY <3>1
    <3> QED
      BY <1>0, <3>2, IdleBothWays DEF IdleWhen
  <2> QED
    BY <2>1, <2>2
<1> QED
  BY <1>0, <1>1, <1>2, IdleStep DEF store

-----------------------------------------------------------------------------
(* A corpus is there at once when its config is saved, and gone at once    *)
(* when its first collection is.                                           *)

(* Without a corpus before and after, there is nothing to see.             *)
LEMMA NothingThere ==
    ASSUME ~ Exists, ~ Exists'
    PROVE  UNCHANGED Memory!store
BY DEF Exists, PromisedPoints, PromisedRecords, Memory!store

(* While it drops or makes the corpus, it is the only one at work.         *)
LEMMA NobodyElse ==
    ASSUME CalmInv, NEW w \in Busy, reqs[w].call.op \in {"create", "drop"},
           NEW v \in Workers \ {w}
    PROVE  Idle(v) /\ (Acts(w) => Idle(v)')
<1>1. v \in Busy => reqs[v].call.op \notin {"put", "delete", "drop"}
  BY NoClash DEF Clash
<1>2. Idle(v)
  BY <1>1, IdleHides
<1>3. w \in Workers
  BY DEF Busy
<1>4. Acts(w) => SameView(v)
  BY <1>3, OthersView
<1> QED
  BY <1>2, <1>4 DEF Idle, SameView

(* The removal of the first collection is the whole drop; the rest of them *)
(* are seen by nobody.                                                     *)
LEMMA DropIsOneCall ==
    ASSUME CalmInv, NEW w \in Workers, Acts(w), DropGoes(w)
    PROVE  Memory!DropCorpus \/ UNCHANGED Memory!store
<1>0. w \in Busy /\ TypeInv /\ BootInv /\ LeftOK(w)
  BY CalmHas, ActsGo DEF CalmInv, LeftInv
<1>1. /\ reqs[w].call.op = "drop" /\ w \in Busy' /\ reqs'[w].call = reqs[w].call
      /\ meta' = meta
  <2>1. reqs'[w] \in Requests /\ reqs'[w].call = reqs[w].call
    BY DEF DropGoes, Onward
  <2> QED
    BY <2>1, NoneAssumption DEF DropGoes, store, DeleteCollection, PurgeRegistry, Busy
<1>2. ASSUME reqs[w].at \in {"present", "remove"}
      PROVE  Rest(w) # meta.sizes
    <2>1. Size(w) \in reqs[w].todo /\ reqs[w].todo \subseteq meta.sizes
      BY <1>0, <1>1, <1>2, BusyHas, SizeIsLeft DEF LeftOK, PlaceOK, Looping
    <2> QED
      BY <2>1 DEF Rest
<1>3. Drops(w) => Drops(w)'
  BY <1>0, <1>1, <1>2 DEF Drops, DropGoes
<1>4. \A v \in Workers \ {w} : ~ Drops(v)
  BY <1>0, <1>1, NobodyElse DEF Idle
<1>5. CASE Drops(w)'
  <2>1. Dropping'
    BY <1>5, HiddenBothWays DEF Hidden
  <2>2. ~ Exists'
    BY <2>1 DEF Exists
  <2>3. CASE Drops(w)
    <3>1. ~ Exists
      BY <2>3, HiddenBothWays DEF Hidden, Exists
    <3> QED
      BY <2>2, <3>1, NothingThere
  <2>4. CASE ~ Drops(w)
    <3>1. reqs[w].at \in {"present", "remove"}
      BY <1>1, <1>5, <2>4, <1>0 DEF Drops, DropGoes
    <3>2. meta # None
      BY <1>0, <1>1, <3>1 DEF CalmInv, Polite, DropInv, DropOK
    <3>3. ~ Dropping
      BY <1>4, <2>4, HiddenBothWays DEF Hidden
    <3>4. Exists
      BY <3>2, <3>3 DEF Exists
    <3> QED
      BY <2>2, <3>2, <3>4 DEF Memory!DropCorpus, PromisedPoints, PromisedRecords
  <2> QED
    BY <2>3, <2>4
<1>6. CASE ~ Drops(w)'
  <2>1. ~ Drops(w)
    BY <1>3, <1>6
  <2>2. reqs[w].at \notin {"remove", "clear"}
    BY <1>0, <1>1, <1>2, <1>6, <2>1 DEF Drops, DropGoes
  <2>3. UNCHANGED store
    BY <2>2 DEF DropGoes
  <2>4. Idle(w) /\ Idle(w)'
    BY <1>1, <1>6, <2>1 DEF Idle, Deletes, Lends, Buries, At
  <2> QED
    BY <1>1, <2>3, <2>4, IdleStep
<1> QED
  BY <1>5, <1>6

(* The end of a drop erases a grid of which a caller saw nothing any more. *)
LEMMA DropEnds ==
    ASSUME CalmInv, NEW w \in Busy, reqs[w].call.op = "drop", reqs[w].at = "erase", WriteMeta(None)
    PROVE  UNCHANGED Memory!store
<1>0. w \in Workers
  BY DEF Busy
<1>1. Drops(w)
  BY DEF Drops
<1>2. ~ Exists
  BY <1>0, <1>1, HiddenBothWays DEF Hidden, Exists
<1>3. ~ Exists'
  BY DEF Exists, WriteMeta
<1> QED
  BY <1>2, <1>3, NothingThere

(* The end of a create, the save of its grid, is the whole call.           *)
LEMMA CreateEnds ==
    ASSUME CalmInv, NEW w \in Busy, Acts(w), reqs[w].call.op = "create", reqs[w].at = "save",
           WriteMeta(reqs[w].call.config), Answers(w, Returned(w))
    PROVE  \E c \in Configs : Memory!CreateCorpus(c)
<1>0. w \in Workers /\ TypeInv
  BY CalmHas DEF Busy
<1>1. PICK c \in Configs : c = reqs[w].call.config
  BY <1>0, BusyHas, CallHas DEF Requests
<1>2. c # None /\ c.sizes \subseteq Sizes
  BY NoneAssumption, ServiceAssumption
<1>3. meta = None /\ meta' = c /\ colls' = colls /\ docs' = docs
  BY <1>0, <1>1, CalmHas DEF MakerInv, InCreate, Creating, WriteMeta
<1>4. \A v \in Workers : Idle(v)'
  BY <1>0, StartsIdle, NobodyElse
<1>5. ~ Exists /\ Exists'
  <2>1. ~ Dropping'
    BY <1>4, HiddenBothWays DEF Hidden, Idle
  <2> QED
    BY <1>2, <1>3, <2>1 DEF Exists
<1>6. PromisedPoints' = {}
  <2> SUFFICES ASSUME NEW p, Shown(p)'
               PROVE  FALSE
    BY ShownBothWays DEF PromisedAreShown
  <2>1. PICK d \in Docs, s \in meta'.sizes : p \in HeldAt(d, s)'
    BY <1>4 DEF Shown, Idle
  <2>2. HeldAt(d, s)' = HeldAt(d, s)
    BY <1>3 DEF HeldAt, Held
  <2>3. HeldAt(d, s) = {}
    BY <1>1, <1>2, <1>3, <2>1, CalmHas DEF InsideInv
  <2> QED
    BY <2>1, <2>2, <2>3
<1>7. PromisedRecords' = [d \in Docs |-> None]
  <2>1. \A d \in Docs : docs'[d] = None
    BY <1>3 DEF CalmInv, FreeInv
  <2> QED
    BY <2>1 DEF PromisedRecords
<1>8. Memory!CreateCorpus(c)
  BY <1>3, <1>5, <1>6, <1>7 DEF Memory!CreateCorpus
<1> QED
  BY <1>8

-----------------------------------------------------------------------------
(* A put or a delete changes what is there of its own document alone.      *)

(* What it hides is of this document.                                      *)
Confined(w, e) ==
    /\ \A d : Deletes(w, d) => d = e
    /\ \A p : Lends(w, p) => p.doc = e
    /\ \A i : Buries(w, i) => i.doc = e
    /\ \A i : Replaces(w, i) => i.doc = e

(* None of it is of this document, nor the corpus.                         *)
Apart(w, e) ==
    /\ ~ Drops(w) /\ ~ Deletes(w, e)
    /\ \A p : Lends(w, p) => p.doc # e
    /\ \A i : Buries(w, i) => i.doc # e
    /\ \A i : Replaces(w, i) => i.doc # e

(* The same, as a formula a step can prime: puts and deletes hide and lend *)
(* points of their own document.                                           *)
AllConfined == TypeInv => \A w \in Busy :
    reqs[w].call.op \in {"put", "delete"} => Confined(w, reqs[w].call.doc)

(* Before a step and after it.                                             *)
LEMMA AreConfined == AllConfined /\ AllConfined'
<1>1. AllConfined
  <2> SUFFICES ASSUME TypeInv, NEW w \in Busy
               PROVE  Confined(w, reqs[w].call.doc)
    BY DEF AllConfined
  <2>1. \A d : Deletes(w, d) => d = reqs[w].call.doc
    BY DEF Deletes
  <2>2. \A p : Lends(w, p) => p.doc = reqs[w].call.doc
    BY NewIs DEF Lends
  <2>3. \A i : Buries(w, i) => i.doc = reqs[w].call.doc
    BY BusyHas DEF Buries, At, PlaceOK, Orphans
  <2>4. \A i : Replaces(w, i) => i.doc = reqs[w].call.doc
    BY <2>2 DEF Replaces, Ref
  <2> QED
    BY <2>1, <2>2, <2>3, <2>4 DEF Confined
<1> QED
  BY <1>1, PTL

(* Next to a put or a delete that is not disturbed, nobody hides anything  *)
(* of its document.                                                        *)
LEMMA StandApart ==
    ASSUME CalmInv, NEW w \in Busy, reqs[w].call.op \in {"put", "delete"},
           NEW v \in Workers \ {w}
    PROVE  Apart(v, reqs[w].call.doc)
<1>1. CASE ~ (v \in Busy /\ reqs[v].call.op \in {"put", "delete", "drop"})
  <2>1. Idle(v)
    BY <1>1, IdleHides
  <2> QED
    BY <2>1 DEF Idle, Apart, Replaces
<1>2. CASE v \in Busy /\ reqs[v].call.op \in {"put", "delete", "drop"}
  <2>1. reqs[v].call.op \in {"put", "delete"} /\ reqs[v].call.doc # reqs[w].call.doc
    BY <1>2, NoClash DEF Clash
  <2>2. Confined(v, reqs[v].call.doc)
    BY <1>2, <2>1, CalmHas, AreConfined DEF AllConfined
  <2> QED
    BY <2>1, <2>2 DEF Confined, Apart, Drops
<1> QED
  BY <1>1, <1>2

(* So of its own document there is what it lends, and what it does not     *)
(* hide of what the collections hold.                                      *)
OwnShows(w, d, p) ==
    \/ Lends(w, p)
    \/ /\ \E s \in meta.sizes : p \in HeldAt(d, s)
       /\ ~ Deletes(w, d) /\ ~ Buries(w, Ref(p)) /\ ~ Replaces(w, Ref(p))

(* Of a document that one request alone works on, a caller sees what the   *)
(* view of that request leaves.                                            *)
OwnIsShown == \A w \in Workers, d \in Docs :
    (\A v \in Workers \ {w} : Apart(v, d)) =>
        /\ \A p : p.doc = d => (Shown(p) <=> OwnShows(w, d, p))
        /\ Deleting(d) <=> Deletes(w, d)
        /\ Dropping <=> Drops(w)

(* Before a step and after it.                                             *)
LEMMA OwnBothWays == OwnIsShown /\ OwnIsShown'
<1>1. OwnIsShown
  <2> SUFFICES ASSUME NEW w \in Workers, NEW d \in Docs, \A v \in Workers \ {w} : Apart(v, d)
               PROVE  /\ \A p : p.doc = d => (Shown(p) <=> OwnShows(w, d, p))
                      /\ Deleting(d) <=> Deletes(w, d)
                      /\ Dropping <=> Drops(w)
    BY DEF OwnIsShown
  <2>1. ASSUME NEW p, p.doc = d
        PROVE  Shown(p) <=> OwnShows(w, d, p)
    <3>1. Ref(p).doc = d
      BY <2>1 DEF Ref
    <3>2. \A v \in Workers \ {w} : ~ Lends(v, p) /\ ~ Deletes(v, d) /\ ~ Buries(v, Ref(p))
                                   /\ ~ Replaces(v, Ref(p))
      BY <2>1, <3>1 DEF Apart
    <3>3. \A e \in Docs, s \in meta.sizes : p \in HeldAt(e, s) => e = d
      BY <2>1 DEF HeldAt, Held
    <3>4. ASSUME Shown(p)
          PROVE  OwnShows(w, d, p)
      BY <3>2, <3>3, <3>4 DEF Shown, OwnShows
    <3>5. ASSUME OwnShows(w, d, p)
          PROVE  Shown(p)
      BY <3>2, <3>5 DEF Shown, OwnShows
    <3> QED
      BY <3>4, <3>5
  <2>2. (Deleting(d) <=> Deletes(w, d)) /\ (Dropping <=> Drops(w))
    BY HiddenIs DEF Hidden, Apart
  <2> QED
    BY <2>1, <2>2
<1> QED
  BY <1>1, PTL

(* A step of a put or a delete moves only what a caller sees of its own    *)
(* document, and that is the view of the request.                          *)
LEMMA OneDocument ==
    ASSUME CalmInv, NEW w \in Busy, Acts(w), reqs[w].call.op \in {"put", "delete"},
           NEW e, e = reqs[w].call.doc, meta' = meta, meta # None,
           Confined(w, e)', ~ Drops(w)'
    PROVE  /\ e \in Docs /\ Exists /\ Exists'
           /\ \A p : p.doc # e => (p \in PromisedPoints' <=> p \in PromisedPoints)
           /\ \A p : p.doc = e => /\ p \in PromisedPoints <=> OwnShows(w, e, p)
                                  /\ p \in PromisedPoints' <=> OwnShows(w, e, p)'
           /\ \A d \in Docs \ {e} : PromisedRecords'[d] = PromisedRecords[d]
           /\ PromisedRecords[e] = IF Deletes(w, e) THEN None ELSE docs[e]
           /\ PromisedRecords'[e] = IF Deletes(w, e)' THEN None ELSE docs'[e]
<1>0. w \in Workers /\ TypeInv /\ BootInv /\ e \in Docs
  BY CalmHas, BusyHas, CallHas DEF Busy, Requests
<1>1. \A v \in Workers \ {w} : SameView(v)
  BY <1>0, OthersView
<1>2. \A v \in Workers \ {w} : Apart(v, e)
  BY StandApart
<1>3. \A v \in Workers \ {w} : Apart(v, e)'
  BY <1>1, <1>2 DEF Apart, SameView
<1>4. ~ Drops(w)
  BY DEF Drops
<1>5. /\ \A p : p.doc = e => (Shown(p) <=> OwnShows(w, e, p))
      /\ Deleting(e) <=> Deletes(w, e)
      /\ ~ Dropping
  BY <1>0, <1>2, <1>4, OwnBothWays DEF OwnIsShown
<1>6. /\ \A p : p.doc = e => (Shown(p)' <=> OwnShows(w, e, p)')
      /\ Deleting(e)' <=> Deletes(w, e)'
      /\ ~ Dropping'
  BY <1>0, <1>3, OwnBothWays DEF OwnIsShown
<1>7. Exists /\ Exists'
  BY <1>5, <1>6 DEF Exists
<1>8. Confined(w, e)
  BY <1>0, AreConfined DEF AllConfined
<1>9. ASSUME NEW d \in Docs \ {e}, NEW s \in Sizes
      PROVE  docs'[d] = docs[d] /\ HeldAt(d, s)' = HeldAt(d, s)
  <2>1. ~ Writes(reqs[w].call, d)
    BY <1>9 DEF Writes
  <2> QED
    BY <1>0, <1>9, <2>1, ActsSpare
<1>10. ASSUME NEW p, p.doc # e
       PROVE  Shown(p)' <=> Shown(p)
  <2>1. Ref(p).doc # e
    BY <1>10 DEF Ref
  <2>2. /\ ~ Lends(w, p) /\ ~ Buries(w, Ref(p)) /\ ~ Replaces(w, Ref(p))
        /\ ~ Lends(w, p)' /\ ~ Buries(w, Ref(p))' /\ ~ Replaces(w, Ref(p))'
    BY <1>8, <1>10, <2>1 DEF Confined
  <2>3. \A d \in Docs \ {e} : ~ Deletes(w, d) /\ ~ Deletes(w, d)'
    BY <1>8 DEF Confined
  <2>4. \A d \in Docs, s \in meta.sizes : p \in HeldAt(d, s) => d # e
    BY <1>10 DEF HeldAt, Held
  <2>5. \A d \in Docs, s \in meta.sizes : p \in HeldAt(d, s)' => d # e
    BY <1>10 DEF HeldAt, Held
  <2>6. \A d \in Docs \ {e}, s \in meta.sizes : HeldAt(d, s)' = HeldAt(d, s)
    BY <1>0, <1>9, MetaHas
  <2>7. \A v \in Workers : /\ Lends(v, p)' <=> Lends(v, p)
                           /\ Buries(v, Ref(p))' <=> Buries(v, Ref(p))
                           /\ Replaces(v, Ref(p))' <=> Replaces(v, Ref(p))
                           /\ \A d \in Docs \ {e} : Deletes(v, d)' <=> Deletes(v, d)
    BY <1>1, <2>2, <2>3 DEF SameView
  <2> QED
    BY <2>4, <2>5, <2>6, <2>7 DEF Shown
<1>11. ASSUME NEW d \in Docs \ {e}
       PROVE  PromisedRecords'[d] = PromisedRecords[d]
  <2>1. \A v \in Workers : Deletes(v, d)' <=> Deletes(v, d)
    BY <1>1, <1>8 DEF SameView, Confined
  <2>2. Deleting(d)' <=> Deleting(d)
    BY <2>1, HiddenBothWays DEF Hidden
  <2>3. docs'[d] = docs[d]
    BY <1>9, GridAssumption
  <2> QED
    BY <1>7, <2>2, <2>3 DEF PromisedRecords
<1>12. /\ PromisedRecords[e] = IF Deletes(w, e) THEN None ELSE docs[e]
       /\ PromisedRecords'[e] = IF Deletes(w, e)' THEN None ELSE docs'[e]
  BY <1>0, <1>5, <1>6, <1>7 DEF PromisedRecords
<1>13. ASSUME NEW p
       PROVE  /\ p.doc # e => (p \in PromisedPoints' <=> p \in PromisedPoints)
              /\ p.doc = e => /\ p \in PromisedPoints <=> OwnShows(w, e, p)
                              /\ p \in PromisedPoints' <=> OwnShows(w, e, p)'
  BY <1>5, <1>6, <1>7, <1>10, ShownBothWays DEF PromisedAreShown
<1> QED
  BY <1>0, <1>7, <1>11, <1>12, <1>13

-----------------------------------------------------------------------------
(* A record is written by the step that writes it; a document is gone at   *)
(* once when the points of its first size are.                             *)

(* Who hides nothing hides nothing of other documents either.              *)
LEMMA IdleIsConfined ==
    ASSUME NEW w, NEW e, Idle(w)'
    PROVE  Confined(w, e)' /\ ~ Drops(w)'
BY DEF Idle, Confined, Replaces

(* Nothing lent, nothing hidden: what the collections hold is there.       *)
LEMMA IdleShows ==
    ASSUME NEW w, NEW e
    PROVE  /\ Idle(w) => \A p : OwnShows(w, e, p) <=> \E s \in meta.sizes : p \in HeldAt(e, s)
           /\ Idle(w)' => \A p : OwnShows(w, e, p)' <=> \E s \in meta'.sizes : p \in HeldAt(e, s)'
BY DEF Idle, OwnShows, Replaces

(* The end of a put, the save of its record, is a call of its own.         *)
LEMMA RecordEnds ==
    ASSUME CalmInv, NEW w \in Busy, Acts(w), reqs[w].call.op = "put", reqs[w].at = "record",
           WriteRecord(reqs[w].call.doc, reqs[w].call.text), Answers(w, Returned(w))
    PROVE  \E d \in Docs, t \in Texts : Memory!PutDocumentMeta(d, t)
<1>0. w \in Workers /\ TypeInv /\ meta' = meta /\ meta # None
  BY CalmHas, PutGrid DEF Busy, WriteRecord
<1>1. PICK e \in Docs, t \in Texts : e = reqs[w].call.doc /\ t = reqs[w].call.text
  BY <1>0, PutHas
<1>2. Idle(w) /\ Idle(w)'
  <2>1. Idle(w)
    BY <1>0, IdleBothWays DEF IdleWhen
  <2> QED
    BY <1>0, <2>1, StartsIdle
<1>3. /\ Exists /\ Exists'
      /\ \A p : p.doc # e => (p \in PromisedPoints' <=> p \in PromisedPoints)
      /\ \A p : p.doc = e => /\ p \in PromisedPoints <=> OwnShows(w, e, p)
                             /\ p \in PromisedPoints' <=> OwnShows(w, e, p)'
      /\ \A d \in Docs \ {e} : PromisedRecords'[d] = PromisedRecords[d]
      /\ PromisedRecords'[e] = IF Deletes(w, e)' THEN None ELSE docs'[e]
  <2>1. Confined(w, e)' /\ ~ Drops(w)'
    BY <1>2, IdleIsConfined
  <2> QED
    BY <1>0, <1>1, <2>1, OneDocument
<1>4. PromisedPoints' = PromisedPoints
  <2>1. \A s : HeldAt(e, s)' = HeldAt(e, s)
    BY DEF WriteRecord, HeldAt, Held
  <2>2. \A p : p \in PromisedPoints' <=> p \in PromisedPoints
    BY <1>0, <1>2, <1>3, <2>1, IdleShows
  <2> QED
    BY <2>2 DEF PromisedPoints
<1>5. docs'[e] = t
  BY <1>0, <1>1 DEF WriteRecord, TypeInv, TypeOK, StoreTypeOK
<1>6. PromisedRecords' = [PromisedRecords EXCEPT ![e] = t]
  <2>1. ~ Deletes(w, e)'
    BY <1>2 DEF Idle
  <2>2. PromisedRecords'[e] = t
    BY <1>3, <1>5, <2>1
  <2> QED
    BY <1>3, <2>2 DEF PromisedRecords
<1>7. Memory!PutDocumentMeta(e, t)
  BY <1>0, <1>3, <1>4, <1>6 DEF Memory!PutDocumentMeta, Exists
<1> QED
  BY <1>7

(* A delete that goes on has the same call, and hides of its document only.*)
LEMMA GoesConfined ==
    ASSUME TypeInv', NEW w \in Busy, DeleteGoes(w) \/ PutGoes(w), NEW e, e = reqs[w].call.doc
    PROVE  w \in Busy' /\ reqs'[w].call = reqs[w].call /\ Confined(w, e)' /\ ~ Drops(w)'
<1>1. w \in Busy' /\ reqs'[w].call = reqs[w].call
  BY NoneAssumption DEF DeleteGoes, PutGoes, Onward, Busy
<1>2. reqs[w].call.op \in {"put", "delete"}
  BY DEF DeleteGoes, PutGoes
<1>3. Confined(w, e)'
  BY <1>1, <1>2, AreConfined DEF AllConfined
<1> QED
  BY <1>1, <1>2, <1>3 DEF Drops

(* The purge of the first collection is the whole delete; the rest of them *)
(* are seen by nobody.                                                     *)
LEMMA PurgeIsOneCall ==
    ASSUME CalmInv, TypeInv', NEW w \in Busy, Acts(w), DeleteGoes(w)
    PROVE  (\E d \in Docs : Memory!DeleteDocument(d)) \/ UNCHANGED Memory!store
<1>0. w \in Workers /\ TypeInv /\ BootInv /\ LeftOK(w) /\ reqs[w].call.op = "delete"
  BY CalmHas DEF Busy, DeleteGoes, CalmInv, LeftInv
<1>1. PICK e \in Docs : e = reqs[w].call.doc
  BY <1>0, BusyHas, CallHas DEF Requests
<1>2. w \in Busy' /\ reqs'[w].call = reqs[w].call /\ Confined(w, e)' /\ ~ Drops(w)'
  BY <1>1, GoesConfined
<1>3. meta' = meta /\ docs' = docs
  BY DEF DeleteGoes, store, DeleteByDocument
<1>4. CASE reqs[w].at # "purge"
  <2>1. UNCHANGED store
    BY <1>4 DEF DeleteGoes
  <2>2. reqs[w].at # "forget"
    BY DEF DeleteGoes
  <2>3. Idle(w)
    BY <1>0, <1>4, <2>2, IdleBothWays DEF IdleWhen
  <2>4. reqs'[w].at = "purge" => reqs'[w].todo = meta.sizes
    BY <1>0, <1>4 DEF DeleteGoes, LeftOK
  <2>5. reqs'[w].at # "forget"
    BY <1>4 DEF DeleteGoes
  <2>6. \A d : ~ Deletes(w, d)'
    BY <1>3, <2>4, <2>5 DEF Deletes
  <2>7. Idle(w)'
    BY <1>0, <1>2, <2>6 DEF Idle, Lends, Buries, At
  <2> QED
    BY <1>0, <1>3, <2>1, <2>3, <2>7, IdleStep
<1>5. CASE reqs[w].at = "purge"
  <2>1. Size(w) \in reqs[w].todo /\ reqs[w].todo \subseteq meta.sizes /\ docs[e] # None
    BY <1>0, <1>1, <1>5, BusyHas, SizeIsLeft DEF LeftOK, PlaceOK, Looping
  <2>2. meta # None
    BY <1>0, <1>5 DEF CalmInv, Polite, DeleteInv, DeleteOK
  <2>3. Deletes(w, e)'
    <3>1. Rest(w) # meta.sizes
      BY <2>1 DEF Rest
    <3> QED
      BY <1>0, <1>1, <1>2, <1>3, <1>5, <3>1 DEF DeleteGoes, Deletes
  <2>4. /\ Exists /\ Exists'
        /\ \A p : p.doc # e => (p \in PromisedPoints' <=> p \in PromisedPoints)
        /\ \A p : p.doc = e => /\ p \in PromisedPoints <=> OwnShows(w, e, p)
                               /\ p \in PromisedPoints' <=> OwnShows(w, e, p)'
        /\ \A d \in Docs \ {e} : PromisedRecords'[d] = PromisedRecords[d]
        /\ PromisedRecords[e] = IF Deletes(w, e) THEN None ELSE docs[e]
        /\ PromisedRecords'[e] = IF Deletes(w, e)' THEN None ELSE docs'[e]
    BY <1>0, <1>1, <1>2, <1>3, <2>2, OneDocument
  <2>5. \A p : ~ OwnShows(w, e, p)'
    BY <1>0, <1>2, <2>3 DEF OwnShows, Lends, At
  <2>6. CASE Deletes(w, e)
    <3>1. \A p : ~ OwnShows(w, e, p)
      BY <1>0, <2>6 DEF OwnShows, Lends, At
    <3>2. \A p : p \in PromisedPoints' <=> p \in PromisedPoints
      BY <2>4, <2>5, <3>1
    <3>3. PromisedPoints' = PromisedPoints
      BY <3>2 DEF PromisedPoints
    <3>4. \A d \in Docs : PromisedRecords'[d] = PromisedRecords[d]
      BY <2>3, <2>4, <2>6
    <3>5. PromisedRecords' = PromisedRecords
      BY <3>4 DEF PromisedRecords
    <3> QED
      BY <1>3, <2>4, <3>3, <3>5 DEF Memory!store
  <2>7. CASE ~ Deletes(w, e)
    <3>1. PromisedPoints' = PromisedPoints \ Memory!PointsOf(e)
      <4>1. \A p : p \in PromisedPoints' <=> p \in PromisedPoints /\ p.doc # e
        BY <2>4, <2>5
      <4> QED
        BY <4>1 DEF Memory!PointsOf
    <3>2. PromisedRecords[e] # None
      BY <2>1, <2>4, <2>7
    <3>3. PromisedRecords' = [PromisedRecords EXCEPT ![e] = None]
      <4>1. PromisedRecords'[e] = None
        BY <2>3, <2>4
      <4> QED
        BY <2>4, <4>1 DEF PromisedRecords
    <3>4. Memory!DeleteDocument(e)
      BY <1>3, <2>2, <2>4, <3>1, <3>2, <3>3 DEF Memory!DeleteDocument
    <3> QED
      BY <3>4
  <2> QED
    BY <2>6, <2>7
<1> QED
  BY <1>4, <1>5

(* The end of a delete removes a record that no caller saw any more.       *)
LEMMA ForgetEnds ==
    ASSUME CalmInv, NEW w \in Busy, Acts(w), reqs[w].call.op = "delete", reqs[w].at = "forget",
           WriteRecord(reqs[w].call.doc, None), Answers(w, Returned(w))
    PROVE  UNCHANGED Memory!store
<1>0. w \in Workers /\ TypeInv /\ meta' = meta /\ DeleteOK(w)
  BY CalmHas DEF Busy, WriteRecord, CalmInv, Polite, DeleteInv
<1>1. PICK e \in Docs : e = reqs[w].call.doc
  BY <1>0, BusyHas, CallHas DEF Requests
<1>2. meta # None /\ \A s \in meta.sizes : HeldAt(e, s) = {}
  BY <1>0, <1>1 DEF DeleteOK, DeleteSees
<1>3. Idle(w)' /\ Deletes(w, e)
  BY <1>0, <1>1, StartsIdle DEF Deletes
<1>4. /\ Exists /\ Exists'
      /\ \A p : p.doc # e => (p \in PromisedPoints' <=> p \in PromisedPoints)
      /\ \A p : p.doc = e => /\ p \in PromisedPoints <=> OwnShows(w, e, p)
                             /\ p \in PromisedPoints' <=> OwnShows(w, e, p)'
      /\ \A d \in Docs \ {e} : PromisedRecords'[d] = PromisedRecords[d]
      /\ PromisedRecords[e] = IF Deletes(w, e) THEN None ELSE docs[e]
      /\ PromisedRecords'[e] = IF Deletes(w, e)' THEN None ELSE docs'[e]
  <2>1. Confined(w, e)' /\ ~ Drops(w)'
    BY <1>3, IdleIsConfined
  <2> QED
    BY <1>0, <1>1, <1>2, <2>1, OneDocument
<1>5. \A p : ~ OwnShows(w, e, p)
  BY <1>3 DEF OwnShows, Lends, At
<1>6. \A p : ~ OwnShows(w, e, p)'
  <2>1. \A s : HeldAt(e, s)' = HeldAt(e, s)
    BY DEF WriteRecord, HeldAt, Held
  <2>2. \A p : OwnShows(w, e, p)' <=> \E s \in meta'.sizes : p \in HeldAt(e, s)'
    BY <1>3, IdleShows
  <2>3. \A s \in meta'.sizes : HeldAt(e, s)' = {}
    BY <1>0, <1>2, <2>1
  <2> QED
    BY <2>2, <2>3
<1>7. PromisedPoints' = PromisedPoints
  <2>1. \A p : p \in PromisedPoints' <=> p \in PromisedPoints
    BY <1>4, <1>5, <1>6
  <2> QED
    BY <2>1 DEF PromisedPoints
<1>8. PromisedRecords' = PromisedRecords
  <2>1. docs'[e] = None
    BY <1>0, <1>1 DEF WriteRecord, TypeInv, TypeOK, StoreTypeOK
  <2>2. \A d \in Docs : PromisedRecords'[d] = PromisedRecords[d]
    BY <1>3, <1>4, <2>1
  <2> QED
    BY <2>2 DEF PromisedRecords
<1> QED
  BY <1>0, <1>4, <1>7, <1>8 DEF Memory!store

-----------------------------------------------------------------------------
(* A put shows all of its new points at once when it writes those of the   *)
(* first size, and none of the old ones once it deletes those of a first.  *)

(* The points of the document there are when the sizes T are still to be   *)
(* written, or still to be tombstoned.                                     *)
WriteShows(w, e, T, p) ==
    \/ p \in New(w) /\ p.size \in T
    \/ /\ \E s \in meta.sizes : p \in HeldAt(e, s)
       /\ ~ \E q \in New(w) : q.size \in T /\ Ref(q) = Ref(p)

TombShows(w, e, T, p) ==
    /\ \E s \in meta.sizes : p \in HeldAt(e, s)
    /\ ~ (Ref(p) \in Leftovers(reqs[w]) /\ p.size \in T)

(* The write of one size does not change what there is when it is written. *)
LEMMA WriteShowsOn ==
    ASSUME TypeInv, NEW w \in Busy, PutGoes(w), reqs[w].at = "write", meta # None,
           reqs[w].config = meta, NEW e, e = reqs[w].call.doc, NEW p
    PROVE  /\ Size(w) \in reqs[w].todo
           /\ (\/ p \in New(w) /\ p.size \in Rest(w)
               \/ /\ \E s \in meta.sizes : p \in HeldAt(e, s)'
                  /\ ~ \E q \in New(w) : q.size \in Rest(w) /\ Ref(q) = Ref(p))
              <=> WriteShows(w, e, reqs[w].todo, p)
<1> DEFINE After ==
              \/ p \in New(w) /\ p.size \in Rest(w)
              \/ /\ \E s \in meta.sizes : p \in HeldAt(e, s)'
                 /\ ~ \E q \in New(w) : q.size \in Rest(w) /\ Ref(q) = Ref(p)
<1>0. meta.sizes \subseteq Sizes
  BY MetaHas
<1>1. PICK z \in Sizes : z = Size(w) /\ z \in reqs[w].todo
  BY BusyHas, SizeIsLeft DEF PlaceOK, Looping
<1>2. Rest(w) = reqs[w].todo \ {z}
  BY <1>1 DEF Rest
<1>3. /\ \A s \in Sizes \ {z} : HeldAt(e, s)' = HeldAt(e, s)
      /\ HeldAt(e, z)' = {q \in HeldAt(e, z) : Ref(q) \notin IdsOf(NewAt(w, z))} \cup NewAt(w, z)
  BY <1>1, PutHolds
<1>4. \A q : q \in NewAt(w, z) <=> q \in New(w) /\ q.size = z
  BY DEF NewAt, OfSize
<1>5. \A i : i \in IdsOf(NewAt(w, z)) <=> \E q \in New(w) : q.size = z /\ Ref(q) = i
  BY <1>4 DEF IdsOf
<1>6. \A s \in Sizes : \A q \in HeldAt(e, s) : Ref(q).size = s
  BY HeldRefs
<1>7. \A q : Ref(q).size = q.size
  BY DEF Ref
<1>8. z \in meta.sizes \/ NewAt(w, z) = {}
  BY <1>4, NewIs
<1>9. ASSUME After
      PROVE  WriteShows(w, e, reqs[w].todo, p)
  <2>1. CASE p \in New(w) /\ p.size \in Rest(w)
    BY <1>2, <2>1 DEF WriteShows
  <2>2. CASE /\ \E s \in meta.sizes : p \in HeldAt(e, s)'
             /\ ~ \E q \in New(w) : q.size \in Rest(w) /\ Ref(q) = Ref(p)
    <3>1. PICK s \in meta.sizes : p \in HeldAt(e, s)'
      BY <2>2
    <3>2. CASE s = z /\ p \in NewAt(w, z)
      BY <1>1, <1>4, <3>2 DEF WriteShows
    <3>3. CASE p \in HeldAt(e, s) /\ (s = z => Ref(p) \notin IdsOf(NewAt(w, z)))
      <4>1. Ref(p).size = s
        BY <1>0, <1>6, <3>3
      <4>2. ASSUME NEW q \in New(w), q.size \in reqs[w].todo, Ref(q) = Ref(p)
            PROVE  FALSE
        <5>1. q.size = s
          BY <1>7, <4>1, <4>2
        <5> QED
          BY <1>2, <1>5, <2>2, <3>3, <4>2, <5>1
      <4> QED
        BY <3>3, <4>2 DEF WriteShows
    <3> QED
      BY <1>0, <1>3, <3>1, <3>2, <3>3
  <2> QED
    BY <1>9, <2>1, <2>2
<1>10. ASSUME WriteShows(w, e, reqs[w].todo, p)
       PROVE  After
  <2>1. CASE p \in New(w) /\ p.size \in Rest(w)
    BY <2>1
  <2>2. CASE p \in New(w) /\ p.size = z
    <3>1. z \in meta.sizes /\ p \in HeldAt(e, z)'
      BY <1>3, <1>4, <1>8, <2>2
    <3>2. ~ \E q \in New(w) : q.size \in Rest(w) /\ Ref(q) = Ref(p)
      <4> SUFFICES ASSUME NEW q \in New(w), q.size \in Rest(w), Ref(q) = Ref(p)
                   PROVE  FALSE
        OBVIOUS
      <4>1. q.size = p.size
        BY <1>7
      <4> QED
        BY <1>2, <2>2, <4>1
    <3> QED
      BY <3>1, <3>2
  <2>3. CASE /\ \E s \in meta.sizes : p \in HeldAt(e, s)
             /\ ~ \E q \in New(w) : q.size \in reqs[w].todo /\ Ref(q) = Ref(p)
    <3>1. PICK s \in meta.sizes : p \in HeldAt(e, s)
      BY <2>3
    <3>2. Ref(p) \notin IdsOf(NewAt(w, z))
      BY <1>1, <1>5, <2>3
    <3>3. p \in HeldAt(e, s)'
      BY <1>0, <1>3, <3>1, <3>2
    <3> QED
      BY <1>2, <2>3, <3>3
  <2> QED
    BY <1>2, <1>10, <2>1, <2>2, <2>3 DEF WriteShows
<1> QED
  BY <1>1, <1>9, <1>10

(* The write of the first size is the whole upsert; the rest of them are   *)
(* seen by nobody.                                                         *)
LEMMA WriteIsOneCall ==
    ASSUME CalmInv, TypeInv', NEW w \in Busy, Acts(w), PutGoes(w), reqs[w].at = "write"
    PROVE  \/ \E d \in Docs, t \in Texts :
                 meta # None /\ Exists
                 /\ Memory!UpsertSlices(Points(d, t, meta.sizes), meta.dim)
           \/ UNCHANGED Memory!store
<1>0. /\ w \in Workers /\ TypeInv /\ reqs[w].call.op = "put" /\ LeftOK(w)
      /\ meta # None /\ reqs[w].config = meta /\ meta.sizes \subseteq Sizes
  <2>1. reqs[w].call.op = "put"
    BY DEF PutGoes
  <2> QED
    BY <2>1, CalmHas, PutGrid DEF Busy, CalmInv, LeftInv
<1>1. PICK e \in Docs, t \in Texts : e = reqs[w].call.doc /\ t = reqs[w].call.text
  BY <1>0, PutHas
<1>2. w \in Busy' /\ reqs'[w].call = reqs[w].call /\ Confined(w, e)' /\ ~ Drops(w)'
  BY <1>1, GoesConfined
<1>3. meta' = meta /\ docs' = docs
  BY DEF PutGoes, store, UpsertPoints, DeleteIds
<1>4. /\ Exists /\ Exists'
      /\ \A p : p.doc # e => (p \in PromisedPoints' <=> p \in PromisedPoints)
      /\ \A p : p.doc = e => /\ p \in PromisedPoints <=> OwnShows(w, e, p)
                             /\ p \in PromisedPoints' <=> OwnShows(w, e, p)'
      /\ \A d \in Docs \ {e} : PromisedRecords'[d] = PromisedRecords[d]
      /\ PromisedRecords[e] = IF Deletes(w, e) THEN None ELSE docs[e]
      /\ PromisedRecords'[e] = IF Deletes(w, e)' THEN None ELSE docs'[e]
  BY <1>0, <1>1, <1>2, <1>3, OneDocument
<1>5. /\ New(w) = Points(e, t, meta.sizes) /\ New(w)' = New(w)
      /\ reqs'[w].config = meta /\ reqs'[w].todo = Rest(w)
      /\ reqs'[w].at = IF Rest(w) # {} THEN "write" ELSE AfterWrites(w, reqs[w].old)
  BY <1>0, <1>1, <1>2 DEF New, PutGoes
<1>6. AfterWrites(w, reqs[w].old) \in {"register", "tombstone"}
  BY DEF AfterWrites
<1>7. Size(w) \in reqs[w].todo /\ reqs[w].todo \subseteq meta.sizes
  BY <1>0, BusyHas, SizeIsLeft DEF LeftOK, PlaceOK, Looping
<1>8. PromisedRecords' = PromisedRecords
  <2>1. ~ Deletes(w, e) /\ ~ Deletes(w, e)'
    BY <1>0, <1>2 DEF Deletes
  <2>2. \A d \in Docs : PromisedRecords'[d] = PromisedRecords[d]
    BY <1>3, <1>4, <2>1
  <2> QED
    BY <2>2 DEF PromisedRecords
<1>9. ASSUME NEW p
      PROVE  OwnShows(w, e, p)' <=> WriteShows(w, e, reqs[w].todo, p)
  <2>1. \A q : Lends(w, q)' <=> q \in New(w) /\ q.size \in Rest(w)
    <3>1. Rest(w) # meta.sizes
      BY <1>7 DEF Rest
    <3> QED
      BY <1>0, <1>2, <1>5, <1>6, <3>1 DEF Lends, At
  <2>2. Replaces(w, Ref(p))' <=> \E q \in New(w) : q.size \in Rest(w) /\ Ref(q) = Ref(p)
    BY <2>1 DEF Replaces
  <2>3. ~ Deletes(w, e)' /\ ~ Buries(w, Ref(p))'
    BY <1>0, <1>2, <1>5, <1>6 DEF Deletes, Buries, At
  <2>4. OwnShows(w, e, p)' <=>
           \/ p \in New(w) /\ p.size \in Rest(w)
           \/ /\ \E s \in meta.sizes : p \in HeldAt(e, s)'
              /\ ~ \E q \in New(w) : q.size \in Rest(w) /\ Ref(q) = Ref(p)
    BY <1>3, <2>1, <2>2, <2>3 DEF OwnShows
  <2> QED
    BY <1>0, <1>1, <2>4, WriteShowsOn
<1>10. CASE reqs[w].todo # meta.sizes
  <2>1. ASSUME NEW p
        PROVE  OwnShows(w, e, p) <=> WriteShows(w, e, reqs[w].todo, p)
    <3>1. \A q : Lends(w, q) <=> q \in New(w) /\ q.size \in reqs[w].todo
      BY <1>0, <1>10 DEF Lends, At
    <3>2. Replaces(w, Ref(p)) <=> \E q \in New(w) : q.size \in reqs[w].todo /\ Ref(q) = Ref(p)
      BY <3>1 DEF Replaces
    <3>3. ~ Deletes(w, e) /\ ~ Buries(w, Ref(p))
      BY <1>0 DEF Deletes, Buries, At
    <3> QED
      BY <3>1, <3>2, <3>3 DEF OwnShows, WriteShows
  <2>2. \A p : p \in PromisedPoints' <=> p \in PromisedPoints
    BY <1>4, <1>9, <2>1
  <2>3. PromisedPoints' = PromisedPoints
    BY <2>2 DEF PromisedPoints
  <2> QED
    BY <1>3, <1>4, <1>8, <2>3 DEF Memory!store
<1>11. CASE reqs[w].todo = meta.sizes
  <2>1. ASSUME NEW p
        PROVE  OwnShows(w, e, p) <=> \E s \in meta.sizes : p \in HeldAt(e, s)
    <3>1. \A q : ~ Lends(w, q)
      BY <1>0, <1>11 DEF Lends
    <3>2. ~ Deletes(w, e) /\ ~ Buries(w, Ref(p)) /\ ~ Replaces(w, Ref(p))
      BY <1>0, <3>1 DEF Deletes, Buries, Replaces, At
    <3> QED
      BY <3>1, <3>2 DEF OwnShows
  <2>2. \A p \in New(w) : p.doc = e /\ p.size \in meta.sizes /\ Ref(p).doc = e
    BY <1>0, <1>1, NewIs DEF Ref
  <2>3. \A p : p \in PromisedPoints' <=>
           \/ p \in New(w)
           \/ p \in PromisedPoints /\ Ref(p) \notin IdsOf(New(w))
    <3> SUFFICES ASSUME NEW p
                 PROVE  p \in PromisedPoints' <=>
                           \/ p \in New(w)
                           \/ p \in PromisedPoints /\ Ref(p) \notin IdsOf(New(w))
      OBVIOUS
    <3>1. Ref(p) \in IdsOf(New(w)) <=> \E q \in New(w) : Ref(q) = Ref(p)
      BY DEF IdsOf
    <3>2. CASE p.doc = e
      <4>1. WriteShows(w, e, reqs[w].todo, p) <=>
               \/ p \in New(w)
               \/ (\E s \in meta.sizes : p \in HeldAt(e, s)) /\ Ref(p) \notin IdsOf(New(w))
        BY <1>11, <2>2, <3>1 DEF WriteShows
      <4> QED
        BY <1>4, <1>9, <2>1, <3>2, <4>1
    <3>3. CASE p.doc # e
      <4>1. p \notin New(w) /\ Ref(p).doc # e
        BY <2>2, <3>3 DEF Ref
      <4>2. Ref(p) \notin IdsOf(New(w))
        BY <2>2, <3>1, <4>1
      <4> QED
        BY <1>4, <3>3, <4>1, <4>2
    <3> QED
      BY <3>2, <3>3
  <2>4. PromisedPoints' = {q \in PromisedPoints : Memory!Id(q) \notin Memory!IdsOf(New(w))} \cup New(w)
    <3>1. \A q : Memory!Id(q) = Ref(q)
      BY DEF Memory!Id, Ref
    <3>2. Memory!IdsOf(New(w)) = IdsOf(New(w))
      BY <3>1 DEF Memory!IdsOf, IdsOf
    <3> QED
      BY <2>3, <3>1, <3>2
  <2>5. Memory!UpsertSlices(New(w), meta.dim)
    BY <1>0, <1>3, <1>4, <1>8, <2>2, <2>4 DEF Memory!UpsertSlices
  <2> QED
    BY <1>0, <1>4, <1>5, <2>5
<1> QED
  BY <1>10, <1>11

(* Nor does the deletion of one size change what there is without all that *)
(* is to be deleted.                                                       *)
LEMMA TombShowsOn ==
    ASSUME TypeInv, NEW w \in Busy, PutGoes(w), reqs[w].at = "delete", meta # None,
           NEW e, e = reqs[w].call.doc, NEW p
    PROVE  /\ Size(w) \in reqs[w].todo
           /\ (/\ \E s \in meta.sizes : p \in HeldAt(e, s)'
               /\ ~ (Ref(p) \in Leftovers(reqs[w]) /\ p.size \in Rest(w)))
              <=> TombShows(w, e, reqs[w].todo, p)
<1>0. meta.sizes \subseteq Sizes
  BY MetaHas
<1>1. PICK z \in Sizes : z = Size(w) /\ z \in reqs[w].todo
  BY BusyHas, SizeIsLeft DEF PlaceOK, Looping
<1>2. Rest(w) = reqs[w].todo \ {z}
  BY <1>1 DEF Rest
<1>3. /\ \A s \in Sizes \ {z} : HeldAt(e, s)' = HeldAt(e, s)
      /\ HeldAt(e, z)' = {q \in HeldAt(e, z) : Ref(q) \notin OfSize(Leftovers(reqs[w]), z)}
  BY <1>1, PutHolds
<1>4. \A i : i \in OfSize(Leftovers(reqs[w]), z) <=> i \in Leftovers(reqs[w]) /\ i.size = z
  BY DEF OfSize
<1>5. \A s \in Sizes : \A q \in HeldAt(e, s) : q.size = s /\ Ref(q).size = s
  BY HeldRefs DEF Ref
<1>6. ASSUME NEW s \in meta.sizes
      PROVE  (p \in HeldAt(e, s)' /\ ~ (Ref(p) \in Leftovers(reqs[w]) /\ p.size \in Rest(w)))
             <=> p \in HeldAt(e, s) /\ ~ (Ref(p) \in Leftovers(reqs[w]) /\ p.size \in reqs[w].todo)
  <2>1. p \in HeldAt(e, s) => p.size = s /\ Ref(p).size = s
    BY <1>0, <1>5
  <2>2. CASE s = z
    <3>1. p \in HeldAt(e, s)' <=>
             p \in HeldAt(e, s) /\ ~ (Ref(p) \in Leftovers(reqs[w]) /\ Ref(p).size = z)
      BY <1>3, <1>4, <2>2
    <3> QED
      BY <1>1, <1>2, <2>1, <2>2, <3>1
  <2>3. CASE s # z
    <3>1. HeldAt(e, s)' = HeldAt(e, s)
      BY <1>0, <1>3, <2>3
    <3> QED
      BY <1>2, <2>1, <2>3, <3>1
  <2> QED
    BY <2>2, <2>3
<1> QED
  BY <1>1, <1>6 DEF TombShows

(* The ids the put listed and no longer reaches are all the others that    *)
(* its document has.                                                       *)
LEMMA TombstonesAreOrphans ==
    ASSUME CalmInv, NEW w \in Busy, reqs[w].call.op = "put", reqs[w].at = "delete", meta # None,
           NEW e, e = reqs[w].call.doc, NEW s \in meta.sizes, NEW p \in HeldAt(e, s)
    PROVE  Ref(p) \in Leftovers(reqs[w]) <=> Ref(p) \notin IdsOf(New(w))
<1>0. /\ TypeInv /\ reqs[w].config = meta /\ s \in Sizes
      /\ PutOK(w)
  BY CalmHas, PutGrid DEF CalmInv, Polite, PromiseInv, PutInv
<1>1. PutSees(reqs[w], s, HeldAt(e, s))
  BY <1>0 DEF PutOK, PutKnows
<1>2. Ref(p).size = s
  BY <1>0, HeldRefs
<1>3. New(w) = Points(reqs[w].call.doc, reqs[w].call.text, reqs[w].config.sizes)
  BY DEF New
<1>4. Ref(p) \in IdsOf(New(w)) <=> Ref(p) \in IdsOf(NewCut(reqs[w], s))
  BY <1>0, <1>2, <1>3, RefIsNew DEF NewCut
<1>5. Ref(p) \in Leftovers(reqs[w]) => Ref(p) \notin IdsOf(New(w))
  BY <1>3 DEF Leftovers
<1>6. ASSUME Ref(p) \notin IdsOf(New(w))
      PROVE  Ref(p) \in Leftovers(reqs[w])
  <2>1. p \notin NewCut(reqs[w], s)
    BY <1>4, <1>6 DEF IdsOf
  <2>2. Written(reqs[w], s)
    BY <1>1, <2>1 DEF PutSees, Written, Replaced
  <2>3. IdsOf(HeldAt(e, s) \ NewCut(reqs[w], s)) \subseteq Leftovers(reqs[w])
    BY <1>1, <2>2 DEF PutSees, Rewrote
  <2> QED
    BY <2>1, <2>3 DEF IdsOf
<1> QED
  BY <1>5, <1>6

(* The removal of the leftovers of the first size is the whole removal;    *)
(* the rest of them are seen by nobody.                                    *)
LEMMA TombstoneIsOneCall ==
    ASSUME CalmInv, TypeInv', NEW w \in Busy, Acts(w), PutGoes(w), reqs[w].at = "delete"
    PROVE  \/ \E d \in Docs, t \in Texts :
                 meta # None /\ Exists /\ Memory!DeletePoints(Memory!Orphans(d, t))
           \/ UNCHANGED Memory!store
<1>0. /\ w \in Workers /\ TypeInv /\ reqs[w].call.op = "put" /\ LeftOK(w)
      /\ meta # None /\ reqs[w].config = meta /\ meta.sizes \subseteq Sizes
  <2>1. reqs[w].call.op = "put"
    BY DEF PutGoes
  <2> QED
    BY <2>1, CalmHas, PutGrid DEF Busy, CalmInv, LeftInv
<1>1. PICK e \in Docs, t \in Texts : e = reqs[w].call.doc /\ t = reqs[w].call.text
  BY <1>0, PutHas
<1>2. w \in Busy' /\ reqs'[w].call = reqs[w].call /\ Confined(w, e)' /\ ~ Drops(w)'
  BY <1>1, GoesConfined
<1>3. meta' = meta /\ docs' = docs
  BY DEF PutGoes, store, UpsertPoints, DeleteIds
<1>4. /\ Exists /\ Exists'
      /\ \A p : p.doc # e => (p \in PromisedPoints' <=> p \in PromisedPoints)
      /\ \A p : p.doc = e => /\ p \in PromisedPoints <=> OwnShows(w, e, p)
                             /\ p \in PromisedPoints' <=> OwnShows(w, e, p)'
      /\ \A d \in Docs \ {e} : PromisedRecords'[d] = PromisedRecords[d]
      /\ PromisedRecords[e] = IF Deletes(w, e) THEN None ELSE docs[e]
      /\ PromisedRecords'[e] = IF Deletes(w, e)' THEN None ELSE docs'[e]
  BY <1>0, <1>1, <1>2, <1>3, OneDocument
<1>5. /\ reqs'[w].todo = Rest(w) /\ reqs'[w].old = reqs[w].old
      /\ reqs'[w].config = reqs[w].config
      /\ reqs'[w].at = IF Rest(w) # {} THEN "delete" ELSE "register"
  BY <1>0 DEF PutGoes
<1>6. PICK L : /\ L = Leftovers(reqs[w])
               /\ Orphans(w, reqs[w].old) = L
               /\ Orphans(w, reqs[w].old)' = L
  <2>1. Orphans(w, reqs[w].old) = Leftovers(reqs[w])
    BY OrphansLeft
  <2>2. Orphans(w, reqs[w].old)' = Orphans(w, reqs[w].old)
    BY <1>2, <1>5 DEF Orphans, New
  <2> QED
    BY <2>1, <2>2
<1>7. Size(w) \in reqs[w].todo /\ reqs[w].todo \subseteq {i.size : i \in L}
  BY <1>0, <1>6, BusyHas, SizeIsLeft DEF LeftOK, PlaceOK, Looping
<1>8. PromisedRecords' = PromisedRecords
  <2>1. ~ Deletes(w, e) /\ ~ Deletes(w, e)'
    BY <1>0, <1>2 DEF Deletes
  <2>2. \A d \in Docs : PromisedRecords'[d] = PromisedRecords[d]
    BY <1>3, <1>4, <2>1
  <2> QED
    BY <2>2 DEF PromisedRecords
<1>9. ASSUME NEW p
      PROVE  OwnShows(w, e, p)' <=> TombShows(w, e, reqs[w].todo, p)
  <2>1. \A i : Buries(w, i)' <=> i \in L /\ i.size \in Rest(w)
    <3>1. Rest(w) # {i.size : i \in L}
      BY <1>7 DEF Rest
    <3>2. \A i : Buries(w, i)' <=>
             /\ At(w, "put", "delete")'
             /\ Rest(w) # {k.size : k \in L} /\ i \in L /\ i.size \in Rest(w)
      BY <1>5, <1>6 DEF Buries
    <3>3. Rest(w) # {} => At(w, "put", "delete")'
      BY <1>0, <1>2, <1>5 DEF At
    <3> QED
      BY <3>1, <3>2, <3>3
  <2>2. \A q : ~ Lends(w, q)'
    BY <1>5 DEF Lends, At
  <2>3. ~ Deletes(w, e)' /\ ~ Replaces(w, Ref(p))'
    BY <1>0, <1>2, <2>2 DEF Deletes, Replaces
  <2>4. Ref(p).size = p.size
    BY DEF Ref
  <2>5. OwnShows(w, e, p)' <=>
           /\ \E s \in meta.sizes : p \in HeldAt(e, s)'
           /\ ~ (Ref(p) \in L /\ p.size \in Rest(w))
    BY <1>3, <2>1, <2>2, <2>3, <2>4 DEF OwnShows
  <2> QED
    BY <1>0, <1>1, <1>6, <2>5, TombShowsOn
<1>10. ASSUME NEW p
       PROVE  /\ ~ Lends(w, p)
              /\ ~ Deletes(w, e) /\ ~ Replaces(w, Ref(p))
  BY <1>0 DEF Lends, Deletes, Replaces, At
<1>11. CASE reqs[w].todo # {i.size : i \in L}
  <2>1. ASSUME NEW p
        PROVE  OwnShows(w, e, p) <=> TombShows(w, e, reqs[w].todo, p)
    <3>1. Ref(p).size = p.size
      BY DEF Ref
    <3>2. Buries(w, Ref(p)) <=> Ref(p) \in L /\ p.size \in reqs[w].todo
      BY <1>0, <1>6, <1>11, <3>1 DEF Buries, At
    <3> QED
      BY <1>6, <1>10, <3>2 DEF OwnShows, TombShows
  <2>2. \A p : p \in PromisedPoints' <=> p \in PromisedPoints
    BY <1>4, <1>9, <2>1
  <2>3. PromisedPoints' = PromisedPoints
    BY <2>2 DEF PromisedPoints
  <2> QED
    BY <1>3, <1>4, <1>8, <2>3 DEF Memory!store
<1>12. CASE reqs[w].todo = {i.size : i \in L}
  <2>1. ASSUME NEW p
        PROVE  OwnShows(w, e, p) <=> \E s \in meta.sizes : p \in HeldAt(e, s)
    <3>1. ~ Buries(w, Ref(p))
      BY <1>6, <1>12 DEF Buries
    <3> QED
      BY <1>10, <3>1 DEF OwnShows
  <2>2. ASSUME NEW p
        PROVE  OwnShows(w, e, p)' <=>
                  /\ \E s \in meta.sizes : p \in HeldAt(e, s)
                  /\ Ref(p) \in IdsOf(New(w))
    <3>1. Ref(p) \in L => p.size \in reqs[w].todo
      BY <1>12 DEF Ref
    <3>2. \A s \in meta.sizes : p \in HeldAt(e, s) => (Ref(p) \in L <=> Ref(p) \notin IdsOf(New(w)))
      BY <1>0, <1>1, <1>6, TombstonesAreOrphans
    <3> QED
      BY <1>6, <1>9, <3>1, <3>2 DEF TombShows
  <2>3. \A q : Memory!Id(q) = Ref(q)
    BY DEF Memory!Id, Ref
  <2>4. \A i : i \in Memory!Orphans(e, t) <=>
           /\ \E q \in PromisedPoints : q.doc = e /\ Ref(q) = i
           /\ i \notin IdsOf(New(w))
    <3>1. Memory!IdsOf(Points(e, t, meta.sizes)) = IdsOf(New(w))
      BY <1>0, <1>1, <2>3 DEF Memory!IdsOf, IdsOf, New
    <3> QED
      BY <1>4, <2>3, <3>1 DEF Memory!Orphans, Memory!PointsOf, Memory!IdsOf
  <2>5. \A p : p \in PromisedPoints' <=> p \in PromisedPoints /\ Ref(p) \notin Memory!Orphans(e, t)
    <3> SUFFICES ASSUME NEW p
                 PROVE  p \in PromisedPoints' <=>
                           p \in PromisedPoints /\ Ref(p) \notin Memory!Orphans(e, t)
      OBVIOUS
    <3>1. CASE p.doc = e
      BY <1>4, <2>1, <2>2, <2>4, <3>1
    <3>2. CASE p.doc # e
      <4>1. \A q : Ref(q) = Ref(p) => q.doc = p.doc
        BY DEF Ref
      <4> QED
        BY <1>4, <2>4, <3>2, <4>1
    <3> QED
      BY <3>1, <3>2
  <2>6. PromisedPoints' = {q \in PromisedPoints : Memory!Id(q) \notin Memory!Orphans(e, t)}
    BY <2>3, <2>5
  <2>7. Memory!DeletePoints(Memory!Orphans(e, t))
    BY <1>0, <1>3, <1>4, <1>8, <2>6 DEF Memory!DeletePoints
  <2> QED
    BY <1>0, <1>4, <2>7
<1> QED
  BY <1>11, <1>12

-----------------------------------------------------------------------------
(* Step by step.                                                           *)

(* The reads of a put, and the embedding, are nothing to a caller.         *)
LEMMA PutReadsSilently ==
    ASSUME CalmInv, NEW w \in Busy, Acts(w), PutGoes(w), reqs[w].at \notin {"write", "delete"}
    PROVE  UNCHANGED Memory!store
<1>0. w \in Workers /\ reqs[w].call.op = "put" /\ w \in Busy' /\ reqs'[w].call = reqs[w].call
  BY NoneAssumption DEF Busy, PutGoes, Onward
<1>1. UNCHANGED store
  BY DEF PutGoes
<1>2. Idle(w)
  BY <1>0, IdleBothWays DEF IdleWhen
<1>3. AfterWrites(w, reqs'[w].old) \in {"register", "tombstone"}
  BY DEF AfterWrites
<1>4. reqs'[w].at = "write" => reqs'[w].todo = reqs'[w].config.sizes
  BY <1>3 DEF PutGoes
<1>5. reqs'[w].at = "delete" => reqs'[w].todo = {i.size : i \in Orphans(w, reqs[w].old)'}
  <2> SUFFICES ASSUME reqs'[w].at = "delete"
               PROVE  reqs'[w].todo = {i.size : i \in Orphans(w, reqs[w].old)'}
    OBVIOUS
  <2>1. reqs[w].at = "tombstone" /\ reqs'[w].todo = {i.size : i \in Orphans(w, reqs[w].old)}
    BY <1>3 DEF PutGoes
  <2>2. reqs'[w].old = reqs[w].old /\ reqs'[w].config = reqs[w].config
    BY <2>1 DEF PutGoes
  <2>3. Orphans(w, reqs[w].old)' = Orphans(w, reqs[w].old)
    BY <1>0, <2>2 DEF Orphans, New
  <2> QED
    BY <2>1, <2>3
<1>6. \A p : ~ Lends(w, p)'
  BY <1>4 DEF Lends, At
<1>7. \A i : ~ Buries(w, i)'
  BY <1>5 DEF Buries, At
<1>8. Idle(w)'
  BY <1>0, <1>6, <1>7 DEF Idle, Drops, Deletes
<1> QED
  BY <1>0, <1>1, <1>2, <1>8, IdleStep DEF store

(* Each step is one call of the in-memory store, or none.                  *)
LEMMA StepIsOneCall ==
    ASSUME CalmInv, TypeInv', NEW w \in Workers, Acts(w), faults' = faults
    PROVE  Memory!Next \/ UNCHANGED Memory!store
<1>0. w \in Busy /\ TypeInv /\ BootInv
  BY CalmHas, CalmGoes
<1>1. CASE BootGoes(w) \/ DownGoes(w) \/ PingGoes(w) \/ CreateGoes(w)
  BY <1>1, BootIsSilent
<1>2. CASE DropGoes(w)
  BY <1>2, DropIsOneCall DEF Memory!Next
<1>3. CASE PutGoes(w)
  <2>1. CASE reqs[w].at = "write"
    <3>1. ASSUME NEW d \in Docs, NEW t \in Texts, meta # None, Exists,
                 Memory!UpsertSlices(Points(d, t, meta.sizes), meta.dim)
          PROVE  Memory!Next
      BY <3>1 DEF Memory!Next
    <3> QED
      BY <1>0, <1>3, <2>1, <3>1, WriteIsOneCall
  <2>2. CASE reqs[w].at = "delete"
    <3>1. ASSUME NEW d \in Docs, NEW t \in Texts, meta # None, Exists,
                 Memory!DeletePoints(Memory!Orphans(d, t))
          PROVE  Memory!Next
      BY <3>1 DEF Memory!Next
    <3> QED
      BY <1>0, <1>3, <2>2, <3>1, TombstoneIsOneCall
  <2>3. CASE reqs[w].at \notin {"write", "delete"}
    BY <1>0, <1>3, <2>3, PutReadsSilently
  <2> QED
    BY <2>1, <2>2, <2>3
<1>4. CASE DeleteGoes(w)
  BY <1>0, <1>4, PurgeIsOneCall DEF Memory!Next
<1>5. CASE Answers(w, promised) /\ Refused(w) /\ UNCHANGED store
  BY <1>0, <1>5, RefusalIsSilent
<1>6. CASE Opens(w) /\ UNCHANGED store
  BY <1>0, <1>6, RefusalIsSilent
<1>7. CASE Finishes(w) /\ Answers(w, Returned(w))
  <2>1. CASE reqs[w].call.op = "put"
    <3>1. \E d \in Docs, t \in Texts : Memory!PutDocumentMeta(d, t)
      BY <1>0, <1>7, <2>1, RecordEnds DEF Finishes
    <3> QED
      BY <3>1 DEF Memory!Next
  <2>2. CASE reqs[w].call.op = "delete"
    BY <1>0, <1>7, <2>2, ForgetEnds DEF Finishes
  <2>3. CASE reqs[w].call.op = "create"
    <3>1. \E c \in Configs : Memory!CreateCorpus(c)
      BY <1>0, <1>7, <2>3, CreateEnds DEF Finishes
    <3> QED
      BY <3>1 DEF Memory!Next
  <2>4. CASE reqs[w].call.op = "drop"
    BY <1>0, <1>7, <2>4, DropEnds DEF Finishes
  <2>5. CASE reqs[w].call.op = "health"
    <3>1. UNCHANGED store
      BY <1>7, <2>5 DEF Finishes
    <3> QED
      BY <1>0, <1>7, <2>5, <3>1, RefusalIsSilent
  <2> QED
    BY <1>7, <2>1, <2>2, <2>3, <2>4, <2>5 DEF Finishes
<1> QED
  BY <1>0, <1>1, <1>2, <1>3, <1>4, <1>5, <1>6, <1>7, CalmGoes

(* A call that begins is none yet.                                         *)
LEMMA BeginIsSilent ==
    ASSUME CalmInv, NEW w \in Workers, Begin(w)
    PROVE  UNCHANGED Memory!store
<1>0. TypeInv /\ w \notin Busy /\ UNCHANGED store
  BY CalmHas, BeginEnters
<1>1. PICK c \in Menu[w] : Enters(w, c, << >>, promised)
  BY <1>0, BeginEnters
<1>2. ASSUME NEW v \in Workers \ {w}
      PROVE  SameView(v)
  BY <1>0, <1>1, OthersUnderEnter, ViewOf DEF store
<1>3. SameView(w)
  <2>1. Idle(w)
    BY <1>0, IdleHides
  <2>2. reqs'[w].at = Entry(reqs'[w].call.op)
    BY <1>0, <1>1, EntersHas
  <2>3. Idle(w)'
    BY <2>2, IdleBothWays DEF IdleWhen
  <2> QED
    BY <2>1, <2>3, IdleStays
<1>4. meta' = meta /\ colls' = colls /\ docs' = docs
  BY <1>0 DEF store
<1>5. \A d \in Docs, s \in Sizes : HeldAt(d, s)' = HeldAt(d, s)
  BY <1>4 DEF HeldAt, Held
<1> QED
  BY <1>0, <1>2, <1>3, <1>4, <1>5, Silent

(* Nor is nothing.                                                         *)
LEMMA StutterIsSilent ==
    ASSUME UNCHANGED vars
    PROVE  UNCHANGED Memory!store
<1>1. UNCHANGED <<meta, colls, docs, reqs>>
  BY DEF vars, store
<1> QED
  BY <1>1 DEF Memory!store, Exists, Dropping, PromisedPoints, PromisedRecords, Deleting, ToWrite,
      ToDelete, Busy, At, New, Orphans, Stored, Held

(* An empty corpus, or none, is one for both.                              *)
LEMMA InitIsInit ==
    ASSUME InitService, \A d \in Docs : Stock[d] = None
    PROVE  Memory!Init
<1>1. Busy = {}
  BY DEF InitService, Busy
<1>2. (Exists <=> meta # None) /\ \A d : ~ Deleting(d)
  BY <1>1 DEF Exists, Dropping, Deleting
<1>3. \A d \in Docs : docs[d] = None
  BY DEF InitService
<1>4. PromisedPoints = {}
  <2> SUFFICES ASSUME NEW p, Exists, Shown(p)
               PROVE  FALSE
    BY PromisedIs
  <2>1. PICK d \in Docs, s \in meta.sizes : p \in HeldAt(d, s)
    BY <1>1 DEF Shown, Lends, At
  <2>2. meta # None /\ s \in Sizes
    BY <1>2, InitCalm, CalmHas, MetaHas
  <2>3. colls[s].points =
           UNION {Points(e, docs[e], {s}) : e \in {k \in Docs : docs[k] # None}}
    BY <2>2, InitHas
  <2>4. {k \in Docs : docs[k] # None} = {}
    BY <1>3
  <2>5. colls[s].points = {}
    BY <2>3, <2>4
  <2> QED
    BY <2>1, <2>5 DEF HeldAt, Held
<1>5. PromisedRecords = [d \in Docs |-> None]
  BY <1>3 DEF PromisedRecords
<1>6. (IF Exists THEN meta ELSE None) \in Initially
  BY <1>2 DEF InitService
<1> QED
  BY <1>4, <1>5, <1>6 DEF Memory!Init

(* While nothing fails and no client disturbs another, the adapter over an *)
(* empty store implements the in-memory one (stores/memory.py): each of    *)
(* its methods takes effect at once, however many backend calls it makes   *)
(* and whatever comes in between (qdrant.py).                              *)
THEOREM AdapterKeepsThePromise ==
    ASSUME \A d \in Docs : Stock[d] = None
    PROVE  PoliteSpec /\ [](faults = 0) => TakesEffectAtOnce
<1>1. InitService => Memory!Init
  BY InitIsInit
<1>2. CalmInv /\ CalmInv' /\ [PoliteNext]_vars /\ faults = 0 /\ (faults = 0)'
      => Memory!Next \/ UNCHANGED Memory!store
  <2> SUFFICES ASSUME CalmInv, CalmInv', [PoliteNext]_vars, faults = 0, faults' = 0
               PROVE  Memory!Next \/ UNCHANGED Memory!store
    OBVIOUS
  <2>1. TypeInv'
    BY DEF CalmInv, PromiseInv, BaseInv
  <2>2. ~ Crash
    BY DEF Crash
  <2>3. \/ UNCHANGED vars
        \/ \E w \in Workers : Begin(w)
        \/ \E w \in Workers : Acts(w)
    BY <2>2 DEF PoliteNext, Next, Acts
  <2> QED
    BY <2>1, <2>3, StutterIsSilent, BeginIsSilent, StepIsOneCall
<1>3. CalmInv /\ CalmInv' /\ [PoliteNext]_vars /\ faults = 0 /\ (faults = 0)'
      => [Memory!Next]_(Memory!store)
  BY <1>2
<1> QED
  BY <1>1, <1>3, CalmInvariance, PTL DEF PoliteSpec, TakesEffectAtOnce, Memory!Spec

(* So it does when the bound on failures is zero, as the run has it.       *)
THEOREM AdapterKeepsThePromiseWithoutFaults ==
    ASSUME \A d \in Docs : Stock[d] = None, MaxFaults = 0
    PROVE  PoliteSpec => TakesEffectAtOnce
<1>1. PoliteSpec => Spec
  <2>1. [PoliteNext]_vars => [Next]_vars
    BY DEF PoliteNext
  <2> QED
    BY <2>1, PTL DEF PoliteSpec, Spec
<1>2. BaseInv => faults = 0
  BY DEF BaseInv, TypeInv, TypeOK
<1>3. PoliteSpec /\ [](faults = 0) => TakesEffectAtOnce
  BY AdapterKeepsThePromise
<1> QED
  BY <1>1, <1>2, <1>3, Invariance, PTL
=============================================================================
