----------------------------- MODULE ReadersProofs -----------------------------
(***************************************************************************)
(* What clients that read meet while others write, proved for every number *)
(* of readers and writers, every grid, text and request.                   *)
(***************************************************************************)
EXTENDS Readers, LifecycleProofs

-----------------------------------------------------------------------------
(* Readers leave the writers and the store alone; what fails under them is *)
(* counted with the other failures.                                        *)
Jolt ==
    /\ faults < MaxFaults /\ faults' = faults + 1
    /\ UNCHANGED <<store, issued, reqs, promised>>

(* A step is one of a writer, or leaves everything but the failures.       *)
LEMMA StepsOfReaders ==
    ASSUME NEW r, ReadStep(r)
    PROVE  UNCHANGED vars \/ Jolt
<1>1. CASE Query(r)
  BY <1>1 DEF Query, Run, Search, QueryConfig, EmbedQuery, EndFanout, SearchAnswers, SearchFails,
     SearchTimesOut, Fetch, FetchFails, Select, ReadConfig, Fails, Jolt
<1>2. CASE List(r)
  BY <1>2 DEF List, ListConfig, ListPage, ListFails, ReadConfig, Fails, Jolt
<1>3. CASE Get(r)
  BY <1>3 DEF Get, GetConfig, GetLookup, GetRecord, GetFails, ReadConfig, Fails, Jolt
<1>4. CASE Inspect(r)
  BY <1>4 DEF Inspect, InspectConfig, CorpusStats, StatsExists, CountPoints, CountDocuments,
     VerifyCorpus, VerifyExists, VerifyDimension, InspectFails, ReadConfig, Fails, Jolt
<1> QED
  BY <1>1, <1>2, <1>3, <1>4 DEF ReadStep

(* So the writers' behaviour is that of Lifecycle, but for these failures. *)
LEMMA StepsAround ==
    ASSUME [ReadNext]_allVars
    PROVE  [Next]_vars \/ Jolt
<1>1. CASE Write
  BY <1>1 DEF Write
<1>2. CASE \E r \in Readers : Ask(r) \/ ReadStep(r)
  BY <1>2, StepsOfReaders DEF Ask
<1>3. CASE UNCHANGED allVars
  BY <1>3 DEF allVars
<1> QED
  BY <1>1, <1>2, <1>3 DEF ReadNext

(* A failure under a reader keeps what the writers rely on, ...            *)
LEMMA JoltKeepsBase ==
    ASSUME BaseInv, Jolt
    PROVE  BaseInv'
<1>1. TypeInv'
  <2>1. faults' \in 0 .. MaxFaults
    BY ServiceAssumption DEF BaseInv, TypeInv, TypeOK, Jolt
  <2>2. StoreTypeOK(Texts, Configs)'
    BY DEF BaseInv, TypeInv, TypeOK, Jolt, store, StoreTypeOK
  <2>3. (issued \in [Workers -> 0 .. MaxCalls])' /\ (reqs \in [Workers -> Requests \cup {None}])'
        /\ (promised \in [Docs -> SUBSET (Texts \cup {None})])'
    BY DEF BaseInv, TypeInv, TypeOK, Jolt
  <2>4. (\A w \in Busy : PlaceOK(reqs[w]))'
    BY DEF BaseInv, TypeInv, Jolt, Busy
  <2> QED
    BY <2>1, <2>2, <2>3, <2>4 DEF TypeInv, TypeOK
<1>2. BootInv'
  BY DEF BaseInv, BootInv, RegistryStands, Busy, Jolt, store
<1>3. AloneInv'
  BY DEF BaseInv, AloneInv, Busy, Jolt
<1>4. HealthInv'
  <2>1. faults \in Nat /\ faults' = faults + 1
    BY ServiceAssumption DEF BaseInv, TypeInv, TypeOK, Jolt
  <2>2. ASSUME NEW w \in Busy PROVE reqs[w].since \in Nat
    BY <2>2, BusyHas DEF BaseInv, TypeInv, Requests
  <2>3. ASSUME NEW w \in Busy, reqs[w].since <= faults
        PROVE  reqs[w].since <= faults' /\ reqs[w].since # faults'
    BY <2>1, <2>2, <2>3
  <2> QED
    BY <2>3 DEF BaseInv, HealthInv, Busy, Jolt, store
<1> QED
  BY <1>1, <1>2, <1>3, <1>4 DEF BaseInv
(* ... and everything that is promised.                                    *)
LEMMA JoltKeepsPromises ==
    ASSUME PromiseInv, Jolt
    PROVE  PromiseInv'
<1>1. BaseInv'
  BY JoltKeepsBase DEF PromiseInv
<1>2. UnwrittenInv'
  BY DEF PromiseInv, UnwrittenInv, Busy, Jolt
<1>3. SettledInv'
  BY DEF PromiseInv, SettledInv, InCreate, Busy, Jolt
<1>4. ServedInv'
  BY DEF PromiseInv, ServedInv, Serves, HeldAt, Held, Jolt, store
<1>5. PutInv'
  <2>1. \A w \in Workers : PutOK(w)' <=> PutOK(w)
    BY DEF Jolt, store, PutOK, PutKnows, PutKeeps, HeldAt, Held
  <2> QED
    BY <2>1 DEF PromiseInv, PutInv, Busy, Jolt
<1> QED
  BY <1>1, <1>2, <1>3, <1>4, <1>5 DEF PromiseInv

(* The same of what removals have done, ...                                *)
LEMMA JoltKeepsRemovals ==
    ASSUME RemovalInv, Jolt
    PROVE  RemovalInv'
<1>1. DeleteInv'
  BY DEF RemovalInv, DeleteInv, DeleteOK, HeldAt, Held, Busy, Jolt, store
<1>2. DropInv'
  <2>1. \A w \in Workers : DropOK(w)' <=> DropOK(w)
    BY DEF Jolt, store, DropOK, HeldAt, Held
  <2> QED
    BY <2>1 DEF RemovalInv, DropInv, Busy, Jolt
<1>3. ClearedInv'
  BY DEF RemovalInv, ClearedInv, Cleared, HeldAt, Held, Jolt, store
<1> QED
  BY <1>1, <1>2, <1>3 DEF RemovalInv

(* ... of clients whose creates and drops meet no rivals, ...              *)
LEMMA JoltKeepsQuiet ==
    ASSUME QuietInv, Jolt
    PROVE  QuietInv'
<1>1. WritersInv'
  BY DEF QuietInv, WritersInv, WriterOK, Busy, Jolt, store
<1>2. MakerInv'
  BY DEF QuietInv, MakerInv, InCreate, Busy, Jolt, store
<1>3. InsideInv'
  BY DEF QuietInv, InsideInv, HeldAt, Held, InCreate, Busy, Jolt, store
<1> QED
  BY <1>1, <1>2, <1>3 DEF QuietInv

(* ... and of clients that agree on one grid.                              *)
LEMMA JoltKeepsGrid ==
    ASSUME NEW G, GridInv(G), Jolt
    PROVE  GridInv(G)'
<1>1. AskG(G)' /\ MakeG(G)'
  BY DEF GridInv, AskG, MakeG, InCreate, Busy, Jolt
<1>2. StrayG(G)' /\ FirstG(G)'
  BY DEF GridInv, StrayG, FirstG, InCreate, InDrop, Busy, Jolt, store
<1>3. DropG(G)'
  BY DEF GridInv, DropG, InDrop, Busy, Jolt, store
<1> QED
  BY <1>1, <1>2, <1>3 DEF GridInv

-----------------------------------------------------------------------------
(* What searches and fetches can count on whatever is written: at most one *)
(* point at a place.                                                       *)

OnePerPlace(P) == IsFiniteSet(P) /\ \A p, q \in P : Ref(p) = Ref(q) => p = q

Tidy(s) == colls[s] # None => OnePerPlace(colls[s].points)

TidyInv == \A s \in Sizes : Tidy(s)

(* The offsets of a text's slices are finitely many.                       *)
LEMMA OffsetsAreFinite ==
    ASSUME NEW n \in Nat, NEW s
    PROVE  IsFiniteSet(Offsets(0, n, s))
<1>1. Offsets(0, n, s) \in SUBSET (0 .. (n - 1))
  BY DEF Offsets
<1>2. IsFiniteSet(0 .. (n - 1))
  BY FS_Interval
<1> QED
  BY <1>1, <1>2, FS_Subset

(* What is cut of one text at one size has one point at a place.           *)
LEMMA CutIsTidy ==
    ASSUME NEW doc, NEW text \in Texts, NEW s
    PROVE  OnePerPlace(Cut(doc, text, s))
<1> DEFINE O == Offsets(0, Len(text), s)
           f == [p \in Cut(doc, text, s) |-> p.off]
<1>1. ASSUME NEW p \in Cut(doc, text, s)
      PROVE  p.off \in O /\ p = [doc |-> doc, size |-> s, off |-> p.off, of |-> text]
  <2>1. PICK z \in {s} : \E o \in Offsets(0, Len(text), z) :
            p = [doc |-> doc, size |-> z, off |-> o, of |-> text]
    BY <1>1, InPoints DEF Cut
  <2>2. PICK o \in Offsets(0, Len(text), s) :
            p = [doc |-> doc, size |-> s, off |-> o, of |-> text]
    BY <2>1
  <2> QED
    BY <2>2
<1>2. \A p, q \in Cut(doc, text, s) : p.off = q.off => p = q
  BY <1>1
<1>3. f \in Injection(Cut(doc, text, s), O)
  BY <1>1, <1>2 DEF Injection, IsInjective
<1>4. IsFiniteSet(O)
  BY ServiceAssumption, OffsetsAreFinite
<1>5. IsFiniteSet(Cut(doc, text, s))
  BY <1>3, <1>4, FS_Injection
<1> QED
  BY <1>2, <1>5 DEF OnePerPlace, Ref

(* So has every part of a tidy set, ...                                    *)
LEMMA PartIsTidy ==
    ASSUME NEW P, OnePerPlace(P), NEW Q, Q \subseteq P
    PROVE  OnePerPlace(Q)
BY FS_Subset DEF OnePerPlace

(* ... and what an upsert makes of one.                                    *)
LEMMA UpsertIsTidy ==
    ASSUME NEW P, OnePerPlace(P), NEW N, OnePerPlace(N), NEW Q,
           Q = {q \in P : Ref(q) \notin IdsOf(N)} \cup N
    PROVE  OnePerPlace(Q)
<1>1. PICK K : K = {q \in P : Ref(q) \notin IdsOf(N)}
  OBVIOUS
<1>2. IsFiniteSet(K)
  BY <1>1, FS_Subset DEF OnePerPlace
<1>3. IsFiniteSet(Q)
  BY <1>1, <1>2, FS_Union DEF OnePerPlace
<1>4. ASSUME NEW p \in Q, NEW q \in Q, Ref(p) = Ref(q)
      PROVE  p = q
  <2>1. ASSUME NEW x \in K, NEW y \in N PROVE Ref(x) # Ref(y)
    BY <1>1, <2>1 DEF IdsOf
  <2> QED
    BY <1>1, <1>4, <2>1 DEF OnePerPlace
<1> QED
  BY <1>3, <1>4 DEF OnePerPlace

(* Points that come or go leave the collections tidy that were.            *)
LEMMA PointsLeaveTidy ==
    ASSUME TypeInv, NEW z \in Sizes, NEW Q, colls[z] # None, OnePerPlace(Q),
           colls' = [colls EXCEPT ![z].points = Q], NEW s \in Sizes, Tidy(s)
    PROVE  Tidy(s)'
<1>0. colls \in [Sizes -> Collections(Texts, Configs) \cup {None}]
  BY DEF TypeInv, TypeOK, StoreTypeOK
<1>1. PICK k : k = [colls[z] EXCEPT !.points = Q]
  OBVIOUS
<1>2. colls' = [colls EXCEPT ![z] = k]
  BY <1>1
<1>3. k.points = Q
  BY <1>0, <1>1 DEF Collections
<1> QED
  BY <1>0, <1>2, <1>3 DEF Tidy

(* A put writes tidy points, and removes some.                             *)
LEMMA PutIsTidy ==
    ASSUME TypeInv, TidyInv, NEW w \in Busy, PutStores(w), NEW z \in Sizes, z = Size(w),
           reqs[w].at \in {"write", "delete"}
    PROVE  colls[z] # None /\ \E Q : OnePerPlace(Q) /\ colls' = [colls EXCEPT ![z].points = Q]
<1>1. CASE reqs[w].at = "write"
  <2>1. PICK N : N = OfSize(New(w), z)
    OBVIOUS
  <2>2. colls[z] # None /\ UpsertPoints(z, N)
    BY <1>1, <2>1 DEF PutStores
  <2>3. PICK t \in Texts : t = reqs[w].call.text
    BY PutHas DEF PutStores
  <2>4. \A p \in N : p \in Cut(reqs[w].call.doc, t, z)
    BY <2>1, <2>3, NewIs DEF OfSize
  <2>5. OnePerPlace(N)
    BY <2>3, <2>4, CutIsTidy, PartIsTidy
  <2>6. PICK Q : Q = {q \in colls[z].points : Ref(q) \notin IdsOf(N)} \cup N
    OBVIOUS
  <2>7. OnePerPlace(Q)
    BY <2>2, <2>5, <2>6, UpsertIsTidy DEF TidyInv, Tidy
  <2> QED
    BY <2>2, <2>6, <2>7 DEF UpsertPoints
<1>2. CASE reqs[w].at = "delete"
  <2>1. PICK Q : Q = {q \in colls[z].points : Ref(q) \notin OfSize(Orphans(w, reqs[w].old), z)}
    OBVIOUS
  <2>2. colls[z] # None /\ colls' = [colls EXCEPT ![z].points = Q]
    BY <1>2, <2>1 DEF PutStores, DeleteIds
  <2>3. OnePerPlace(Q)
    BY <2>1, <2>2, PartIsTidy DEF TidyInv, Tidy
  <2> QED
    BY <2>2, <2>3
<1> QED
  BY <1>1, <1>2

(* So does every step of a request.                                        *)
LEMMA TidyOn ==
    ASSUME TypeInv, BootInv, TidyInv, NEW w \in Workers, Acts(w), NEW s \in Sizes
    PROVE  Tidy(s)'
<1>0. w \in Busy /\ Tidy(s)
  BY ActsGo DEF TidyInv
<1>1. PICK z : z = Size(w)
  OBVIOUS
<1>2. reqs[w].at \in {"write", "delete", "purge", "make", "index", "remove"} => z \in Sizes
  BY <1>0, <1>1, BusyHas, SizeIsLeft DEF PlaceOK, Looping
<1>3. ASSUME colls' = colls
      PROVE  Tidy(s)'
  BY <1>0, <1>3 DEF Tidy
<1>4. CASE PutStores(w)
  <2>1. CASE reqs[w].at \in {"write", "delete"}
    <3>1. colls[z] # None /\ \E Q : OnePerPlace(Q) /\ colls' = [colls EXCEPT ![z].points = Q]
      BY <1>0, <1>1, <1>2, <1>4, <2>1, PutIsTidy
    <3> QED
      BY <1>0, <1>2, <2>1, <3>1, PointsLeaveTidy
  <2>2. CASE reqs[w].at = "record"
    BY <1>3, <1>4, <2>2 DEF PutStores, WriteRecord
  <2> QED
    BY <1>4, <2>1, <2>2 DEF PutStores
<1>5. CASE DeleteStores(w)
  <2>1. CASE reqs[w].at = "purge"
    <3>1. PICK Q : Q = colls[z].points \ Held(reqs[w].call.doc, z)
      OBVIOUS
    <3>2. colls[z] # None /\ colls' = [colls EXCEPT ![z].points = Q]
      BY <1>1, <1>5, <2>1, <3>1 DEF DeleteStores, DeleteByDocument
    <3>3. OnePerPlace(Q)
      BY <1>2, <2>1, <3>1, <3>2, PartIsTidy DEF TidyInv, Tidy
    <3> QED
      BY <1>0, <1>2, <2>1, <3>2, <3>3, PointsLeaveTidy
  <2>2. CASE reqs[w].at = "forget"
    BY <1>3, <1>5, <2>2 DEF DeleteStores, WriteRecord
  <2> QED
    BY <1>5, <2>1, <2>2 DEF DeleteStores
<1>6. CASE CreateStores(w)
  <2>0. colls \in [Sizes -> Collections(Texts, Configs) \cup {None}]
    BY DEF TypeInv, TypeOK, StoreTypeOK
  <2>1. CASE reqs[w].at = "save"
    BY <1>3, <1>6, <2>1 DEF CreateStores, WriteMeta
  <2>2. CASE reqs[w].at = "make"
    <3>1. PICK k : k = [dim |-> reqs[w].call.config.dim, indexed |-> FALSE, points |-> {}]
      OBVIOUS
    <3>2. colls' = [colls EXCEPT ![z] = k]
      BY <1>1, <1>6, <2>2, <3>1 DEF CreateStores, CreateCollection
    <3>3. k.points = {} /\ OnePerPlace({})
      BY <3>1, FS_EmptySet DEF OnePerPlace
    <3> QED
      BY <1>0, <1>2, <2>0, <2>2, <3>2, <3>3 DEF Tidy
  <2>3. CASE reqs[w].at = "index"
    <3>1. PICK k : k = [colls[z] EXCEPT !.indexed = TRUE]
      OBVIOUS
    <3>2. colls[z] # None /\ colls' = [colls EXCEPT ![z] = k]
      BY <1>1, <1>6, <2>3, <3>1 DEF CreateStores, CreateIndex
    <3>3. k.points = colls[z].points
      BY <1>2, <2>0, <2>3, <3>1, <3>2 DEF Collections
    <3> QED
      BY <1>0, <1>2, <2>0, <2>3, <3>2, <3>3 DEF Tidy, TidyInv
  <2> QED
    BY <1>6, <2>1, <2>2, <2>3 DEF CreateStores
<1>7. CASE DropStores(w)
  <2>1. CASE reqs[w].at = "remove"
    <3>1. colls' = [colls EXCEPT ![z] = None] /\ colls \in [Sizes -> Collections(Texts, Configs) \cup {None}]
      BY <1>1, <1>7, <2>1 DEF DropStores, DeleteCollection, TypeInv, TypeOK, StoreTypeOK
    <3> QED
      BY <1>0, <3>1 DEF Tidy
  <2>2. CASE reqs[w].at \in {"clear", "erase"}
    BY <1>3, <1>7, <2>2 DEF DropStores, PurgeRegistry, WriteMeta
  <2> QED
    BY <1>7, <2>1, <2>2 DEF DropStores
<1>8. CASE BootStores(w) \/ UNCHANGED store
  BY <1>3, <1>8 DEF BootStores, CreateRegistry, IndexRegistry, store
<1> QED
  BY <1>4, <1>5, <1>6, <1>7, <1>8, ActsStore

(* And every step whatever.                                                *)
LEMMA TidyKept ==
    ASSUME TypeInv, BootInv, TidyInv, [Next]_vars \/ Jolt
    PROVE  TidyInv'
<1>1. ASSUME UNCHANGED store
      PROVE  TidyInv'
  BY <1>1 DEF store, TidyInv, Tidy
<1>2. CASE UNCHANGED vars \/ Crash \/ Jolt \/ \E w \in Workers : Begin(w)
  BY <1>1, <1>2 DEF vars, Crash, Jolt, Begin
<1>3. CASE \E w \in Workers : Acts(w)
  BY <1>3, TidyOn DEF TidyInv
<1> QED
  BY <1>2, <1>3 DEF Next, Acts

(* At the start collections hold what was cut of each document's text.     *)
LEMMA InitTidy ==
    ASSUME InitService
    PROVE  TidyInv
<1> SUFFICES ASSUME NEW s \in Sizes, colls[s] # None
             PROVE  OnePerPlace(colls[s].points)
  BY DEF TidyInv, Tidy
<1> DEFINE D == {e \in Docs : docs[e] # None}
           T == {Points(d, docs[d], {s}) : d \in D}
           f == [d \in D |-> Points(d, docs[d], {s})]
<1>1. colls[s].points = UNION T
  BY DEF InitService
<1>2. ASSUME NEW d \in D PROVE docs[d] \in Texts
  BY <1>2, ServiceAssumption DEF InitService
<1>3. ASSUME NEW d \in D
      PROVE  OnePerPlace(f[d]) /\ f[d] = Cut(d, docs[d], s)
  BY <1>2, <1>3, CutIsTidy DEF Cut
<1>4. IsFiniteSet(T)
  <2>1. f \in Surjection(D, T)
    BY DEF Surjection
  <2>2. IsFiniteSet(D)
    BY ReadsAssumption, FS_Subset
  <2> QED
    BY <2>1, <2>2, FS_Surjection
<1>5. IsFiniteSet(UNION T)
  <2>1. \A P \in T : IsFiniteSet(P)
    BY <1>3 DEF OnePerPlace
  <2> HIDE DEF T
  <2> QED
    BY <1>4, <2>1, FS_UNION
<1>6. ASSUME NEW p \in UNION T, NEW q \in UNION T, Ref(p) = Ref(q)
      PROVE  p = q
  <2>1. PICK d \in D : p \in f[d]
    OBVIOUS
  <2>2. PICK e \in D : q \in f[e]
    OBVIOUS
  <2>3. p \in Cut(d, docs[d], s) /\ q \in Cut(e, docs[e], s)
    BY <1>3, <2>1, <2>2
  <2>4. p.doc = d /\ q.doc = e
    BY <2>3, CutIs
  <2>5. d = e
    BY <1>6, <2>4 DEF Ref
  <2> QED
    BY <1>3, <1>6, <2>1, <2>2, <2>5 DEF OnePerPlace
<1> QED
  BY <1>1, <1>5, <1>6 DEF OnePerPlace

-----------------------------------------------------------------------------
(* What each reader holds, and what its request has seen.                  *)

Fields == {"ask", "at", "config", "waiting", "found", "todo", "source", "counts", "total", "faulty",
           "record", "listed", "cursor", "steady", "findable", "lost"}

ShapeInv ==
    /\ reads = [r \in Readers |-> reads[r]]
    /\ \A r \in Readers : reads[r] # None => DOMAIN reads[r] = Fields /\ reads[r].ask \in Asks

(* A request as it begins.                                                 *)
Begins(q) ==
    /\ DOMAIN q = Fields /\ q.ask \in Asks /\ q.at = "config"
    /\ q.config = None /\ q.waiting = {} /\ q.found = << >> /\ q.source = {} /\ q.faulty = {}
    /\ q.listed = << >> /\ q.cursor = None /\ q.counts = << >>
    /\ q.steady = promised /\ q.findable = Findable /\ ~ q.lost

(* What writers' steps leave of its history.                               *)
Ages(r) ==
    /\ r \in Reading /\ [Next]_vars
    /\ reads'[r] = [reads[r] EXCEPT !.findable = @ \cap Findable',
                                    !.steady = [d \in Docs |-> @[d] \cap promised'[d]]]

(* So much may happen to a reader's request.                               *)
LEMMA HowReadsGo ==
    ASSUME ShapeInv, [ReadNext]_allVars, NEW r \in Readers
    PROVE  \/ reads'[r] = reads[r] /\ (r \in Reading => UNCHANGED vars \/ Jolt)
           \/ Begins(reads'[r]) /\ UNCHANGED vars
           \/ Ages(r)
           \/ ReadStep(r)
<1>1. CASE Write
  <2>1. CASE r \in Reading
    BY <1>1, <2>1 DEF Write, Ages
  <2>2. CASE r \notin Reading
    BY <1>1, <2>2 DEF Write
  <2> QED
    BY <2>1, <2>2
<1>2. ASSUME NEW v \in Readers, Ask(v)
      PROVE  \/ reads'[r] = reads[r] /\ UNCHANGED vars
             \/ Begins(reads'[r]) /\ UNCHANGED vars
  <2>1. PICK a \in Asks : reads' = [reads EXCEPT ![v] =
           [ask |-> a, at |-> "config", config |-> None, waiting |-> {}, found |-> << >>,
            todo |-> {}, source |-> {}, counts |-> << >>, total |-> 0,
            faulty |-> {}, record |-> None, listed |-> << >>, cursor |-> None,
            steady |-> promised, findable |-> Findable, lost |-> FALSE]]
    BY <1>2 DEF Ask
  <2>2. CASE v = r
    <3>1. reads'[r] =
           [ask |-> a, at |-> "config", config |-> None, waiting |-> {}, found |-> << >>,
            todo |-> {}, source |-> {}, counts |-> << >>, total |-> 0,
            faulty |-> {}, record |-> None, listed |-> << >>, cursor |-> None,
            steady |-> promised, findable |-> Findable, lost |-> FALSE]
      BY <2>1, <2>2 DEF ShapeInv
    <3> QED
      BY <1>2, <3>1 DEF Begins, Fields, Ask
  <2>3. CASE v # r
    BY <1>2, <2>1, <2>3 DEF ShapeInv, Ask
  <2> QED
    BY <2>2, <2>3
<1>3. ASSUME NEW v \in Readers, ReadStep(v), v # r
      PROVE  reads'[r] = reads[r] /\ (UNCHANGED vars \/ Jolt)
  <2>1. PICK q : Becomes(v, q)
    BY <1>3 DEF ReadStep, Query, Run, Search, List, Get, Inspect, QueryConfig, EmbedQuery,
       EndFanout, SearchAnswers, SearchFails, SearchTimesOut, Fetch, FetchFails, Select, ListConfig, ListPage, ListFails,
       GetConfig, GetLookup, GetRecord, GetFails, InspectConfig, CorpusStats, StatsExists,
       CountPoints, CountDocuments, VerifyCorpus, VerifyExists, VerifyDimension, InspectFails,
       AfterSize, ReadConfig, MoveTo, Fails
  <2>2. reads'[r] = reads[r]
    BY <1>3, <2>1 DEF Becomes, ShapeInv
  <2> QED
    BY <1>3, <2>2, StepsOfReaders
<1>4. CASE UNCHANGED allVars
  BY <1>4 DEF allVars
<1> QED
  BY <1>1, <1>2, <1>3, <1>4 DEF ReadNext
(* A reader's own steps leave its history alone.                           *)
LEMMA StepsRemember ==
    ASSUME ShapeInv, NEW r \in Readers, ReadStep(r)
    PROVE  /\ r \in Reading /\ reads' = [v \in Readers |-> reads'[v]]
           /\ DOMAIN reads'[r] = Fields /\ reads'[r].ask = reads[r].ask
           /\ reads'[r].steady = reads[r].steady /\ reads'[r].findable = reads[r].findable
           /\ reads'[r].config \in {reads[r].config, meta}
<1> DEFINE Fine(q) == /\ DOMAIN q = Fields /\ q.ask = reads[r].ask
                      /\ q.steady = reads[r].steady /\ q.findable = reads[r].findable
                      /\ q.config \in {reads[r].config, meta}
           Kept == reads' = [v \in Readers |-> reads'[v]] /\ Fine(reads'[r])
<1>0. r \in Reading
  BY DEF ReadStep, Query, Run, Search, List, Get, Inspect, QueryConfig, EmbedQuery,
       EndFanout, SearchAnswers, SearchFails, SearchTimesOut, Fetch, FetchFails, Select, ListConfig, ListPage, ListFails,
       GetConfig, GetLookup, GetRecord, GetFails, InspectConfig, CorpusStats, StatsExists,
       CountPoints, CountDocuments, VerifyCorpus, VerifyExists, VerifyDimension, InspectFails, Stands
<1>1. DOMAIN reads[r] = Fields /\ reads = [v \in Readers |-> reads[v]]
  BY <1>0 DEF ShapeInv, Reading
<1>2. ASSUME NEW at, MoveTo(r, at)
      PROVE  Kept
  BY <1>1, <1>2 DEF MoveTo, Becomes, Fields
<1>3. ASSUME Query(r) PROVE Kept
  <2>1. CASE QueryConfig(r)
    <3>1. CASE meta = None \/ Fails(MoveTo(r, "unavailable"))
      BY <1>2, <2>1, <3>1 DEF QueryConfig, ReadConfig, Fails
    <3>2. CASE meta # None /\ ~ Fails(MoveTo(r, "unavailable"))
      BY <1>1, <2>1, <3>2 DEF QueryConfig, ReadConfig, Becomes, Fields
    <3> QED
      BY <3>1, <3>2
  <2>2. CASE EmbedQuery(r)
    BY <1>1, <1>2, <2>2 DEF EmbedQuery, Fails, Becomes, Fields
  <2>3. CASE EndFanout(r)
    <3>1. CASE GivesUp(r)
      BY <1>2, <2>3, <3>1 DEF EndFanout
    <3>2. CASE ~ GivesUp(r)
      <4>1. PICK sizes : reads' = [reads EXCEPT ![r] =
                            [reads[r] EXCEPT !.at = "prefetch", !.todo = sizes]]
        BY <2>3, <3>2 DEF EndFanout, Becomes
      <4> QED
        BY <1>1, <4>1 DEF Fields
    <3> QED
      BY <3>1, <3>2
  <2>4. CASE Select(r)
    BY <1>2, <2>4 DEF Select
  <2>5. ASSUME NEW s \in Sizes, Search(r, s) PROVE Kept
    BY <1>1, <2>5 DEF Search, SearchAnswers, SearchFails, SearchTimesOut, Fails, Becomes, Fields
  <2>6. CASE Fetch(r)
    BY <1>1, <2>6 DEF Fetch, Becomes, Fields
  <2>7. CASE FetchFails(r)
    BY <1>1, <2>7 DEF FetchFails, Fails, Becomes, Fields
  <2> QED
    <3> HIDE DEF Kept
    <3> QED
      BY <1>3, <2>1, <2>2, <2>3, <2>4, <2>5, <2>6, <2>7 DEF Query, Run
<1>4. ASSUME List(r) PROVE Kept
  <2>1. CASE ListConfig(r) \/ ListFails(r)
    BY <1>2, <2>1 DEF ListConfig, ListFails, ReadConfig, Fails
  <2>2. CASE ListPage(r)
    BY <1>1, <2>2 DEF ListPage, Becomes, Fields
  <2> QED
    BY <1>4, <2>1, <2>2 DEF List
<1>5. ASSUME Get(r) PROVE Kept
  <2>1. CASE GetConfig(r) \/ GetLookup(r) \/ GetFails(r)
    BY <1>2, <2>1 DEF GetConfig, GetLookup, GetFails, ReadConfig, Fails
  <2>2. CASE GetRecord(r)
    BY <1>1, <2>2 DEF GetRecord, Becomes, Fields
  <2> QED
    BY <1>5, <2>1, <2>2 DEF Get
<1>6. ASSUME Inspect(r) PROVE Kept
  <2>1. CASE InspectConfig(r) \/ InspectFails(r)
    BY <1>2, <2>1 DEF InspectConfig, InspectFails, ReadConfig, Fails
  <2>2. CASE CorpusStats(r) \/ VerifyCorpus(r)
    <3>1. CASE meta = None
      BY <1>2, <2>2, <3>1 DEF CorpusStats, VerifyCorpus, ReadConfig
    <3>2. CASE meta # None /\ CorpusStats(r)
      BY <1>1, <3>2 DEF CorpusStats, ReadConfig, Becomes, Fields
    <3>3. CASE meta # None /\ VerifyCorpus(r)
      BY <1>1, <3>3 DEF VerifyCorpus, ReadConfig, Becomes, Fields
    <3> QED
      BY <2>2, <3>1, <3>2, <3>3
  <2>3. CASE CountDocuments(r)
    BY <1>1, <2>3 DEF CountDocuments, Becomes, Fields
  <2>4. ASSUME NEW read, NEW head, NEW after, AfterSize(r, read, head, after), Fine(read)
        PROVE  Kept
    BY <1>1, <2>4 DEF AfterSize, Becomes, Fields
  <2>5. \A n : Fine(Counted(r, n))
    BY <1>1 DEF Counted, Fields
  <2>6. Fine(Blamed(r)) /\ Fine(reads[r])
    BY <1>1 DEF Blamed, Fields
  <2>7. CASE StatsExists(r) \/ VerifyExists(r)
    <3>1. CASE colls[Smallest(r)] # None
      BY <1>2, <2>7, <3>1 DEF StatsExists, VerifyExists
    <3>2. CASE colls[Smallest(r)] = None
      <4> HIDE DEF Fine, Kept
      <4> QED
        BY <2>4, <2>5, <2>6, <2>7, <3>2 DEF StatsExists, VerifyExists
    <3> QED
      BY <3>1, <3>2
  <2>8. CASE CountPoints(r)
    <3> HIDE DEF Fine, Kept
    <3> QED
      BY <2>4, <2>5, <2>8 DEF CountPoints
  <2>9. CASE VerifyDimension(r)
    <3> HIDE DEF Fine, Kept
    <3> QED
      BY <2>4, <2>6, <2>9 DEF VerifyDimension
  <2> QED
    BY <1>6, <2>1, <2>2, <2>3, <2>7, <2>8, <2>9 DEF Inspect
<1>7. Kept
  <2> HIDE DEF Kept
  <2> QED
    BY <1>3, <1>4, <1>5, <1>6 DEF ReadStep
<1> QED
  BY <1>0, <1>7

(* Every step keeps the requests in shape.                                 *)
LEMMA ShapeKept ==
    ASSUME ShapeInv, [ReadNext]_allVars
    PROVE  ShapeInv'
<1>1. reads' = [r \in Readers |-> reads'[r]]
  <2>1. CASE Write
    BY <2>1 DEF Write
  <2>2. CASE \E r \in Readers : Ask(r)
    BY <2>2 DEF Ask, ShapeInv
  <2>3. CASE \E r \in Readers : ReadStep(r)
    BY <2>3, StepsRemember
  <2>4. CASE UNCHANGED allVars
    BY <2>4 DEF allVars, ShapeInv
  <2> QED
    BY <2>1, <2>2, <2>3, <2>4 DEF ReadNext
<1>2. ASSUME NEW r \in Readers, reads'[r] # None
      PROVE  DOMAIN reads'[r] = Fields /\ reads'[r].ask \in Asks
  <2>1. CASE reads'[r] = reads[r]
    BY <1>2, <2>1 DEF ShapeInv
  <2>2. CASE Begins(reads'[r])
    BY <2>2 DEF Begins
  <2>3. CASE Ages(r)
    BY <2>3 DEF Ages, ShapeInv, Reading, Fields
  <2>4. CASE ReadStep(r)
    BY <2>4, StepsRemember DEF ShapeInv, Reading
  <2> QED
    BY <2>1, <2>2, <2>3, <2>4, HowReadsGo
<1> QED
  BY <1>1, <1>2 DEF ShapeInv

(* What a request under way has seen promised still is: the history only   *)
(* forgets.                                                                *)
Recalls(q) ==
    /\ q.steady = [d \in Docs |-> q.steady[d]]
    /\ \A d \in Docs : q.steady[d] \subseteq promised[d]
    /\ q.findable \subseteq Findable

PastInv == \A r \in Reading : Recalls(reads[r])

(* What requests that read remember of the promises stays true as others   *)
(* write.                                                                  *)
LEMMA PastKept ==
    ASSUME ShapeInv, TypeInv, PastInv, [ReadNext]_allVars
    PROVE  PastInv'
<1> SUFFICES ASSUME NEW r \in Readers, r \in Reading' PROVE Recalls(reads[r])'
  BY DEF PastInv, Reading
<1>0. ASSUME UNCHANGED vars \/ Jolt PROVE promised' = promised /\ Findable' = Findable
  BY <1>0 DEF vars, store, Jolt, Findable, Busy
<1>1. CASE reads'[r] = reads[r] /\ (r \in Reading => UNCHANGED vars \/ Jolt)
  <2>1. r \in Reading
    BY <1>1 DEF Reading
  <2> QED
    BY <1>0, <1>1, <2>1 DEF PastInv, Recalls
<1>2. CASE Begins(reads'[r]) /\ UNCHANGED vars
  <2>1. promised \in [Docs -> SUBSET (Texts \cup {None})]
    BY DEF TypeInv, TypeOK
  <2> QED
    BY <1>0, <1>2, <2>1 DEF Begins, Recalls
<1>3. CASE Ages(r)
  <2>1. DOMAIN reads[r] = Fields
    BY <1>3 DEF Ages, ShapeInv, Reading
  <2>2. reads'[r].findable = reads[r].findable \cap Findable'
        /\ reads'[r].steady = [d \in Docs |-> reads[r].steady[d] \cap promised'[d]]
    BY <1>3, <2>1 DEF Ages, Fields
  <2> QED
    BY <2>2 DEF Recalls
<1>4. CASE ReadStep(r)
  <2>1. UNCHANGED vars \/ Jolt
    BY <1>4, StepsOfReaders
  <2>2. r \in Reading /\ reads'[r].steady = reads[r].steady /\ reads'[r].findable = reads[r].findable
    BY <1>4, StepsRemember
  <2> QED
    BY <1>0, <2>1, <2>2 DEF PastInv, Recalls
<1> QED
  BY <1>1, <1>2, <1>3, <1>4, HowReadsGo

(* While text is promised, or a put without rivals replaces some, there is *)
(* the corpus, ...                                                         *)
Textual == Findable # {} \/ \E d \in Docs : promised[d] \ {None} # {}

(* A text that is promised, or that a put without rivals replaces, has a   *)
(* corpus to be in.                                                        *)
LEMMA TextNeedsCorpus ==
    ASSUME PromiseInv, Textual
    PROVE  meta # None
<1>1. ASSUME NEW d \in Docs, promised[d] \ {None} # {}
      PROVE  meta # None
  BY <1>1 DEF PromiseInv, ServedInv, Serves
<1>2. ASSUME NEW d \in Findable, NEW w \in Busy, reqs[w].call.op = "put", reqs[w].alone,
             NEW c \in reqs[w].was, HasText(c)
      PROVE  meta # None
  <2>1. PutKeeps(w)
    BY <1>2 DEF PromiseInv, PutInv, PutOK
  <2> QED
    BY <1>2, <2>1 DEF PutKeeps, HasText
<1> QED
  BY <1>1, <1>2 DEF Textual, Findable, HasText

(* ... and it is one and the same.                                         *)
LEMMA TextFixesConfig ==
    ASSUME PromiseInv, PromiseInv', [Next]_vars \/ Jolt, Textual, Textual'
    PROVE  meta' = meta
<1> SUFFICES ASSUME meta' # meta PROVE FALSE
  OBVIOUS
<1>0. TypeInv /\ BootInv /\ AloneInv
  BY DEF PromiseInv, BaseInv
<1>1. meta' # None
  <2>1. (PromiseInv /\ Textual => meta # None)'
    BY TextNeedsCorpus, PTL
  <2> QED
    BY <2>1
<1>2. PICK w \in Workers : Acts(w)
  <2>1. ~ UNCHANGED vars /\ ~ Jolt /\ ~ Crash /\ \A w \in Workers : ~ Begin(w)
    BY DEF vars, store, Jolt, Crash, Begin
  <2> QED
    BY <2>1 DEF Next, Acts
<1>3. w \in Busy
  BY <1>0, <1>2, ActsGo
<1>4. reqs[w].call.op = "create" /\ reqs[w].at = "save"
  BY <1>0, <1>1, <1>2, <1>3, ActsLeave
<1>5. ASSUME NEW d \in Docs, promised[d] \ {None} # {} PROVE FALSE
  BY <1>3, <1>4, <1>5 DEF PromiseInv, SettledInv, InCreate, Creating, Busy
<1>6. ASSUME NEW v \in Busy, reqs[v].call.op = "put", reqs[v].alone PROVE FALSE
  BY <1>0, <1>3, <1>4, <1>6 DEF AloneInv, Clash
<1> QED
  BY <1>5, <1>6 DEF Textual, Findable, HasText

(* So a reader whose request began with text about works on the corpus     *)
(* there is.                                                               *)
Awaits(q) == q.findable # {} \/ \E d \in Docs : q.steady[d] \ {None} # {}

ConfigInv == \A r \in Reading :
    (reads[r].config # None /\ Awaits(reads[r])) => meta = reads[r].config

(* A request that waits for a text has one to wait for.                    *)
LEMMA AwaitsText ==
    ASSUME NEW q, Recalls(q), Awaits(q)
    PROVE  Textual
BY DEF Recalls, Awaits, Textual

(* The config that a request read stays the corpus's for as long as it     *)
(* waits for a text.                                                       *)
LEMMA ConfigKept ==
    ASSUME ShapeInv, PromiseInv, PromiseInv', PastInv, PastInv', ConfigInv, [ReadNext]_allVars
    PROVE  ConfigInv'
<1> SUFFICES ASSUME NEW r \in Readers, r \in Reading', reads'[r].config # None, Awaits(reads'[r])
             PROVE  meta' = reads'[r].config
  BY DEF ConfigInv, Reading, Awaits
<1>0. Textual'
  <2>1. Recalls(reads[r])' /\ Awaits(reads[r])'
    BY DEF PastInv, Awaits
  <2> QED
    BY <2>1 DEF Recalls, Awaits, Textual
<1>1. ASSUME r \in Reading, reads[r].config # None, Awaits(reads[r]), reads'[r].config = reads[r].config
      PROVE  meta' = reads'[r].config
  <2>1. meta = reads[r].config
    BY <1>1 DEF ConfigInv
  <2>2. Textual
    BY <1>1, AwaitsText DEF PastInv
  <2>3. [Next]_vars \/ Jolt
    BY StepsAround
  <2> QED
    BY <1>0, <1>1, <2>1, <2>2, <2>3, TextFixesConfig
<1>2. CASE reads'[r] = reads[r] /\ (r \in Reading => UNCHANGED vars \/ Jolt)
  <2>1. r \in Reading
    BY <1>2 DEF Reading
  <2> QED
    BY <1>1, <1>2, <2>1
<1>3. CASE Begins(reads'[r]) /\ UNCHANGED vars
  BY <1>3 DEF Begins
<1>4. CASE Ages(r)
  <2>1. DOMAIN reads[r] = Fields /\ r \in Reading
    BY <1>4 DEF Ages, ShapeInv, Reading
  <2>2. reads'[r].findable = reads[r].findable \cap Findable'
        /\ reads'[r].steady = [d \in Docs |-> reads[r].steady[d] \cap promised'[d]]
        /\ reads'[r].config = reads[r].config
    BY <1>4, <2>1 DEF Ages, Fields
  <2>3. Awaits(reads[r])
    BY <2>2 DEF Awaits
  <2> QED
    BY <1>1, <2>1, <2>2, <2>3
<1>5. CASE ReadStep(r)
  <2>1. UNCHANGED vars \/ Jolt
    BY <1>5, StepsOfReaders
  <2>2. meta' = meta
    BY <2>1 DEF vars, store, Jolt
  <2>3. r \in Reading /\ reads'[r].steady = reads[r].steady /\ reads'[r].findable = reads[r].findable
        /\ reads'[r].config \in {reads[r].config, meta}
    BY <1>5, StepsRemember
  <2>4. Awaits(reads[r])
    BY <2>3 DEF Awaits
  <2> QED
    BY <1>1, <2>2, <2>3, <2>4
<1> QED
  BY <1>2, <1>3, <1>4, <1>5, HowReadsGo

-----------------------------------------------------------------------------
(* What a search or a fetch returns, whatever it finds.                    *)

(* The hits of a fan-out.                                                  *)
LEMMA HitsAre ==
    ASSUME NEW f, NEW p
    PROVE  p \in AllHits(f) <=> \E s \in DOMAIN f : \E i \in DOMAIN f[s] : p = f[s][i]
BY DEF AllHits, ToSet

(* The k best of finitely many points, or all if they are not as many.     *)
LEMMA RankingIs ==
    ASSUME NEW P, IsFiniteSet(P), NEW k \in Nat, NEW h \in Rankings(P, k)
    PROVE  /\ h \in Seq(P)
           /\ \A i, j \in DOMAIN h : h[i] = h[j] => i = j
           /\ Len(h) <= k
           /\ Len(h) < k => \A p \in P : \E i \in DOMAIN h : h[i] = p
<1>0. PICK m \in Nat : m = Cardinality(P)
  BY FS_CardinalityType
<1>1. PICK n : n = Min({k, m})
  OBVIOUS
<1>2. n \in {k, m} /\ n <= k /\ n <= m
  <2>1. PICK T : T = {k, m}
    OBVIOUS
  <2>2. T \subseteq Nat /\ T # {}
    BY <2>1
  <2>3. Min(T) \in T /\ \A y \in T : Min(T) <= y
    BY <2>2, MinIsLeast
  <2> QED
    BY <1>1, <2>1, <2>3
<1>3. h \in [1 .. n -> P] /\ \A i, j \in 1 .. n : h[i] = h[j] => i = j
  BY <1>0, <1>1 DEF Rankings
<1>4. h \in Seq(P) /\ Len(h) = n /\ DOMAIN h = 1 .. n
  BY <1>2, <1>3
<1>5. ASSUME n < k PROVE \A p \in P : \E i \in DOMAIN h : h[i] = p
  <2>1. n = m
    BY <1>2, <1>5
  <2>2. h \in [1 .. Cardinality(P) -> P] /\ \A i, j \in 1 .. Cardinality(P) : i < j => h[i] # h[j]
    BY <1>0, <1>3, <2>1
  <2>3. \A p \in P : \E i \in 1 .. Cardinality(P) : h[i] = p
    BY <2>2, LineIsAll
  <2> QED
    BY <1>0, <1>4, <2>1, <2>3
<1> QED
  BY <1>2, <1>3, <1>4, <1>5

(* A list of hits of one size: slices on its grid, at one place each.      *)
Ranked(h, s) ==
    /\ h \in Seq(SlicePoints(Texts))
    /\ \A i \in DOMAIN h : h[i] \in Cut(h[i].doc, h[i].of, s)
    /\ \A i, j \in DOMAIN h : Ref(h[i]) = Ref(h[j]) => i = j

(* What is ranked are slices, each of a document.                          *)
LEMMA RankedAreSlices ==
    ASSUME NEW h, NEW s, Ranked(h, s)
    PROVE  \A i \in DOMAIN h : h[i] \in SlicePoints(Texts) /\ h[i].doc \in Docs
<1>1. \A i \in DOMAIN h : h[i] \in SlicePoints(Texts)
  BY DEF Ranked
<1> QED
  BY <1>1 DEF SlicePoints

(* What it tells of documents whose text is promised, or being replaced.   *)
Tells(h, s, k, steady, findable) ==
    /\ \A i \in DOMAIN h : \A c \in steady[h[i].doc] \ {None} : h[i] \in Cut(h[i].doc, c, s)
    /\ Len(h) < k =>
          /\ \A d \in Docs : \A c \in steady[d] \ {None} :
                \A p \in Cut(d, c, s) : \E i \in DOMAIN h : h[i] = p
          /\ \A d \in findable : \E i \in DOMAIN h : h[i].doc = d

(* What a search returns, of any number of points, is ranked as the query  *)
(* remembers it.                                                           *)
LEMMA SearchIsRanked ==
    ASSUME TypeInv, TidyInv, NEW s \in Sizes, colls[s] # None, NEW k \in Nat,
           NEW h \in Rankings(colls[s].points, k)
    PROVE  Ranked(h, s)
<1>1. PICK P : P = colls[s].points
  OBVIOUS
<1>2. OnePerPlace(P) /\ P \in SUBSET SlicePoints(Texts)
  BY <1>1, PointsAre DEF TidyInv, Tidy
<1>3. \A p \in P : p \in Cut(p.doc, p.of, s)
  BY <1>1 DEF TypeInv, TypeOK, StoreTypeOK, Cut
<1>4. h \in Seq(P) /\ \A i, j \in DOMAIN h : h[i] = h[j] => i = j
  BY <1>1, <1>2, RankingIs DEF OnePerPlace
<1>5. \A i \in DOMAIN h : h[i] \in P
  BY <1>4
<1>6. h \in Seq(SlicePoints(Texts))
  BY <1>2, <1>4
<1> QED
  BY <1>2, <1>3, <1>4, <1>5, <1>6 DEF Ranked, OnePerPlace

(* A text that is not empty has a slice at the start, at every size.       *)
LEMMA TextHasSlices ==
    ASSUME NEW d, NEW c \in Texts, c # << >>, NEW s \in Sizes
    PROVE  \E p \in Cut(d, c, s) : p.doc = d
<1>1. PICK p : p = [doc |-> d, size |-> s, off |-> 0, of |-> c]
  OBVIOUS
<1>2. Len(c) \in Nat \ {0} /\ s \in Nat \ {0}
  BY ServiceAssumption, ReadsAssumption, GridAssumption
<1>3. 0 \in Offsets(0, Len(c), s)
  BY <1>2 DEF Offsets
<1>4. PICK S : S = {s}
  OBVIOUS
<1>5. p \in Points(d, c, S)
  BY <1>1, <1>3, <1>4, InPoints
<1> QED
  BY <1>1, <1>4, <1>5 DEF Cut

(* So a document that has text, or is being given some, is held by every   *)
(* collection of its corpus.                                               *)
LEMMA FindableIsHeld ==
    ASSUME PromiseInv, NEW d \in Findable, NEW s \in meta.sizes, s \in Sizes
    PROVE  \E p \in HeldAt(d, s) : p.doc = d
<1>0. TypeInv /\ promised \in [Docs -> SUBSET (Texts \cup {None})] /\ d \in Docs
  BY DEF PromiseInv, BaseInv, TypeInv, TypeOK, Findable
<1>1. ASSUME NEW c \in promised[d], HasText(c)
      PROVE  \E p \in HeldAt(d, s) : p.doc = d
  <2>1. c \in Texts /\ c # << >> /\ c # None
    BY <1>0, <1>1 DEF HasText
  <2>2. HeldAt(d, s) = Cut(d, c, s)
    BY <1>0, <2>1 DEF PromiseInv, ServedInv, Serves
  <2> QED
    BY <2>1, <2>2, TextHasSlices
<1>2. ASSUME NEW w \in Busy, reqs[w].call.op = "put", reqs[w].call.doc = d, reqs[w].alone,
             HasText(reqs[w].call.text), NEW c \in reqs[w].was, HasText(c)
      PROVE  \E p \in HeldAt(d, s) : p.doc = d
  <2>1. PICK t : t = reqs[w].call.text
    OBVIOUS
  <2>2. t \in Texts /\ t # << >> /\ c \in Texts /\ c # << >> /\ c # None
    BY <1>0, <1>2, <2>1, BusyHas, PutHas DEF HasText, Requests
  <2>3. PICK g \in {c, t} : IdsOf(Points(d, g, meta.sizes)) \subseteq IdsOf(Stored(d, meta.sizes))
    <3>1. LET before == Points(d, c, meta.sizes)
              after == Points(d, t, meta.sizes)
              now == Stored(d, meta.sizes)
          IN  /\ \E generation \in {before, after} : IdsOf(generation) \subseteq IdsOf(now)
              /\ now \subseteq before \cup after
      BY <1>2, <2>1, <2>2, NoGapHere DEF PromiseInv
    <3> QED
      BY <3>1
  <2>4. PICK p \in Cut(d, g, s) : p.doc = d
    BY <2>2, <2>3, TextHasSlices
  <2>5. p.size = s /\ p \in Points(d, g, meta.sizes)
    BY <2>4, CutIs, PointsAreCuts
  <2>6. PICK q \in Stored(d, meta.sizes) : Ref(q) = Ref(p)
    BY <2>3, <2>5 DEF IdsOf
  <2>7. PICK z \in meta.sizes : q \in HeldAt(d, z)
    BY <2>6, StoredIs
  <2>8. colls[z] # None /\ q \in Held(d, z) /\ z \in Sizes
    <3>1. meta.sizes \subseteq Sizes
      BY <1>0, <1>2, ServiceAssumption, TextNeedsCorpus DEF TypeInv, TypeOK, StoreTypeOK, Textual
    <3> QED
      BY <2>7, <3>1 DEF HeldAt
  <2>9. q.doc = d /\ q.size = z
    BY <1>0, <2>8, HeldIs
  <2> QED
    BY <2>5, <2>6, <2>7, <2>9 DEF Ref
<1> QED
  BY <1>1, <1>2 DEF Findable

(* What a search finds is true to what is promised.                        *)
LEMMA SearchTells ==
    ASSUME PromiseInv, TidyInv, NEW s \in Sizes, colls[s] # None, NEW k \in Nat,
           NEW h \in Rankings(colls[s].points, k), NEW q, Recalls(q),
           Awaits(q) => meta # None /\ s \in meta.sizes
    PROVE  Tells(h, s, k, q.steady, q.findable)
<1>0. TypeInv /\ ServedInv /\ Ranked(h, s)
  BY SearchIsRanked DEF PromiseInv, BaseInv
<1>1. PICK P : P = colls[s].points
  OBVIOUS
<1>2. /\ h \in Seq(P)
      /\ Len(h) < k => \A p \in P : \E i \in DOMAIN h : h[i] = p
  <2>1. IsFiniteSet(P)
    BY <1>1 DEF TidyInv, Tidy, OnePerPlace
  <2> QED
    BY <1>1, <2>1, RankingIs
<1>3. ASSUME NEW d, NEW p
      PROVE  p \in HeldAt(d, s) <=> p \in P /\ p.doc = d
  BY <1>1 DEF HeldAt, Held
<1>4. ASSUME NEW d \in Docs, NEW c \in q.steady[d] \ {None}
      PROVE  HeldAt(d, s) = Cut(d, c, s)
  <2>1. c \in promised[d] \ {None}
    BY <1>4 DEF Recalls
  <2>2. s \in meta.sizes
    BY <1>4 DEF Awaits
  <2> QED
    BY <1>0, <2>1, <2>2 DEF ServedInv, Serves
<1>5. ASSUME NEW i \in DOMAIN h, NEW c \in q.steady[h[i].doc] \ {None}
      PROVE  h[i] \in Cut(h[i].doc, c, s)
  <2>1. h[i] \in P /\ h[i].doc \in Docs
    BY <1>0, <1>2, RankedAreSlices
  <2> QED
    BY <1>3, <1>4, <1>5, <2>1
<1>6. ASSUME Len(h) < k, NEW d \in Docs, NEW c \in q.steady[d] \ {None}, NEW p \in Cut(d, c, s)
      PROVE  \E i \in DOMAIN h : h[i] = p
  BY <1>2, <1>3, <1>4, <1>6
<1>7. ASSUME Len(h) < k, NEW d \in q.findable
      PROVE  \E i \in DOMAIN h : h[i].doc = d
  <2>1. s \in meta.sizes /\ d \in Findable
    BY <1>7 DEF Awaits, Recalls
  <2>2. PICK p \in HeldAt(d, s) : p.doc = d
    BY <2>1, FindableIsHeld
  <2> QED
    BY <1>2, <1>3, <1>7, <2>2
<1> QED
  BY <1>5, <1>6, <1>7 DEF Tells

(* What it tells of fewer documents, or of less of them, it tells.         *)
LEMMA TellsLess ==
    ASSUME NEW h, NEW s, NEW k, NEW steady, NEW findable, Tells(h, s, k, steady, findable),
           Ranked(h, s),
           NEW less, \A d \in Docs : less[d] \subseteq steady[d], NEW fewer, fewer \subseteq findable
    PROVE  Tells(h, s, k, less, fewer)
<1>1. \A i \in DOMAIN h : h[i].doc \in Docs
  BY RankedAreSlices
<1> QED
  BY <1>1 DEF Tells

-----------------------------------------------------------------------------
(* What a query holds at each await.                                       *)

TargetsOf(q) ==
    LET kept == IF q.ask.sizes = None THEN {} ELSE q.config.sizes \cap q.ask.sizes
    IN  IF kept = {} THEN q.config.sizes ELSE kept

Up(h, s) == [doc |-> h.doc, size |-> s, off |-> ParentOffset(h.off, s)]

WantedOf(q) ==
    (UNION {{Up(h, s) : s \in LevelsAbove(h.size) \cap q.config.sizes} : h \in AllHits(q.found)})
        \ IdsOf(AllHits(q.found))

(* The lists of the sizes that answered so far.                            *)
Searched(q) ==
    /\ q.waiting \subseteq TargetsOf(q) /\ DOMAIN q.found \subseteq TargetsOf(q)
    /\ \A s \in DOMAIN q.found :
          Ranked(q.found[s], s) /\ Tells(q.found[s], s, q.ask.k, q.steady, q.findable)

(* The points fetched so far: wanted, from sizes it is done with, and of   *)
(* what is promised all of them, unless a fetch failed.                    *)
Sourced(q) ==
    /\ q.todo \subseteq q.config.sizes
    /\ \A p \in q.source :
          /\ p \in SlicePoints(Texts) /\ p \in Cut(p.doc, p.of, p.size)
          /\ p.size \in q.config.sizes \ q.todo /\ Ref(p) \in WantedOf(q)
          /\ \A c \in q.steady[p.doc] \ {None} : p \in Cut(p.doc, c, p.size)
    /\ \A p, o \in q.source : Ref(p) = Ref(o) => p = o
    /\ ~ q.lost => \A s \in q.config.sizes \ q.todo : \A d \in Docs :
          \A c \in q.steady[d] \ {None} : \A p \in Cut(d, c, s) :
              Ref(p) \in WantedOf(q) => p \in q.source

QueryOK(q) == q.ask.op = "query" =>
    /\ q.at \in {"config", "embed"} => q.found = << >>
    /\ q.at \in {"config", "embed", "search"} => q.source = {}
    /\ q.at \in {"embed", "search", "prefetch", "answered"} => q.config \in Configs
    /\ q.at \in {"search", "prefetch", "answered"} => Searched(q)
    /\ q.at \in {"prefetch", "answered"} => Sourced(q)
    /\ q.at = "answered" => q.todo = {}

QueryInv == \A r \in Readers : reads[r] # None => QueryOK(reads[r])

(* It searches sizes of its corpus.                                        *)
LEMMA TargetsOnGrid ==
    ASSUME NEW q, q.config \in Configs
    PROVE  TargetsOf(q) \subseteq q.config.sizes /\ TargetsOf(q) \subseteq Sizes
BY ServiceAssumption DEF TargetsOf

(* A request that begins has found nothing.                                *)
LEMMA QueryBegins ==
    ASSUME NEW q, Begins(q)
    PROVE  QueryOK(q)
BY DEF Begins, QueryOK

Forgets(q, p, fewer, less) == p = [q EXCEPT !.findable = fewer, !.steady = less]

(* Writers make it forget, and nothing else.                               *)
LEMMA QueryAges ==
    ASSUME NEW q, QueryOK(q), DOMAIN q = Fields, NEW fewer, NEW less, NEW p,
           Forgets(q, p, fewer, less),
           fewer \subseteq q.findable, \A d \in Docs : less[d] \subseteq q.steady[d]
    PROVE  QueryOK(p)
<1> SUFFICES ASSUME q.ask.op = "query" PROVE QueryOK(p)
  BY DEF QueryOK, Fields, Forgets
<1>1. /\ p.ask = q.ask /\ p.at = q.at /\ p.config = q.config /\ p.found = q.found /\ p.todo = q.todo
      /\ p.waiting = q.waiting /\ p.source = q.source /\ p.lost = q.lost
      /\ p.steady = less /\ p.findable = fewer
  BY DEF Fields, Forgets
<1>2. TargetsOf(p) = TargetsOf(q) /\ WantedOf(p) = WantedOf(q)
  BY <1>1 DEF TargetsOf, WantedOf
<1>3. ASSUME Searched(q) PROVE Searched(p)
  <2>1. ASSUME NEW s \in DOMAIN p.found
        PROVE  Ranked(p.found[s], s) /\ Tells(p.found[s], s, p.ask.k, p.steady, p.findable)
    BY <1>1, <1>3, <2>1, TellsLess DEF Searched
  <2> QED
    BY <1>1, <1>2, <1>3, <2>1 DEF Searched
<1>4. ASSUME Sourced(q) PROVE Sourced(p)
  <2>1. ASSUME NEW x \in p.source
        PROVE  /\ x \in SlicePoints(Texts) /\ x \in Cut(x.doc, x.of, x.size)
               /\ x.size \in p.config.sizes \ p.todo /\ Ref(x) \in WantedOf(p)
               /\ \A c \in p.steady[x.doc] \ {None} : x \in Cut(x.doc, c, x.size)
    <3>1. x \in SlicePoints(Texts) /\ x.doc \in Docs
      BY <1>1, <1>4, <2>1 DEF Sourced, SlicePoints
    <3> QED
      BY <1>1, <1>2, <1>4, <2>1, <3>1 DEF Sourced
  <2>2. ~ p.lost => \A s \in p.config.sizes \ p.todo : \A d \in Docs :
            \A c \in p.steady[d] \ {None} : \A x \in Cut(d, c, s) :
                Ref(x) \in WantedOf(p) => x \in p.source
    BY <1>1, <1>2, <1>4 DEF Sourced
  <2> QED
    BY <1>1, <1>4, <2>1, <2>2 DEF Sourced
<1> QED
  BY <1>1, <1>3, <1>4 DEF QueryOK

Searches(q, p, s, h) == p = [q EXCEPT !.waiting = @ \ {s}, !.found = Assign(@, s, h)]

(* A size answers.                                                         *)
LEMMA QuerySearches ==
    ASSUME NEW q, QueryOK(q), DOMAIN q = Fields, q.ask.op = "query", q.at = "search",
           NEW s \in q.waiting, NEW h, Ranked(h, s), Tells(h, s, q.ask.k, q.steady, q.findable),
           NEW p, Searches(q, p, s, h)
    PROVE  QueryOK(p)
<1>0. q.source = {} /\ q.config \in Configs /\ Searched(q)
  BY DEF QueryOK
<1>1. /\ p.ask = q.ask /\ p.at = q.at /\ p.config = q.config /\ p.source = q.source
      /\ p.steady = q.steady /\ p.findable = q.findable
      /\ p.waiting = q.waiting \ {s} /\ p.found = Assign(q.found, s, h)
  BY DEF Fields, Searches
<1>2. TargetsOf(p) = TargetsOf(q)
  BY <1>1 DEF TargetsOf
<1>3. DOMAIN p.found = DOMAIN q.found \cup {s}
      /\ \A z \in DOMAIN p.found : p.found[z] = IF z = s THEN h ELSE q.found[z]
  BY <1>1 DEF Assign
<1>4. Searched(p)
  <2>1. ASSUME NEW z \in DOMAIN p.found
        PROVE  Ranked(p.found[z], z) /\ Tells(p.found[z], z, p.ask.k, p.steady, p.findable)
    <3>1. CASE z = s
      BY <1>1, <1>3, <3>1
    <3>2. CASE z # s
      BY <1>0, <1>1, <1>3, <3>2 DEF Searched
    <3> QED
      BY <3>1, <3>2
  <2> QED
    BY <1>0, <1>1, <1>2, <1>3, <2>1 DEF Searched
<1> QED
  BY <1>0, <1>1, <1>4 DEF QueryOK

(* Or it fails.                                                            *)
LEMMA QueryMisses ==
    ASSUME NEW q, QueryOK(q), DOMAIN q = Fields, q.at = "search", NEW s,
           NEW p, p = [q EXCEPT !.waiting = @ \ {s}]
    PROVE  QueryOK(p)
<1>1. /\ p.ask = q.ask /\ p.at = q.at /\ p.config = q.config /\ p.found = q.found
      /\ p.source = q.source /\ p.steady = q.steady /\ p.findable = q.findable
      /\ p.waiting = q.waiting \ {s}
  BY DEF Fields
<1>2. TargetsOf(p) = TargetsOf(q)
  BY <1>1 DEF TargetsOf
<1>3. Searched(q) => Searched(p)
  BY <1>1, <1>2 DEF Searched
<1> QED
  BY <1>1, <1>3 DEF QueryOK

(* The fan-out is over: it is to fetch what the hits need.                 *)
LEMMA QueryPlans ==
    ASSUME NEW q, QueryOK(q), DOMAIN q = Fields, q.ask.op = "query", q.at = "search",
           NEW p, p = [q EXCEPT !.at = "prefetch", !.todo = {i.size : i \in WantedOf(q)}]
    PROVE  QueryOK(p)
<1>0. q.source = {} /\ q.config \in Configs /\ Searched(q)
  BY DEF QueryOK
<1>1. /\ p.ask = q.ask /\ p.at = "prefetch" /\ p.config = q.config /\ p.found = q.found
      /\ p.source = q.source /\ p.steady = q.steady /\ p.findable = q.findable
      /\ p.waiting = q.waiting /\ p.todo = {i.size : i \in WantedOf(q)}
  BY DEF Fields
<1>2. TargetsOf(p) = TargetsOf(q) /\ WantedOf(p) = WantedOf(q)
  BY <1>1 DEF TargetsOf, WantedOf
<1>3. Searched(p)
  BY <1>0, <1>1, <1>2 DEF Searched
<1>4. \A i \in WantedOf(q) : i.size \in q.config.sizes
  BY DEF WantedOf, Up
<1>5. ASSUME NEW s \in p.config.sizes \ p.todo, NEW d \in Docs, NEW c, NEW x \in Cut(d, c, s)
      PROVE  Ref(x) \notin WantedOf(p)
  <2>1. Ref(x).size = s
    BY CutIs DEF Ref
  <2> QED
    BY <1>1, <1>2, <1>5, <2>1
<1>6. Sourced(p)
  BY <1>0, <1>1, <1>4, <1>5 DEF Sourced
<1> QED
  BY <1>0, <1>1, <1>3, <1>6 DEF QueryOK

(* It fetches what there is at one size of what it wants, ...              *)
Fetched(q, z, got) ==
    /\ \A x \in got :
          /\ x \in SlicePoints(Texts) /\ x \in Cut(x.doc, x.of, z) /\ Ref(x) \in WantedOf(q)
          /\ \A c \in q.steady[x.doc] \ {None} : x \in Cut(x.doc, c, z)
    /\ \A x, y \in got : Ref(x) = Ref(y) => x = y
    /\ \A d \in Docs : \A c \in q.steady[d] \ {None} : \A x \in Cut(d, c, z) :
          Ref(x) \in WantedOf(q) => x \in got

Fetches(q, p, z, got) == p = [q EXCEPT !.todo = q.todo \ {z}, !.source = @ \cup got]

(* A prefetch at one size keeps what the query has found and adds what it  *)
(* asked for.                                                              *)
LEMMA QueryFetches ==
    ASSUME NEW q, QueryOK(q), DOMAIN q = Fields, q.ask.op = "query", q.at = "prefetch",
           NEW z \in q.todo, NEW got, Fetched(q, z, got),
           NEW p, Fetches(q, p, z, got)
    PROVE  QueryOK(p)
<1>0. q.config \in Configs /\ Searched(q) /\ Sourced(q)
  BY DEF QueryOK
<1>1. /\ p.ask = q.ask /\ p.at = q.at /\ p.config = q.config /\ p.found = q.found
      /\ p.source = q.source \cup got /\ p.steady = q.steady /\ p.findable = q.findable
      /\ p.waiting = q.waiting /\ p.todo = q.todo \ {z} /\ p.lost = q.lost
  BY DEF Fields, Fetches
<1>2. TargetsOf(p) = TargetsOf(q) /\ WantedOf(p) = WantedOf(q)
  BY <1>1 DEF TargetsOf, WantedOf
<1>3. Searched(p)
  BY <1>0, <1>1, <1>2 DEF Searched
<1>4. \A x \in got : x.size = z
  BY CutIs DEF Fetched
<1>5. z \in q.config.sizes /\ p.todo \subseteq p.config.sizes
  BY <1>0, <1>1 DEF Sourced
<1>6. ASSUME NEW x \in p.source
      PROVE  /\ x \in SlicePoints(Texts) /\ x \in Cut(x.doc, x.of, x.size)
             /\ x.size \in p.config.sizes \ p.todo /\ Ref(x) \in WantedOf(p)
             /\ \A c \in p.steady[x.doc] \ {None} : x \in Cut(x.doc, c, x.size)
  <2>1. CASE x \in q.source
    BY <1>0, <1>1, <1>2, <2>1 DEF Sourced
  <2>2. CASE x \in got
    BY <1>1, <1>2, <1>4, <1>5, <2>2 DEF Fetched
  <2> QED
    BY <1>1, <2>1, <2>2
<1>7. ASSUME NEW x \in p.source, NEW y \in p.source, Ref(x) = Ref(y) PROVE x = y
  <2>1. x.size = y.size
    BY <1>7 DEF Ref
  <2>2. CASE x \in q.source /\ y \in q.source
    BY <1>0, <1>7, <2>2 DEF Sourced
  <2>3. CASE x \in got /\ y \in got
    BY <1>7, <2>3 DEF Fetched
  <2>4. ASSUME NEW a \in q.source, NEW b \in got, a.size = b.size PROVE FALSE
    BY <1>0, <1>4, <2>4 DEF Sourced
  <2> QED
    BY <1>1, <2>1, <2>2, <2>3, <2>4
<1>8. ASSUME ~ p.lost, NEW s \in p.config.sizes \ p.todo, NEW d \in Docs,
             NEW c \in p.steady[d] \ {None}, NEW x \in Cut(d, c, s), Ref(x) \in WantedOf(p)
      PROVE  x \in p.source
  <2>1. CASE s = z
    BY <1>1, <1>2, <1>8, <2>1 DEF Fetched
  <2>2. CASE s # z
    BY <1>0, <1>1, <1>2, <1>8, <2>2 DEF Sourced
  <2> QED
    BY <2>1, <2>2
<1>9. Sourced(p)
  BY <1>5, <1>6, <1>7, <1>8 DEF Sourced
<1> QED
  BY <1>0, <1>1, <1>3, <1>9 DEF QueryOK

(* ... or leaves the size out.                                             *)
LEMMA QuerySkips ==
    ASSUME NEW q, QueryOK(q), DOMAIN q = Fields, q.ask.op = "query", q.at = "prefetch",
           NEW z \in q.todo, NEW p, p = [q EXCEPT !.todo = q.todo \ {z}, !.lost = TRUE]
    PROVE  QueryOK(p)
<1>0. q.config \in Configs /\ Searched(q) /\ Sourced(q)
  BY DEF QueryOK
<1>1. /\ p.ask = q.ask /\ p.at = q.at /\ p.config = q.config /\ p.found = q.found
      /\ p.source = q.source /\ p.steady = q.steady /\ p.findable = q.findable
      /\ p.waiting = q.waiting /\ p.todo = q.todo \ {z} /\ p.lost
  BY DEF Fields
<1>2. TargetsOf(p) = TargetsOf(q) /\ WantedOf(p) = WantedOf(q)
  BY <1>1 DEF TargetsOf, WantedOf
<1>3. Searched(p)
  BY <1>0, <1>1, <1>2 DEF Searched
<1>4. Sourced(p)
  BY <1>0, <1>1, <1>2 DEF Sourced
<1> QED
  BY <1>0, <1>1, <1>3, <1>4 DEF QueryOK

(* It goes on with the same findings, or gives up.                         *)
LEMMA QueryMoves ==
    ASSUME NEW q, QueryOK(q), DOMAIN q = Fields, NEW at, NEW p, p = [q EXCEPT !.at = at],
           at \in {"refused", "unavailable"} \/ (at = "answered" /\ q.at = "prefetch" /\ q.todo = {})
    PROVE  QueryOK(p)
<1>1. /\ p.ask = q.ask /\ p.at = at /\ p.config = q.config /\ p.found = q.found
      /\ p.source = q.source /\ p.steady = q.steady /\ p.findable = q.findable
      /\ p.waiting = q.waiting /\ p.todo = q.todo /\ p.lost = q.lost
  BY DEF Fields
<1>2. TargetsOf(p) = TargetsOf(q) /\ WantedOf(p) = WantedOf(q)
  BY <1>1 DEF TargetsOf, WantedOf
<1>3. (Searched(q) => Searched(p)) /\ (Sourced(q) => Sourced(p))
  BY <1>1, <1>2 DEF Searched, Sourced
<1> QED
  BY <1>1, <1>3 DEF QueryOK

(* What a fetch gets is what was wanted, and true to what is promised.     *)
LEMMA FetchGets ==
    ASSUME PromiseInv, TidyInv, NEW z \in Sizes, colls[z] # None, NEW q, Recalls(q),
           Awaits(q) => meta # None /\ z \in meta.sizes,
           NEW got, got = {x \in colls[z].points : Ref(x) \in WantedOf(q)}
    PROVE  Fetched(q, z, got)
<1>0. TypeInv /\ ServedInv
  BY DEF PromiseInv, BaseInv
<1>1. PICK P : P = colls[z].points
  OBVIOUS
<1>2. OnePerPlace(P) /\ P \in SUBSET SlicePoints(Texts)
  BY <1>0, <1>1, PointsAre DEF TidyInv, Tidy
<1>3. \A p \in P : p \in Cut(p.doc, p.of, z)
  BY <1>0, <1>1 DEF TypeInv, TypeOK, StoreTypeOK, Cut
<1>4. ASSUME NEW d, NEW p
      PROVE  p \in HeldAt(d, z) <=> p \in P /\ p.doc = d
  BY <1>1 DEF HeldAt, Held
<1>5. ASSUME NEW d \in Docs, NEW c \in q.steady[d] \ {None}
      PROVE  HeldAt(d, z) = Cut(d, c, z)
  <2>1. c \in promised[d] \ {None}
    BY <1>5 DEF Recalls
  <2>2. z \in meta.sizes
    BY <1>5 DEF Awaits
  <2> QED
    BY <1>0, <2>1, <2>2 DEF ServedInv, Serves
<1>6. ASSUME NEW x \in got
      PROVE  /\ x \in SlicePoints(Texts) /\ x \in Cut(x.doc, x.of, z) /\ Ref(x) \in WantedOf(q)
             /\ \A c \in q.steady[x.doc] \ {None} : x \in Cut(x.doc, c, z)
  <2>1. x \in P /\ x \in SlicePoints(Texts) /\ x.doc \in Docs
    BY <1>1, <1>2 DEF SlicePoints
  <2> QED
    BY <1>3, <1>4, <1>5, <2>1
<1>7. \A x, y \in got : Ref(x) = Ref(y) => x = y
  BY <1>1, <1>2 DEF OnePerPlace
<1>8. ASSUME NEW d \in Docs, NEW c \in q.steady[d] \ {None}, NEW x \in Cut(d, c, z),
             Ref(x) \in WantedOf(q)
      PROVE  x \in got
  BY <1>1, <1>4, <1>5, <1>8
<1> QED
  BY <1>6, <1>7, <1>8 DEF Fetched

(* The same, of the steps that readers take.                               *)
LEMMA QueryStepKeeps ==
    ASSUME PromiseInv, TidyInv, ShapeInv, PastInv, ConfigInv, QueryInv,
           NEW r \in Readers, Query(r), reads[r].ask.op = "query"
    PROVE  QueryOK(reads'[r])
<1>0. r \in Reading /\ reads[r] # None
  BY DEF Query, Run, Search, QueryConfig, EmbedQuery, EndFanout, SearchAnswers, SearchFails,
     SearchTimesOut, Fetch, FetchFails, Select, Stands, Reading
<1> DEFINE q == reads[r]
<1>1. DOMAIN q = Fields /\ QueryOK(q) /\ Recalls(q) /\ q.ask \in Asks
  BY <1>0 DEF ShapeInv, QueryInv, PastInv
<1>2. ASSUME NEW p, Becomes(r, p) PROVE reads'[r] = p
  BY <1>2 DEF Becomes, ShapeInv
<1>3. /\ Targets(r) = TargetsOf(q) /\ Wanted(r) = WantedOf(q)
  BY DEF Targets, TargetsOf, Wanted, WantedOf, Up
<1>4. ASSUME q.config \in Configs, Awaits(q), NEW s \in q.config.sizes
      PROVE  meta # None /\ s \in meta.sizes
  BY <1>0, <1>4, NoneAssumption DEF ConfigInv
<1>5. q.ask.k \in Nat
  BY <1>1, ReadsAssumption
<1>6. ASSUME NEW at, MoveTo(r, at), at \in {"refused", "unavailable"}
      PROVE  QueryOK(reads'[r])
  <2>1. reads'[r] = [q EXCEPT !.at = at]
    BY <1>2, <1>6 DEF MoveTo
  <2> QED
    BY <1>1, <1>6, <2>1, QueryMoves
<1>7. CASE QueryConfig(r)
  <2>1. CASE meta = None \/ Fails(MoveTo(r, "unavailable"))
    BY <1>6, <1>7, <2>1 DEF QueryConfig, ReadConfig, Fails
  <2>2. CASE meta # None /\ ~ Fails(MoveTo(r, "unavailable"))
    <3>1. PICK p : p = [q EXCEPT !.at = "embed", !.config = meta]
      OBVIOUS
    <3>2. reads'[r] = p
      BY <1>2, <1>7, <2>2, <3>1 DEF QueryConfig, ReadConfig
    <3>3. meta \in Configs /\ q.at = "config"
      BY <1>7, <2>2 DEF QueryConfig, Stands, PromiseInv, BaseInv, TypeInv, TypeOK, StoreTypeOK
    <3>4. /\ p.at = "embed" /\ p.config = meta /\ p.found = q.found /\ p.source = q.source
          /\ p.ask = q.ask
      BY <1>1, <3>1 DEF Fields
    <3>5. QueryOK(p)
      BY <1>1, <3>3, <3>4 DEF QueryOK
    <3> QED
      BY <3>2, <3>5
  <2> QED
    BY <2>1, <2>2
<1>8. CASE EmbedQuery(r)
  <2>1. CASE Fails(MoveTo(r, "unavailable"))
    BY <1>6, <2>1 DEF Fails
  <2>2. CASE Becomes(r, [reads[r] EXCEPT !.at = "search", !.waiting = Targets(r)])
    <3>1. PICK p : p = [q EXCEPT !.at = "search", !.waiting = TargetsOf(q)]
      OBVIOUS
    <3>2. reads'[r] = p
      BY <1>2, <1>3, <2>2, <3>1
    <3>3. q.at = "embed"
      BY <1>8 DEF EmbedQuery, Stands
    <3>4. /\ p.at = "search" /\ p.config = q.config /\ p.found = q.found /\ p.source = q.source
          /\ p.ask = q.ask /\ p.waiting = TargetsOf(q)
      BY <1>1, <3>1 DEF Fields
    <3>5. TargetsOf(p) = TargetsOf(q) /\ p.found = << >> /\ p.source = {} /\ p.config \in Configs
      BY <1>1, <3>3, <3>4 DEF TargetsOf, QueryOK
    <3>6. DOMAIN p.found = {}
      BY <3>5
    <3>7. Searched(p)
      BY <3>4, <3>5, <3>6 DEF Searched
    <3>8. QueryOK(p)
      BY <3>4, <3>5, <3>7 DEF QueryOK
    <3> QED
      BY <3>2, <3>8
  <2> QED
    BY <1>8, <2>1, <2>2 DEF EmbedQuery
<1>9. CASE EndFanout(r)
  <2>1. CASE GivesUp(r)
    BY <1>6, <1>9, <2>1 DEF EndFanout
  <2>2. CASE ~ GivesUp(r)
    <3>1. q.at = "search"
      BY <1>9 DEF EndFanout, Stands
    <3>2. reads'[r] = [q EXCEPT !.at = "prefetch", !.todo = {i.size : i \in WantedOf(q)}]
      BY <1>2, <1>3, <1>9, <2>2 DEF EndFanout
    <3> QED
      BY <1>1, <3>1, <3>2, QueryPlans
  <2> QED
    BY <2>1, <2>2
<1>10. ASSUME NEW s \in Sizes, SearchAnswers(r, s)
       PROVE  QueryOK(reads'[r])
  <2>1. q.at = "search" /\ s \in q.waiting /\ colls[s] # None
    BY <1>10 DEF SearchAnswers, Stands
  <2>2. PICK h \in Rankings(colls[s].points, q.ask.k) :
            Becomes(r, [reads[r] EXCEPT !.waiting = @ \ {s}, !.found = Assign(@, s, h)])
    BY <1>10 DEF SearchAnswers
  <2>3. q.config \in Configs /\ s \in q.config.sizes
    BY <1>1, <2>1, TargetsOnGrid DEF QueryOK, Searched
  <2>4. Ranked(h, s)
    BY <1>5, <2>1, <2>2, SearchIsRanked DEF PromiseInv, BaseInv
  <2>5. Tells(h, s, q.ask.k, q.steady, q.findable)
    BY <1>1, <1>4, <1>5, <2>1, <2>2, <2>3, SearchTells
  <2>6. Searches(q, reads'[r], s, h)
    BY <1>2, <2>2 DEF Searches
  <2> QED
    BY <1>1, <2>1, <2>4, <2>5, <2>6, QuerySearches
<1>11. ASSUME NEW s \in Sizes, SearchFails(r, s) \/ SearchTimesOut(r, s)
       PROVE  QueryOK(reads'[r])
  <2>1. q.at = "search" /\ Becomes(r, [reads[r] EXCEPT !.waiting = @ \ {s}])
    BY <1>11 DEF SearchFails, SearchTimesOut, Stands, Fails
  <2>2. reads'[r] = [q EXCEPT !.waiting = @ \ {s}]
    BY <1>2, <2>1
  <2> QED
    BY <1>1, <2>1, <2>2, QueryMisses
<1>12. ASSUME Fetch(r) \/ FetchFails(r)
       PROVE  /\ q.at = "prefetch" /\ q.config \in Configs
              /\ Smallest(r) \in q.todo /\ Smallest(r) \in q.config.sizes /\ Smallest(r) \in Sizes
  <2>1. q.at = "prefetch" /\ q.todo # {}
    BY <1>12 DEF Fetch, FetchFails, Stands
  <2>2. q.config \in Configs /\ q.todo \subseteq q.config.sizes
    BY <1>1, <2>1 DEF QueryOK, Sourced
  <2>3. q.config.sizes \subseteq Sizes /\ Sizes \subseteq Nat
    BY <2>2, ServiceAssumption, GridAssumption
  <2>4. Smallest(r) \in q.todo
    BY <2>1, <2>2, <2>3, MinIsLeast DEF Smallest
  <2> QED
    BY <2>1, <2>2, <2>3, <2>4
<1>13. CASE Fetch(r)
  <2>1. PICK z \in q.todo : z = Smallest(r)
    BY <1>12, <1>13
  <2>2. q.at = "prefetch" /\ z \in Sizes /\ z \in q.config.sizes /\ q.config \in Configs /\ colls[z] # None
    BY <1>12, <1>13, <2>1 DEF Fetch
  <2>3. PICK got : got = {x \in colls[z].points : Ref(x) \in WantedOf(q)}
    OBVIOUS
  <2>4. Fetches(q, reads'[r], z, got)
    BY <1>2, <1>3, <1>13, <2>1, <2>3 DEF Fetch, Fetches, Others
  <2>5. Fetched(q, z, got)
    BY <1>1, <1>4, <2>2, <2>3, FetchGets
  <2> QED
    BY <1>1, <2>1, <2>2, <2>4, <2>5, QueryFetches
<1>14. CASE FetchFails(r)
  <2>1. PICK z \in q.todo : z = Smallest(r)
    BY <1>12, <1>14
  <2>2. reads'[r] = [q EXCEPT !.todo = q.todo \ {z}, !.lost = TRUE]
    BY <1>2, <1>14, <2>1 DEF FetchFails, Others, Fails
  <2>3. q.at = "prefetch"
    BY <1>12, <1>14
  <2> QED
    BY <1>1, <2>1, <2>2, <2>3, QuerySkips
<1>15. CASE Select(r)
  <2>1. q.at = "prefetch" /\ q.todo = {} /\ reads'[r] = [q EXCEPT !.at = "answered"]
    BY <1>2, <1>15 DEF Select, Stands, MoveTo
  <2> QED
    BY <1>1, <2>1, QueryMoves
<1> QED
  BY <1>7, <1>8, <1>9, <1>10, <1>11, <1>13, <1>14, <1>15 DEF Query, Run, Search

(* Every step keeps them.                                                  *)
LEMMA QueryKept ==
    ASSUME PromiseInv, TidyInv, ShapeInv, PastInv, ConfigInv, QueryInv, [ReadNext]_allVars
    PROVE  QueryInv'
<1> SUFFICES ASSUME NEW r \in Readers, reads'[r] # None PROVE QueryOK(reads'[r])
  BY DEF QueryInv
<1>1. CASE reads'[r] = reads[r]
  BY <1>1 DEF QueryInv
<1>2. CASE Begins(reads'[r])
  BY <1>2, QueryBegins
<1>3. CASE Ages(r)
  <2>1. DOMAIN reads[r] = Fields /\ QueryOK(reads[r])
    BY <1>3 DEF Ages, ShapeInv, QueryInv, Reading
  <2>2. PICK less : less = [d \in Docs |-> reads[r].steady[d] \cap promised'[d]]
    OBVIOUS
  <2>3. PICK fewer : fewer = reads[r].findable \cap Findable'
    OBVIOUS
  <2>4. Forgets(reads[r], reads'[r], fewer, less)
    BY <1>3, <2>2, <2>3 DEF Ages, Forgets
  <2> QED
    BY <2>1, <2>2, <2>3, <2>4, QueryAges
<1>4. CASE ReadStep(r)
  <2>1. r \in Reading /\ reads'[r].ask = reads[r].ask
    BY <1>4, StepsRemember
  <2>2. CASE reads[r].ask.op = "query"
    <3>1. Query(r)
      BY <1>4, <2>2 DEF ReadStep, List, Get, Inspect, ListConfig, ListPage, ListFails,
         GetConfig, GetLookup, GetRecord, GetFails, InspectConfig, CorpusStats, StatsExists,
         CountPoints, CountDocuments, VerifyCorpus, VerifyExists, VerifyDimension, InspectFails, Stands
    <3> QED
      BY <2>2, <3>1, QueryStepKeeps
  <2>3. CASE reads[r].ask.op # "query"
    BY <2>1, <2>3 DEF QueryOK
  <2> QED
    BY <2>2, <2>3
<1> QED
  BY <1>1, <1>2, <1>3, <1>4, HowReadsGo

(* All of it holds whatever the clients do and whatever fails.             *)
ReadInv == PromiseInv /\ TidyInv /\ ShapeInv /\ PastInv /\ ConfigInv /\ QueryInv

(* Nobody reads at the start.                                              *)
LEMMA InitRead ==
    ASSUME InitReads
    PROVE  ReadInv
<1>1. \A r \in Readers : reads[r] = None
  BY DEF InitReads
<1>2. ShapeInv /\ PastInv /\ ConfigInv /\ QueryInv
  BY <1>1 DEF InitReads, ShapeInv, PastInv, ConfigInv, QueryInv, Reading
<1> QED
  BY <1>2, InitPromise, InitTidy DEF InitReads, ReadInv

(* Steps of writers, and failures under readers, keep what is promised.    *)
LEMMA PromisesAround ==
    ASSUME PromiseInv, [Next]_vars \/ Jolt
    PROVE  PromiseInv'
<1>1. CASE Jolt
  BY <1>1, JoltKeepsPromises
<1>2. CASE [Next]_vars
  <2>1. TypeInv /\ BootInv /\ AloneInv /\ HealthInv
    BY DEF PromiseInv, BaseInv
  <2>2. UnwrittenInv /\ SettledInv /\ ServedInv /\ PutInv
    BY DEF PromiseInv
  <2>3. TypeInv' /\ BootInv' /\ AloneInv' /\ HealthInv'
    BY <1>2, <2>1, TypeKept, BootKept, AloneKept, HealthKept
  <2>4. UnwrittenInv' /\ SettledInv' /\ ServedInv' /\ PutInv'
    BY <1>2, <2>1, <2>2, UnwrittenKept, SettledKept, ServedKept, PutKept
  <2> QED
    BY <2>3, <2>4 DEF PromiseInv, BaseInv
<1> QED
  BY <1>1, <1>2

(* What writers keep, what readers have met, and what they can count on.   *)
LEMMA ReadKept ==
    ASSUME ReadInv, [ReadNext]_allVars
    PROVE  ReadInv'
<1>0. PromiseInv /\ TidyInv /\ ShapeInv /\ PastInv /\ ConfigInv /\ QueryInv /\ TypeInv /\ BootInv
  BY DEF ReadInv, PromiseInv, BaseInv
<1>1. [Next]_vars \/ Jolt
  BY StepsAround
<1>2. PromiseInv' /\ TidyInv'
  BY <1>0, <1>1, PromisesAround, TidyKept
<1>3. ShapeInv' /\ PastInv'
  BY <1>0, ShapeKept, PastKept
<1>4. ConfigInv' /\ QueryInv'
  BY <1>0, <1>2, <1>3, ConfigKept, QueryKept
<1> QED
  BY <1>2, <1>3, <1>4 DEF ReadInv

(* This holds whatever clients do, whatever they read, and whatever fails. *)
THEOREM ReadInvariance == ReadSpec => []ReadInv
<1>1. InitReads => ReadInv
  BY InitRead
<1>2. ReadInv /\ [ReadNext]_allVars => ReadInv'
  BY ReadKept
<1> QED
  BY <1>1, <1>2, PTL DEF ReadSpec

-----------------------------------------------------------------------------
(* What an answer shows, unconditionally.                                  *)

(* A query that has answered.                                              *)
LEMMA DoneHas ==
    ASSUME ReadInv, NEW r \in Readers, Done(r, "query")
    PROVE  /\ reads[r].config \in Configs /\ Searched(reads[r]) /\ Sourced(reads[r])
           /\ reads[r].todo = {}
           /\ Targets(r) = TargetsOf(reads[r]) /\ Wanted(r) = WantedOf(reads[r])
<1>1. QueryOK(reads[r]) /\ reads[r].ask.op = "query" /\ reads[r].at = "answered"
  BY DEF ReadInv, QueryInv, Done
<1>2. Targets(r) = TargetsOf(reads[r]) /\ Wanted(r) = WantedOf(reads[r])
  BY DEF Targets, TargetsOf, Wanted, WantedOf, Up
<1> QED
  BY <1>1, <1>2 DEF QueryOK

(* A document that has text is found at every size that answered with      *)
(* fewer than top_k hits, also while an undisturbed put replaces it,       *)
(* whatever other documents' writers, drops and failures do.               *)
THEOREM QueriesNeverMiss == ReadSpec => []NeverVanishes
<1>1. ASSUME ReadInv, NEW r \in Readers, Done(r, "query"), NEW s \in DOMAIN reads[r].found,
             Len(reads[r].found[s]) < reads[r].ask.k, NEW d \in reads[r].findable
      PROVE  \E p \in ToSet(reads[r].found[s]) : p.doc = d
  <2>1. PICK i \in DOMAIN reads[r].found[s] : reads[r].found[s][i].doc = d
    BY <1>1, DoneHas DEF Searched, Tells
  <2> QED
    BY <2>1 DEF ToSet
<1>2. ReadInv => NeverVanishes
  BY <1>1 DEF NeverVanishes
<1> QED
  BY <1>2, ReadInvariance, PTL

(* An answer that is not marked partial shows every slice of every         *)
(* document nobody wrote meanwhile, where there was room for it.           *)
THEOREM UnmarkedAnswersAreComplete == ReadSpec => []UnmarkedIsComplete
<1>1. ASSUME ReadInv, NEW r \in Readers, Done(r, "query"), ~ Partial(r), NEW s \in Targets(r),
             Len(reads[r].found[s]) < reads[r].ask.k, NEW d \in Docs, NEW c \in reads[r].steady[d],
             NEW p \in PointsOf(d, c, {s})
      PROVE  p \in ToSet(reads[r].found[s])
  <2>1. s \in DOMAIN reads[r].found
    BY <1>1 DEF Partial
  <2>2. c # None /\ p \in Cut(d, c, s)
    BY <1>1 DEF PointsOf, Cut
  <2>3. PICK i \in DOMAIN reads[r].found[s] : reads[r].found[s][i] = p
    BY <1>1, <2>1, <2>2, DoneHas DEF Searched, Tells
  <2> QED
    BY <2>3 DEF ToSet
<1>2. ReadInv => UnmarkedIsComplete
  <2> SUFFICES ASSUME ReadInv, NEW r \in Readers, Done(r, "query"), ~ Partial(r), NEW s \in Targets(r),
             Len(reads[r].found[s]) < reads[r].ask.k, NEW d \in Docs, NEW c \in reads[r].steady[d]
        PROVE  PointsOf(d, c, {s}) \subseteq ToSet(reads[r].found[s])
    BY DEF UnmarkedIsComplete
  <2> QED
    BY <1>1
<1> QED
  BY <1>2, ReadInvariance, PTL

-----------------------------------------------------------------------------
(* What an answer shows of documents that were deleted: nothing, as long   *)
(* as what deletes and drops leave behind is nothing.                      *)

Unserved(q) == \A d \in Docs : None \in q.steady[d] =>
    \A p \in AllHits(q.found) \cup q.source : p.doc # d

UnservedInv == \A r \in Readers :
    (reads[r] # None /\ reads[r].ask.op = "query") => Unserved(reads[r])

(* It finds what is stored.                                                *)
LEMMA FindsStored ==
    ASSUME ReadInv, NEW r \in Readers, ReadStep(r), reads[r].ask.op = "query",
           NEW p \in AllHits(reads'[r].found) \cup reads'[r].source
    PROVE  \/ p \in AllHits(reads[r].found) \cup reads[r].source
           \/ \E s \in Sizes : colls[s] # None /\ p \in colls[s].points
<1> DEFINE q == reads[r]
<1>0. r \in Reading /\ DOMAIN q = Fields /\ QueryOK(q) /\ q.ask \in Asks
  BY StepsRemember DEF ReadInv, ShapeInv, QueryInv, Reading
<1>1. ASSUME NEW x, Becomes(r, x) PROVE reads'[r] = x
  BY <1>1 DEF Becomes, ReadInv, ShapeInv
<1>2. Query(r)
  BY DEF ReadStep, List, Get, Inspect, ListConfig, ListPage, ListFails,
     GetConfig, GetLookup, GetRecord, GetFails, InspectConfig, CorpusStats, StatsExists,
     CountPoints, CountDocuments, VerifyCorpus, VerifyExists, VerifyDimension, InspectFails, Stands
<1>3. ASSUME reads'[r].found = q.found, reads'[r].source = q.source
      PROVE  p \in AllHits(q.found) \cup q.source
  BY <1>3
<1>4. ASSUME NEW at, MoveTo(r, at)
      PROVE  p \in AllHits(q.found) \cup q.source
  BY <1>0, <1>1, <1>3, <1>4 DEF MoveTo, Fields
<1>5. CASE QueryConfig(r) \/ EmbedQuery(r) \/ EndFanout(r) \/ FetchFails(r) \/ Select(r)
  <2> DEFINE Stays == reads'[r].found = q.found /\ reads'[r].source = q.source
  <2>0. reads = [v \in Readers |-> reads[v]]
    BY DEF ReadInv, ShapeInv
  <2>1. ASSUME NEW at, MoveTo(r, at) PROVE Stays
    BY <1>0, <2>0, <2>1 DEF MoveTo, Becomes, Fields
  <2>2. ASSUME QueryConfig(r) PROVE Stays
    <3>1. CASE meta = None \/ Fails(MoveTo(r, "unavailable"))
      BY <2>1, <2>2, <3>1 DEF QueryConfig, ReadConfig, Fails
    <3>2. CASE meta # None /\ ~ Fails(MoveTo(r, "unavailable"))
      BY <1>0, <2>0, <2>2, <3>2 DEF QueryConfig, ReadConfig, Becomes, Fields
    <3> QED
      BY <3>1, <3>2
  <2>3. CASE EmbedQuery(r)
    BY <1>0, <2>0, <2>1, <2>3 DEF EmbedQuery, Fails, Becomes, Fields
  <2>4. ASSUME EndFanout(r) PROVE Stays
    <3>1. MoveTo(r, "unavailable") \/ \E todo :
              reads' = [reads EXCEPT ![r] = [q EXCEPT !.at = "prefetch", !.todo = todo]]
      BY <2>4 DEF EndFanout, Becomes
    <3> QED
      BY <1>0, <2>0, <2>1, <3>1 DEF Fields
  <2>5. CASE FetchFails(r)
    BY <1>0, <2>0, <2>5 DEF FetchFails, Fails, Becomes, Fields
  <2>6. CASE Select(r)
    BY <2>1, <2>6 DEF Select
  <2> QED
    BY <1>3, <1>5, <2>2, <2>3, <2>4, <2>5, <2>6
<1>6. CASE \E s \in Sizes : SearchFails(r, s) \/ SearchTimesOut(r, s)
  BY <1>0, <1>1, <1>3, <1>6 DEF SearchFails, SearchTimesOut, Fails, Fields
<1>7. ASSUME NEW s \in Sizes, SearchAnswers(r, s)
      PROVE  \/ p \in AllHits(q.found) \cup q.source
             \/ colls[s] # None /\ p \in colls[s].points
  <2>1. PICK h \in Rankings(colls[s].points, q.ask.k) :
            Becomes(r, [q EXCEPT !.waiting = @ \ {s}, !.found = Assign(@, s, h)])
    BY <1>7 DEF SearchAnswers
  <2>2. colls[s] # None /\ q.ask.k \in Nat
    BY <1>0, <1>7, ReadsAssumption DEF SearchAnswers
  <2>3. PICK P : P = colls[s].points
    OBVIOUS
  <2>4. h \in Seq(P)
    <3>1. IsFiniteSet(P)
      BY <2>2, <2>3 DEF ReadInv, TidyInv, Tidy, OnePerPlace
    <3> QED
      BY <2>1, <2>2, <2>3, <3>1, RankingIs
  <2>5. \A i \in DOMAIN h : h[i] \in P
    BY <2>4
  <2>6. reads'[r].found = Assign(q.found, s, h) /\ reads'[r].source = q.source
    BY <1>0, <1>1, <2>1 DEF Fields
  <2>7. CASE p \in q.source
    BY <2>7
  <2>8. CASE p \in AllHits(reads'[r].found)
    <3>1. PICK z \in DOMAIN reads'[r].found : \E i \in DOMAIN reads'[r].found[z] : p = reads'[r].found[z][i]
      BY <2>8, HitsAre
    <3>2. z \in DOMAIN q.found \cup {s} /\ reads'[r].found[z] = IF z = s THEN h ELSE q.found[z]
      BY <2>6, <3>1 DEF Assign
    <3>3. CASE z = s
      BY <2>2, <2>3, <2>5, <3>1, <3>2, <3>3
    <3>4. CASE z # s
      <4>1. p \in AllHits(q.found)
        BY <3>1, <3>2, <3>4, HitsAre
      <4> QED
        BY <4>1
    <3> QED
      BY <3>3, <3>4
  <2> QED
    BY <2>6, <2>7, <2>8
<1>8. CASE Fetch(r)
  <2>1. PICK z : z = Smallest(r)
    OBVIOUS
  <2>2. q.at = "prefetch" /\ q.todo # {} /\ colls[z] # None
    BY <1>8, <2>1 DEF Fetch, Stands
  <2>3. z \in Sizes
    <3>1. q.config \in Configs /\ q.todo \subseteq q.config.sizes
      BY <1>0, <2>2 DEF QueryOK, Sourced
    <3>2. q.todo \subseteq Sizes /\ Sizes \subseteq Nat
      BY <3>1, ServiceAssumption, GridAssumption
    <3> QED
      BY <2>1, <2>2, <3>2, MinIsLeast DEF Smallest
  <2>4. reads'[r].found = q.found /\ reads'[r].source = q.source \cup {x \in colls[z].points : Ref(x) \in Wanted(r)}
    BY <1>0, <1>1, <1>8, <2>1 DEF Fetch, Fields
  <2> QED
    BY <2>2, <2>3, <2>4
<1> QED
  BY <1>2, <1>5, <1>6, <1>7, <1>8 DEF Query, Run, Search

(* No step of writers or readers brings a deleted document into a query    *)
(* under way.                                                              *)
LEMMA UnservedKept ==
    ASSUME ReadInv, ClearedInv, UnservedInv, [ReadNext]_allVars
    PROVE  UnservedInv'
<1> SUFFICES ASSUME NEW r \in Readers, reads'[r] # None, reads'[r].ask.op = "query"
             PROVE  Unserved(reads'[r])
  BY DEF UnservedInv, Unserved
<1>1. CASE reads'[r] = reads[r]
  BY <1>1 DEF UnservedInv
<1>2. CASE Begins(reads'[r])
  <2>1. reads'[r].found = << >> /\ reads'[r].source = {}
    BY <1>2 DEF Begins
  <2>2. \A p : p \notin AllHits(reads'[r].found)
    <3>1. DOMAIN reads'[r].found = {}
      BY <2>1
    <3> QED
      BY <3>1, HitsAre
  <2> QED
    BY <2>1, <2>2 DEF Unserved
<1>3. CASE Ages(r)
  <2>1. DOMAIN reads[r] = Fields /\ reads[r] # None
    BY <1>3 DEF Ages, ReadInv, ShapeInv, Reading
  <2>2. reads'[r].steady = [d \in Docs |-> reads[r].steady[d] \cap promised'[d]]
        /\ reads'[r].ask = reads[r].ask
        /\ reads'[r].found = reads[r].found /\ reads'[r].source = reads[r].source
    BY <1>3, <2>1 DEF Ages, Fields
  <2>3. Unserved(reads[r])
    BY <2>1, <2>2 DEF UnservedInv
  <2> QED
    BY <2>2, <2>3 DEF Unserved
<1>4. CASE ReadStep(r)
  <2>1. r \in Reading /\ reads'[r].ask = reads[r].ask /\ reads'[r].steady = reads[r].steady
    BY <1>4, StepsRemember DEF ReadInv
  <2>2. Unserved(reads[r]) /\ Recalls(reads[r])
    BY <2>1 DEF UnservedInv, Reading, ReadInv, PastInv
  <2>3. ASSUME NEW d \in Docs, None \in reads[r].steady[d],
               NEW p \in AllHits(reads'[r].found) \cup reads'[r].source
        PROVE  p.doc # d
    <3>1. CASE p \in AllHits(reads[r].found) \cup reads[r].source
      BY <2>2, <2>3, <3>1 DEF Unserved
    <3>2. ASSUME NEW s \in Sizes, colls[s] # None, p \in colls[s].points PROVE p.doc # d
      <4>1. HeldAt(d, s) = {}
        BY <2>2, <2>3 DEF Recalls, ClearedInv, Cleared
      <4> QED
        BY <3>2, <4>1 DEF HeldAt, Held
    <3> QED
      BY <1>4, <2>1, <3>1, <3>2, FindsStored
  <2> QED
    BY <2>1, <2>3 DEF Unserved
<1> QED
  BY <1>1, <1>2, <1>3, <1>4, HowReadsGo DEF ReadInv

(* A query serves of a document nobody wrote meanwhile what was last put,  *)
(* and nothing of one that was deleted.                                    *)
LEMMA AnswersServe ==
    ASSUME ReadInv, UnservedInv
    PROVE  ServesThePromise
<1> SUFFICES ASSUME NEW r \in Readers, Done(r, "query"), NEW d \in Docs, NEW c \in reads[r].steady[d],
                    NEW p \in AllHits(reads[r].found) \cup reads[r].source, p.doc = d
             PROVE  p \in PointsOf(d, c, reads[r].config.sizes)
  BY DEF ServesThePromise
<1> DEFINE q == reads[r]
<1>1. q.config \in Configs /\ Searched(q) /\ Sourced(q)
  BY DoneHas
<1>2. c # None
  BY DEF UnservedInv, Unserved, Done
<1>3. \E s \in q.config.sizes : p \in Cut(d, c, s)
  <2>1. CASE p \in q.source
    BY <1>1, <1>2, <2>1 DEF Sourced
  <2>2. CASE p \in AllHits(q.found)
    <3>1. PICK s \in DOMAIN q.found : \E i \in DOMAIN q.found[s] : p = q.found[s][i]
      BY <2>2, HitsAre
    <3>2. p \in Cut(d, c, s)
      <4>1. Tells(q.found[s], s, q.ask.k, q.steady, q.findable)
        BY <1>1, <3>1 DEF Searched
      <4> QED
        BY <1>2, <3>1, <4>1 DEF Tells
    <3>3. s \in q.config.sizes
      BY <1>1, <3>1, TargetsOnGrid DEF Searched
    <3> QED
      BY <3>2, <3>3
  <2> QED
    BY <2>1, <2>2
<1> QED
  BY <1>2, <1>3, PointsAreCuts DEF PointsOf

(* The slot that holds an offset.                                          *)
LEMMA SlotHolds ==
    ASSUME NEW o \in Nat, NEW s \in Nat \ {0}
    PROVE  /\ ParentOffset(o, s) \in Nat
           /\ ParentOffset(o, s) <= o /\ o < ParentOffset(o, s) + s
           /\ ParentOffset(o, s) % s = 0
<1>1. /\ o \div s \in Nat /\ o % s \in 0 .. (s - 1)
      /\ o = ((o \div s) * s) + (o % s)
  OBVIOUS
<1> QED
  BY <1>1 DEF ParentOffset

(* A slice of a text has one above it on every coarser level of the grid.  *)
LEMMA CutHasParent ==
    ASSUME NEW d, NEW c \in Texts, NEW z, NEW h \in Cut(d, c, z), NEW s \in Sizes
    PROVE  /\ h.off \in Nat
           /\ \E p \in Cut(d, c, s) : Ref(p) = Up(h, s)
<1>1. PICK Z : Z = {z}
  OBVIOUS
<1>2. PICK o \in Offsets(0, Len(c), z) : h = [doc |-> d, size |-> z, off |-> o, of |-> c]
  BY <1>1, InPoints DEF Cut
<1>3. Len(c) \in Nat /\ s \in Nat \ {0}
  BY ServiceAssumption, GridAssumption
<1>4. o \in 0 .. (Len(c) - 1) /\ h.off = o /\ h.doc = d
  BY <1>2 DEF Offsets
<1>5. o \in Nat
  BY <1>3, <1>4
<1>6. PICK b : b = ParentOffset(o, s)
  OBVIOUS
<1>7. b \in Nat /\ b <= o /\ b % s = 0
  BY <1>3, <1>5, <1>6, SlotHolds
<1>8. b \in 0 .. (Len(c) - 1) /\ b - 0 = b
  BY <1>3, <1>4, <1>7
<1>9. b \in Offsets(0, Len(c), s)
  BY <1>7, <1>8 DEF Offsets
<1>10. PICK S : S = {s}
  OBVIOUS
<1>11. PICK p : p = [doc |-> d, size |-> s, off |-> b, of |-> c]
  OBVIOUS
<1>12. p \in Points(d, c, S)
  BY <1>9, <1>10, <1>11, InPoints
<1>13. p \in Cut(d, c, s)
  BY <1>10, <1>12 DEF Cut
<1>14. Ref(p) = Up(h, s)
  BY <1>4, <1>6, <1>11 DEF Ref, Up
<1> QED
  BY <1>4, <1>5, <1>13, <1>14

(* Every ancestor of a hit is at hand when the strategy runs.              *)
LEMMA AnswersHaveAncestors ==
    ASSUME ReadInv, UnservedInv
    PROVE  AncestorsAtHand
<1> SUFFICES ASSUME NEW r \in Readers, Done(r, "query"), ~ reads[r].lost,
                    NEW h \in AllHits(reads[r].found), reads[r].steady[h.doc] # {},
                    NEW s \in LevelsAbove(h.size) \cap reads[r].config.sizes
             PROVE  \E p \in AllHits(reads[r].found) \cup reads[r].source :
                       p.doc = h.doc /\ p.size = s /\ p.off <= h.off /\ h.off < p.off + s
  BY DEF AncestorsAtHand
<1> DEFINE q == reads[r]
<1>1. q.config \in Configs /\ Searched(q) /\ Sourced(q) /\ q.todo = {}
  BY DoneHas
<1>2. PICK z \in DOMAIN q.found : \E i \in DOMAIN q.found[z] : h = q.found[z][i]
  BY HitsAre
<1>3. PICK i \in DOMAIN q.found[z] : h = q.found[z][i]
  BY <1>2
<1>4. Ranked(q.found[z], z) /\ Tells(q.found[z], z, q.ask.k, q.steady, q.findable)
  BY <1>1 DEF Searched
<1>5. h \in SlicePoints(Texts) /\ h \in Cut(h.doc, h.of, z) /\ h.doc \in Docs
  <2>1. h \in SlicePoints(Texts) /\ h.doc \in Docs
    BY <1>3, <1>4, RankedAreSlices
  <2> QED
    BY <1>3, <1>4, <2>1 DEF Ranked
<1>6. PICK c \in q.steady[h.doc] : c # None
  BY <1>5 DEF UnservedInv, Unserved, Done
<1>7. h \in Cut(h.doc, c, z)
  BY <1>3, <1>4, <1>6 DEF Tells
<1>8. c \in Texts /\ s \in Sizes
  <2>1. h.of = c /\ h.of \in Texts
    BY <1>5, <1>7, CutIs DEF SlicePoints
  <2> QED
    BY <2>1 DEF LevelsAbove
<1>9. PICK p \in Cut(h.doc, c, s) : Ref(p) = Up(h, s)
  BY <1>7, <1>8, CutHasParent
<1>10. \E x \in AllHits(q.found) \cup q.source : Ref(x) = Up(h, s)
  <2>1. CASE Up(h, s) \in IdsOf(AllHits(q.found))
    BY <2>1 DEF IdsOf
  <2>2. CASE Up(h, s) \notin IdsOf(AllHits(q.found))
    <3>1. Ref(p) \in WantedOf(q)
      BY <1>9, <2>2 DEF WantedOf
    <3>2. p \in q.source
      BY <1>1, <1>5, <1>6, <1>9, <3>1 DEF Sourced
    <3> QED
      BY <1>9, <3>2
  <2> QED
    BY <2>1, <2>2
<1>11. PICK x \in AllHits(q.found) \cup q.source : Ref(x) = Up(h, s)
  BY <1>10
<1>12. x.doc = h.doc /\ x.size = s /\ x.off = ParentOffset(h.off, s)
  BY <1>11 DEF Ref, Up
<1>13. h.off \in Nat /\ s \in Nat \ {0}
  BY <1>7, <1>8, CutHasParent, GridAssumption
<1>14. ParentOffset(h.off, s) <= h.off /\ h.off < ParentOffset(h.off, s) + s
  BY <1>13, SlotHolds
<1> QED
  BY <1>12, <1>14

-----------------------------------------------------------------------------
(* What deletes and drops leave, as readers run beside them.               *)

(* Deletes and drops remove what they promise with readers beside them,    *)
(* too.                                                                    *)
LEMMA RemovalsAround ==
    ASSUME PromiseInv, Outside, RemovalInv, [Next]_vars \/ Jolt
    PROVE  RemovalInv'
<1>1. CASE Jolt
  BY <1>1, JoltKeepsRemovals
<1>2. CASE [Next]_vars
  BY <1>2, RemovalKept, ClearedKept DEF PromiseInv, BaseInv, RemovalInv
<1> QED
  BY <1>1, <1>2

(* Creates and drops without rivals stay so with readers beside them.      *)
LEMMA QuietAround ==
    ASSUME PromiseInv, RemovalInv, Unrivalled, QuietInv, [Next]_vars \/ Jolt
    PROVE  QuietInv'
<1>0. TypeInv /\ BootInv /\ AloneInv /\ DropInv /\ WritersInv /\ MakerInv /\ InsideInv
  BY DEF PromiseInv, BaseInv, RemovalInv, QuietInv
<1>1. CASE Jolt
  BY <1>1, JoltKeepsQuiet
<1>2. CASE [Next]_vars
  BY <1>0, <1>2, WritersKept, MakerKept, InsideKept DEF QuietInv
<1> QED
  BY <1>1, <1>2

(* With all creates on one grid, that stays the corpus's with readers      *)
(* beside them.                                                            *)
LEMMA GridAround ==
    ASSUME NEW G, CreatesOn(G), PromiseInv, GridInv(G), Docs # {}, [Next]_vars \/ Jolt
    PROVE  GridInv(G)'
<1>1. CASE Jolt
  BY <1>1, JoltKeepsGrid
<1>2. CASE [Next]_vars
  BY <1>2, GridKept DEF PromiseInv, BaseInv
<1> QED
  BY <1>1, <1>2

(* As long as there are no points outside the grid of the corpus, no       *)
(* answer shows a document that was deleted.                               *)
Tidied == RemovalInv /\ UnservedInv

(* At the start nothing was deleted, and nothing is served.                *)
LEMMA InitTidied ==
    ASSUME InitReads
    PROVE  Tidied
<1>1. UnservedInv
  BY DEF InitReads, UnservedInv
<1> QED
  BY <1>1, InitRemoval DEF InitReads, Tidied

(* No step, of writers or readers, leaves anything of a deleted document.  *)
LEMMA TidiedAround ==
    ASSUME ReadInv, Outside, Tidied, [ReadNext]_allVars
    PROVE  Tidied'
<1>1. [Next]_vars \/ Jolt
  BY StepsAround
<1> QED
  BY <1>1, RemovalsAround, UnservedKept DEF Tidied, RemovalInv, ReadInv

(* As long as no collection outside the grid holds points, none ever does. *)
LEMMA TidiedWithin == ReadSpec /\ []Outside => []Tidied
<1>1. InitReads => Tidied
  BY InitTidied
<1>2. ReadInv /\ Outside /\ Tidied /\ [ReadNext]_allVars => Tidied'
  BY TidiedAround
<1> QED
  BY <1>1, <1>2, ReadInvariance, PTL DEF ReadSpec

(* Nothing is outside where all creates ask for one grid, ...              *)
LEMMA OneGridLeavesNothing ==
    ASSUME NEW G, CreatesOn(G)
    PROVE  ReadSpec => []Outside
<1>1. CASE Docs = {}
  <2>1. Outside
    BY <1>1 DEF Outside
  <2> QED
    BY <2>1, PTL
<1>2. CASE Docs # {}
  <2>1. InitReads => GridInv(G)
    BY InitGrid DEF InitReads
  <2>2. ReadInv /\ GridInv(G) /\ [ReadNext]_allVars => GridInv(G)'
    BY <1>2, StepsAround, GridAround DEF ReadInv
  <2>3. GridInv(G) => Outside
    BY OnGridNothingOutside
  <2> QED
    BY <2>1, <2>2, <2>3, ReadInvariance, PTL DEF ReadSpec
<1> QED
  BY <1>1, <1>2

(* ... or creates and drops meet no rivals.                                *)
LEMMA NoRacesLeaveNothing == ReadSpec /\ []Unrivalled => []Outside
<1>1. InitReads => Tidied /\ QuietInv
  BY InitTidied, InitQuiet DEF InitReads
<1>2. QuietInv => Outside
  BY DEF QuietInv, InsideInv, Outside
<1>3. ReadInv /\ Unrivalled /\ Tidied /\ QuietInv /\ [ReadNext]_allVars => Tidied' /\ QuietInv'
  BY <1>2, StepsAround, QuietAround, TidiedAround DEF ReadInv, Tidied
<1> QED
  BY <1>1, <1>2, <1>3, ReadInvariance, PTL DEF ReadSpec

(* Beside clients that agree on one grid, whatever they race and whatever  *)
(* fails, a query serves of a document nobody wrote meanwhile what was     *)
(* last put, and nothing of one that was deleted or dropped.               *)
THEOREM QueriesServeOnOneGrid ==
    ASSUME NEW G, CreatesOn(G)
    PROVE  ReadSpec => []ServesThePromise
<1>1. ReadInv /\ Tidied => ServesThePromise
  BY AnswersServe DEF Tidied
<1> QED
  BY <1>1, ReadInvariance, OneGridLeavesNothing, TidiedWithin, PTL

(* So it does whatever grids they use, if creates and drops meet no        *)
(* rivals.                                                                 *)
THEOREM QueriesServeUnlessCreatesRace == ReadSpec /\ []Unrivalled => []ServesThePromise
<1>1. ReadInv /\ Tidied => ServesThePromise
  BY AnswersServe DEF Tidied
<1> QED
  BY <1>1, ReadInvariance, NoRacesLeaveNothing, TidiedWithin, PTL

(* Beside clients that agree on one grid trade-up is never cut short: the  *)
(* grid ancestors of every hit of a document nobody wrote meanwhile are    *)
(* there, unless a fetch failed.                                           *)
THEOREM AncestorsOnOneGrid ==
    ASSUME NEW G, CreatesOn(G)
    PROVE  ReadSpec => []AncestorsAtHand
<1>1. ReadInv /\ Tidied => AncestorsAtHand
  BY AnswersHaveAncestors DEF Tidied
<1> QED
  BY <1>1, ReadInvariance, OneGridLeavesNothing, TidiedWithin, PTL

(* Nor is it on whatever grids, if creates and drops meet no rivals.       *)
THEOREM AncestorsUnlessCreatesRace == ReadSpec /\ []Unrivalled => []AncestorsAtHand
<1>1. ReadInv /\ Tidied => AncestorsAtHand
  BY AnswersHaveAncestors DEF Tidied
<1> QED
  BY <1>1, ReadInvariance, NoRacesLeaveNothing, TidiedWithin, PTL

-----------------------------------------------------------------------------
(* What fusion makes of the lists of a fan-out.                            *)

(* FlattenSeq is the last of them.                                         *)
LEMMA FlattenIs ==
    ASSUME NEW n \in Nat, NEW A, NEW q \in [1 .. n -> Seq(A)]
    PROVE  \E f : Strings(f, q, n, A) /\ FlattenSeq(q) = f[n]
<1>1. Len(q) = n
  OBVIOUS
<1>2. PICK f : Strings(f, q, n, A)
  BY StringExists
<1>3. CASE n = 0
  <2>1. FlattenSeq(q) = q /\ q = << >>
    BY <1>1, <1>3 DEF FlattenSeq
  <2> QED
    BY <1>2, <1>3, <2>1 DEF Strings
<1>4. CASE n # 0
  <2>1. FlattenSeq(q) = Strung(q, n)[n]
    BY <1>1, <1>4 DEF FlattenSeq, Strung
  <2> QED
    BY <1>4, <2>1, StrungIs
<1> QED
  BY <1>3, <1>4

(* A finite set of naturals that is not empty has a greatest element.      *)
LEMMA MaxIsGreatest ==
    ASSUME NEW T, T \subseteq Nat, T # {}, IsFiniteSet(T)
    PROVE  Max(T) \in T /\ \A y \in T : y <= Max(T)
<1>0. PICK n \in Nat : n = Cardinality(T)
  BY FS_CardinalityType
<1>1. PICK f : IsSorting(f, T)
  BY DEF IsSorting
<1>2. /\ f \in [1 .. n -> T]
      /\ \A i, j \in 1 .. n : i < j => f[i] < f[j]
      /\ \A x \in T : \E i \in 1 .. n : f[i] = x
  <2>1. Ascends(f, n, T)
    BY <1>0, <1>1, SortedAscends
  <2> QED
    BY <2>1 DEF Ascends
<1>3. n # 0
  BY <1>0, FS_EmptySet
<1>4. f[n] \in T
  BY <1>2, <1>3
<1>5. ASSUME NEW y \in T PROVE f[n] >= y
  <2>1. PICK i \in 1 .. n : f[i] = y
    BY <1>2
  <2>2. i < n => f[i] < f[n]
    BY <1>2, <2>1
  <2>3. y \in Nat /\ f[n] \in Nat
    BY <1>4
  <2> QED
    BY <2>1, <2>2, <2>3
<1>6. \E x \in T : \A y \in T : x >= y
  BY <1>4, <1>5
<1>7. Max(T) \in T /\ \A y \in T : Max(T) >= y
  BY <1>6 DEF Max
<1>8. ASSUME NEW y \in T PROVE y <= Max(T)
  <2>1. Max(T) \in Nat /\ y \in Nat /\ Max(T) >= y
    BY <1>7
  <2> QED
    BY <2>1
<1> QED
  BY <1>7, <1>8

(* The lists of a fan-out: no hit twice, finitely many sizes.              *)
Apart(found) ==
    /\ DOMAIN found \subseteq Nat /\ IsFiniteSet(DOMAIN found)
    /\ \A s \in DOMAIN found : found[s] \in Seq(AllHits(found))
    /\ \A s, z \in DOMAIN found : \A i \in DOMAIN found[s], j \in DOMAIN found[z] :
          found[s][i] = found[z][j] => s = z /\ i = j

(* No list is longer than the depth.                                       *)
LEMMA DepthIs ==
    ASSUME NEW found, Apart(found)
    PROVE  Depth(found) \in Nat /\ \A s \in DOMAIN found : Len(found[s]) <= Depth(found)
<1>1. PICK D : D = DOMAIN found
  OBVIOUS
<1>2. PICK f : f = [s \in D |-> Len(found[s])]
  OBVIOUS
<1>3. PICK L : L = {Len(found[s]) : s \in DOMAIN found}
  OBVIOUS
<1>4. f \in Surjection(D, L)
  BY <1>1, <1>2, <1>3 DEF Surjection
<1>5. IsFiniteSet(L)
  BY <1>1, <1>4, FS_Surjection DEF Apart
<1>6. IsFiniteSet({0} \cup L)
  BY <1>5, FS_AddElement
<1>7. {0} \cup L \subseteq Nat
  <2>1. ASSUME NEW s \in DOMAIN found PROVE Len(found[s]) \in Nat
    BY DEF Apart
  <2> QED
    BY <1>3, <2>1
<1>8. Depth(found) = Max({0} \cup L)
  BY <1>3 DEF Depth
<1>9. Depth(found) \in {0} \cup L /\ \A y \in {0} \cup L : y <= Depth(found)
  BY <1>6, <1>7, <1>8, MaxIsGreatest
<1> QED
  BY <1>3, <1>7, <1>9

(* A tier: the hits of a rank, by ascending size.                          *)
TierOf(found, t, m, z, T) ==
    /\ m \in Nat /\ z \in [1 .. m -> DOMAIN found] /\ T \in [1 .. m -> AllHits(found)]
    /\ \A i, j \in 1 .. m : i < j => z[i] < z[j]
    /\ \A i \in 1 .. m : t \in DOMAIN found[z[i]] /\ T[i] = found[z[i]][t]
    /\ \A s \in DOMAIN found : t \in DOMAIN found[s] => \E i \in 1 .. m : z[i] = s

(* Tier is one.                                                            *)
LEMMA TierIs ==
    ASSUME NEW found, Apart(found), NEW t \in Nat \ {0}
    PROVE  \E m, z : TierOf(found, t, m, z, Tier(found, t))
<1> DEFINE S == {s \in DOMAIN found : t <= Len(found[s])}
           z == SortedBy(S, <)
<1>1. IsSorting(z, S) /\ Tier(found, t) = [i \in DOMAIN z |-> found[z[i]][t]]
  BY DEF Tier, SortedBy, IsSorting
<1>2. S \subseteq Nat /\ IsFiniteSet(S) /\ S \subseteq DOMAIN found
  BY FS_Subset DEF Apart
<1>3. PICK m \in Nat : m = Cardinality(S)
  BY <1>2, FS_CardinalityType
<1>4. ASSUME NEW s \in DOMAIN found PROVE s \in S <=> t \in DOMAIN found[s]
  <2>1. Len(found[s]) \in Nat /\ DOMAIN found[s] = 1 .. Len(found[s])
    BY DEF Apart
  <2> QED
    BY <2>1
<1> HIDE DEF S, z
<1>5. /\ z \in [1 .. m -> S]
      /\ \A i, j \in 1 .. m : i < j => z[i] < z[j]
      /\ \A x \in S : \E i \in 1 .. m : z[i] = x
  <2>1. Ascends(z, m, S)
    BY <1>1, <1>2, <1>3, SortedAscends
  <2> QED
    BY <2>1 DEF Ascends
<1>6. ASSUME NEW i \in 1 .. m
      PROVE  /\ t \in DOMAIN found[z[i]] /\ z[i] \in DOMAIN found
             /\ found[z[i]][t] \in AllHits(found)
  <2>1. z[i] \in S
    BY <1>5
  <2>2. z[i] \in DOMAIN found /\ t \in DOMAIN found[z[i]]
    BY <1>2, <1>4, <2>1
  <2> QED
    BY <2>2, HitsAre
<1>7. PICK T : T = Tier(found, t)
  OBVIOUS
<1>8. T \in [1 .. m -> AllHits(found)] /\ \A i \in 1 .. m : T[i] = found[z[i]][t]
  <2>1. T = [i \in 1 .. m |-> found[z[i]][t]]
    BY <1>1, <1>5, <1>7
  <2> QED
    BY <1>6, <2>1
<1>9. TierOf(found, t, m, z, T)
  BY <1>2, <1>4, <1>5, <1>6, <1>8 DEF TierOf
<1> QED
  BY <1>7, <1>9

(* One sequence after another.                                             *)
LEMMA OneAfterAnother ==
    ASSUME NEW S, NEW s \in Seq(S), NEW z \in Seq(S)
    PROVE  /\ s \o z \in Seq(S) /\ Len(s \o z) = Len(s) + Len(z)
           /\ \A i \in 1 .. Len(s) : (s \o z)[i] = s[i]
           /\ \A i \in 1 .. Len(z) : (s \o z)[Len(s) + i] = z[i]
  OBVIOUS

(* The hits of the first t ranks, each once, by rank and then by size.     *)
FusedTo(found, t, g) ==
    /\ g \in Seq(AllHits(found))
    /\ \A a \in DOMAIN g : \E s \in DOMAIN found : \E i \in DOMAIN found[s] :
          i <= t /\ g[a] = found[s][i]
    /\ \A s \in DOMAIN found : \A i \in DOMAIN found[s] :
          i <= t => \E a \in DOMAIN g : g[a] = found[s][i]
    /\ \A a, b \in DOMAIN g : a < b =>
          \A s, z \in DOMAIN found : \A i \in DOMAIN found[s], j \in DOMAIN found[z] :
             g[a] = found[s][i] /\ g[b] = found[z][j] => (i < j \/ (i = j /\ s < z))

(* One tier more.                                                          *)
LEMMA TierFuses ==
    ASSUME NEW found, Apart(found), NEW t \in Nat \ {0}, NEW g, FusedTo(found, t - 1, g),
           NEW T, T = Tier(found, t), NEW h, h = g \o T
    PROVE  FusedTo(found, t, h)
<1>1. PICK m, z : TierOf(found, t, m, z, T)
  BY TierIs
<1>2. T \in Seq(AllHits(found)) /\ Len(T) = m /\ m \in Nat
  BY <1>1 DEF TierOf
<1>3. g \in Seq(AllHits(found))
  BY DEF FusedTo
<1>4. PICK n \in Nat : n = Len(g)
  BY <1>3
<1>5. /\ h \in Seq(AllHits(found)) /\ DOMAIN h = 1 .. (n + m) /\ DOMAIN g = 1 .. n
      /\ \A a \in 1 .. n : h[a] = g[a]
      /\ \A a \in 1 .. m : h[n + a] = T[a]
  <2>1. PICK H : H = AllHits(found)
    OBVIOUS
  <2>2. g \in Seq(H) /\ T \in Seq(H)
    BY <1>2, <1>3, <2>1
  <2>3. /\ g \o T \in Seq(H) /\ Len(g \o T) = Len(g) + Len(T)
        /\ \A a \in 1 .. Len(g) : (g \o T)[a] = g[a]
        /\ \A a \in 1 .. Len(T) : (g \o T)[Len(g) + a] = T[a]
    BY <2>2, OneAfterAnother
  <2>4. /\ h \in Seq(H) /\ Len(h) = n + m
        /\ \A a \in 1 .. n : h[a] = g[a]
        /\ \A a \in 1 .. m : h[n + a] = T[a]
    BY <1>2, <1>4, <2>3
  <2>5. DOMAIN h = 1 .. (n + m) /\ DOMAIN g = 1 .. n
    BY <1>4, <2>2, <2>4
  <2> QED
    BY <2>1, <2>4, <2>5
<1>6. ASSUME NEW a \in DOMAIN h, a > n
      PROVE  a - n \in 1 .. m /\ h[a] = T[a - n]
  <2>1. a \in 1 .. (n + m)
    BY <1>5
  <2>2. a - n \in 1 .. m /\ n + (a - n) = a
    BY <1>2, <1>6, <2>1
  <2> QED
    BY <1>5, <2>2
<1>d. \A s \in DOMAIN found : DOMAIN found[s] \subseteq Nat
  BY DEF Apart
<1>7. ASSUME NEW a \in DOMAIN h
      PROVE  \E s \in DOMAIN found : \E i \in DOMAIN found[s] : i <= t /\ h[a] = found[s][i]
  <2>1. CASE a > n
    <3>1. PICK x \in 1 .. m : h[a] = T[x]
      BY <1>6, <2>1
    <3>2. z[x] \in DOMAIN found /\ t \in DOMAIN found[z[x]] /\ T[x] = found[z[x]][t] /\ t <= t
      BY <1>1 DEF TierOf
    <3> QED
      BY <3>1, <3>2
  <2>2. CASE ~ (a > n)
    <3>1. a \in 1 .. n
      BY <1>5, <2>2
    <3>2. PICK s \in DOMAIN found : \E i \in DOMAIN found[s] : i <= t - 1 /\ g[a] = found[s][i]
      BY <1>5, <3>1 DEF FusedTo
    <3>3. PICK i \in DOMAIN found[s] : i <= t - 1 /\ g[a] = found[s][i]
      BY <3>2
    <3>4. i <= t
      BY <1>d, <3>3
    <3> QED
      BY <1>5, <3>1, <3>3, <3>4
  <2> QED
    BY <2>1, <2>2
<1>8. ASSUME NEW s \in DOMAIN found, NEW i \in DOMAIN found[s], i <= t
      PROVE  \E a \in DOMAIN h : h[a] = found[s][i]
  <2>1. CASE i = t
    <3>1. PICK x \in 1 .. m : z[x] = s
      BY <1>1, <2>1 DEF TierOf
    <3>2. T[x] = found[s][i]
      BY <1>1, <2>1, <3>1 DEF TierOf
    <3>3. n + x \in 1 .. (n + m)
      BY <1>2
    <3> QED
      BY <1>5, <3>2, <3>3
  <2>2. CASE i # t
    <3>1. i <= t - 1
      BY <1>d, <1>8, <2>2
    <3>2. PICK a \in DOMAIN g : g[a] = found[s][i]
      BY <3>1 DEF FusedTo
    <3>3. a \in 1 .. (n + m) /\ a \in 1 .. n
      BY <1>2, <1>5
    <3> QED
      BY <1>5, <3>2, <3>3
  <2> QED
    BY <2>1, <2>2
<1>9. ASSUME NEW a \in DOMAIN h, NEW b \in DOMAIN h, a < b,
             NEW s \in DOMAIN found, NEW y \in DOMAIN found, NEW i \in DOMAIN found[s],
             NEW j \in DOMAIN found[y], h[a] = found[s][i], h[b] = found[y][j]
      PROVE  i < j \/ (i = j /\ s < y)
  <2>1. ASSUME b > n
        PROVE  j = t /\ \E x \in 1 .. m : x = b - n /\ y = z[x]
    <3>1. b - n \in 1 .. m /\ h[b] = T[b - n]
      BY <1>6, <2>1
    <3>2. PICK x : x = b - n
      OBVIOUS
    <3>3. z[x] \in DOMAIN found /\ t \in DOMAIN found[z[x]] /\ T[x] = found[z[x]][t]
      BY <1>1, <3>1, <3>2 DEF TierOf
    <3>4. found[y][j] = found[z[x]][t]
      BY <1>9, <3>1, <3>2, <3>3
    <3>5. y = z[x] /\ j = t
      BY <3>3, <3>4 DEF Apart
    <3> QED
      BY <3>1, <3>2, <3>5
  <2>2. ASSUME a > n
        PROVE  i = t /\ \E x \in 1 .. m : x = a - n /\ s = z[x]
    <3>1. a - n \in 1 .. m /\ h[a] = T[a - n]
      BY <1>6, <2>2
    <3>2. PICK x : x = a - n
      OBVIOUS
    <3>3. z[x] \in DOMAIN found /\ t \in DOMAIN found[z[x]] /\ T[x] = found[z[x]][t]
      BY <1>1, <3>1, <3>2 DEF TierOf
    <3>4. found[s][i] = found[z[x]][t]
      BY <1>9, <3>1, <3>2, <3>3
    <3>5. s = z[x] /\ i = t
      BY <3>3, <3>4 DEF Apart
    <3> QED
      BY <3>1, <3>2, <3>5
  <2>3. ASSUME ~ (a > n)
        PROVE  a \in 1 .. n /\ g[a] = found[s][i] /\ i <= t - 1
    <3>1. a \in 1 .. n /\ g[a] = h[a]
      BY <1>5, <2>3
    <3>2. PICK u \in DOMAIN found : \E k \in DOMAIN found[u] : k <= t - 1 /\ g[a] = found[u][k]
      BY <1>5, <3>1 DEF FusedTo
    <3>3. PICK k \in DOMAIN found[u] : k <= t - 1 /\ g[a] = found[u][k]
      BY <3>2
    <3>4. found[s][i] = found[u][k]
      BY <1>9, <3>1, <3>3
    <3>5. i = k
      BY <3>4 DEF Apart
    <3> QED
      BY <1>9, <3>1, <3>3, <3>5
  <2>4. CASE a > n /\ b > n
    <3>1. PICK x \in 1 .. m : x = a - n /\ s = z[x]
      BY <2>2, <2>4
    <3>2. PICK v \in 1 .. m : v = b - n /\ y = z[v]
      BY <2>1, <2>4
    <3>3. x < v
      BY <1>5, <1>9, <3>1, <3>2
    <3>4. z[x] < z[v]
      BY <1>1, <3>3 DEF TierOf
    <3> QED
      BY <2>1, <2>2, <2>4, <3>1, <3>2, <3>4
  <2>5. CASE ~ (a > n) /\ b > n
    <3>1. j = t /\ i <= t - 1 /\ i \in Nat
      BY <1>d, <2>1, <2>3, <2>5
    <3> QED
      BY <3>1
  <2>6. CASE ~ (b > n)
    <3>1. ~ (a > n) /\ b \in 1 .. n
      BY <1>5, <1>9, <2>6
    <3>2. a \in 1 .. n /\ g[a] = found[s][i]
      BY <2>3, <3>1
    <3>3. g[b] = found[y][j]
      BY <1>5, <1>9, <3>1
    <3> QED
      BY <1>5, <1>9, <3>1, <3>2, <3>3 DEF FusedTo
  <2> QED
    BY <2>4, <2>5, <2>6
<1>10. /\ \A a \in DOMAIN h : \E s \in DOMAIN found : \E i \in DOMAIN found[s] :
              i <= t /\ h[a] = found[s][i]
       /\ \A s \in DOMAIN found : \A i \in DOMAIN found[s] :
              i <= t => \E a \in DOMAIN h : h[a] = found[s][i]
  BY <1>7, <1>8
<1>11. \A a, b \in DOMAIN h : a < b =>
           \A s, y \in DOMAIN found : \A i \in DOMAIN found[s], j \in DOMAIN found[y] :
              h[a] = found[s][i] /\ h[b] = found[y][j] => (i < j \/ (i = j /\ s < y))
  BY <1>9
<1> QED
  BY <1>5, <1>10, <1>11, Zenon DEF FusedTo

(* Fusion hands over every hit once, by rank and then by size.             *)
LEMMA FuseIs ==
    ASSUME NEW found, Apart(found)
    PROVE  FusedTo(found, Depth(found), Fuse(found))
<1>1. PICK n \in Nat : n = Depth(found)
  BY DepthIs
<1>2. PICK q : q = [t \in 1 .. n |-> Tier(found, t)]
  OBVIOUS
<1>3. q \in [1 .. n -> Seq(AllHits(found))]
  <2>1. ASSUME NEW t \in 1 .. n PROVE Tier(found, t) \in Seq(AllHits(found))
    <3>1. t \in Nat \ {0}
      OBVIOUS
    <3>2. PICK m, z : TierOf(found, t, m, z, Tier(found, t))
      BY <3>1, TierIs
    <3>3. PICK T : T = Tier(found, t)
      OBVIOUS
    <3>4. m \in Nat /\ T \in [1 .. m -> AllHits(found)]
      BY <3>2, <3>3 DEF TierOf
    <3> QED
      BY <3>3, <3>4
  <2> QED
    BY <1>2, <2>1
<1>4. Fuse(found) = FlattenSeq(q)
  BY <1>1, <1>2 DEF Fuse
<1>5. PICK f : Strings(f, q, n, AllHits(found)) /\ FlattenSeq(q) = f[n]
  BY <1>3, FlattenIs
<1> DEFINE G == {k \in 0 .. n : FusedTo(found, k, f[k])}
<1>6. 0 \in G
  <2>1. PICK e : e = << >>
    OBVIOUS
  <2>2. e \in Seq(AllHits(found)) /\ DOMAIN e = {} /\ f[0] = e
    BY <1>5, <2>1 DEF Strings
  <2>3. ASSUME NEW s \in DOMAIN found, NEW i \in DOMAIN found[s] PROVE ~ (i <= 0)
    BY DEF Apart
  <2>4. FusedTo(found, 0, e)
    BY <2>2, <2>3 DEF FusedTo
  <2> QED
    BY <2>2, <2>4
<1>7. ASSUME NEW k \in 1 .. n, k - 1 \in G PROVE k \in G
  <2>1. FusedTo(found, k - 1, f[k - 1]) /\ k \in Nat \ {0}
    BY <1>7
  <2>2. f[k] = f[k - 1] \o Tier(found, k)
    BY <1>2, <1>5 DEF Strings
  <2>3. FusedTo(found, k, f[k])
    BY <2>1, <2>2, TierFuses
  <2> QED
    BY <2>3
<1>8. 0 .. n \subseteq G
  <2> HIDE DEF G
  <2> QED
    BY <1>6, <1>7, SetInduction
<1>9. n \in G
  BY <1>8
<1> QED
  BY <1>1, <1>4, <1>5, <1>9

(* What a query has found when it answers.                                 *)
LEMMA FoundApart ==
    ASSUME ReadInv, NEW r \in Readers, Done(r, "query"), NEW found, found = reads[r].found
    PROVE  Apart(found)
<1>1. reads[r].config \in Configs /\ Searched(reads[r])
  BY DoneHas
<1>2. DOMAIN found \subseteq Sizes
  BY <1>1, TargetsOnGrid DEF Searched
<1>3. DOMAIN found \subseteq Nat /\ IsFiniteSet(DOMAIN found)
  BY <1>2, GridAssumption, FS_Subset
<1>4. ASSUME NEW s \in DOMAIN found PROVE Ranked(found[s], s)
  BY <1>1 DEF Searched
<1>5. ASSUME NEW s \in DOMAIN found PROVE found[s] \in Seq(AllHits(found))
  <2>1. found[s] \in Seq(SlicePoints(Texts))
    BY <1>4 DEF Ranked
  <2>2. PICK n \in Nat : n = Len(found[s]) /\ DOMAIN found[s] = 1 .. n
    BY <2>1
  <2>3. ASSUME NEW i \in 1 .. n PROVE found[s][i] \in AllHits(found)
    BY <2>2, HitsAre
  <2>4. found[s] \in [1 .. n -> AllHits(found)]
    BY <2>1, <2>2, <2>3
  <2> QED
    BY <2>4
<1>6. ASSUME NEW s \in DOMAIN found, NEW z \in DOMAIN found,
             NEW i \in DOMAIN found[s], NEW j \in DOMAIN found[z], found[s][i] = found[z][j]
      PROVE  s = z /\ i = j
  <2>1. found[s][i].size = s /\ found[z][j].size = z
    BY <1>4, CutIs DEF Ranked
  <2>2. s = z
    BY <1>6, <2>1
  <2> QED
    BY <1>4, <1>6, <2>2 DEF Ranked
<1> QED
  BY <1>3, <1>5, <1>6 DEF Apart

(* The places at which a list names a point.                               *)
PlacesOf(g, h, A) == A = {a \in DOMAIN g : g[a] = h}

(* Fusion hands over every hit once; a hit goes before those of worse rank *)
(* in whatever size, and among its rank by size.                           *)
THEOREM CandidatesAreFusedByRank == ReadSpec => []FusedByRank
<1>1. ASSUME ReadInv, NEW r \in Readers, Done(r, "query"), NEW found, found = reads[r].found,
             NEW g, g = Candidates(r)
      PROVE  Apart(found) /\ FusedTo(found, Depth(found), g)
             /\ \A s \in DOMAIN found : \A i \in DOMAIN found[s] : i <= Depth(found) /\ i \in Nat
  <2>1. Apart(found)
    BY <1>1, FoundApart
  <2>2. FusedTo(found, Depth(found), g)
    BY <1>1, <2>1, FuseIs DEF Candidates
  <2>3. ASSUME NEW s \in DOMAIN found, NEW i \in DOMAIN found[s]
        PROVE  i <= Depth(found) /\ i \in Nat
    <3>1. Depth(found) \in Nat /\ Len(found[s]) <= Depth(found)
      BY <2>1, DepthIs
    <3>2. i \in 1 .. Len(found[s]) /\ Len(found[s]) \in Nat
      BY <2>1 DEF Apart
    <3> QED
      BY <3>1, <3>2
  <2> QED
    BY <2>1, <2>2, <2>3
<1>2. ASSUME NEW found, NEW g, Apart(found), FusedTo(found, Depth(found), g),
             \A s \in DOMAIN found : \A i \in DOMAIN found[s] : i <= Depth(found) /\ i \in Nat,
             NEW s \in DOMAIN found, NEW i \in DOMAIN found[s]
      PROVE  \E a \in DOMAIN g : {b \in DOMAIN g : g[b] = found[s][i]} = {a}
  <2>1. PICK a \in DOMAIN g : g[a] = found[s][i]
    BY <1>2 DEF FusedTo
  <2>2. DOMAIN g \subseteq Nat
    BY <1>2 DEF FusedTo
  <2>3. ASSUME NEW b \in DOMAIN g, g[b] = found[s][i] PROVE b = a
    <3>1. s \in Nat /\ i \in Nat
      BY <1>2 DEF Apart
    <3>2. ~ (i < i \/ (i = i /\ s < s))
      BY <3>1
    <3>3. ~ (a < b) /\ ~ (b < a)
      BY <1>2, <2>1, <2>3, <3>2 DEF FusedTo
    <3> QED
      BY <2>2, <3>3
  <2> QED
    BY <2>1, <2>3
<1>3. ASSUME NEW found, NEW g, Apart(found), FusedTo(found, Depth(found), g),
             \A s \in DOMAIN found : \A i \in DOMAIN found[s] : i <= Depth(found) /\ i \in Nat,
             NEW s \in DOMAIN found, NEW z \in DOMAIN found,
             NEW i \in DOMAIN found[s], NEW j \in DOMAIN found[z],
             NEW A, PlacesOf(g, found[s][i], A), NEW B, PlacesOf(g, found[z][j], B)
      PROVE  /\ Cardinality(A) = 1
             /\ (i < j \/ (i = j /\ s < z)) => \A a \in A, b \in B : a < b
  <2>1. Apart(found) /\ FusedTo(found, Depth(found), g)
        /\ \A u \in DOMAIN found : \A k \in DOMAIN found[u] : k <= Depth(found) /\ k \in Nat
    BY <1>3
  <2>2. PICK a \in DOMAIN g : {b \in DOMAIN g : g[b] = found[s][i]} = {a}
    BY <1>2, <2>1
  <2>3. Cardinality(A) = 1
    BY <1>3, <2>2, FS_Singleton DEF PlacesOf
  <2>4. ASSUME NEW x \in A, NEW y \in B, i < j \/ (i = j /\ s < z)
        PROVE  x < y
    <3>1. x \in DOMAIN g /\ y \in DOMAIN g /\ g[x] = found[s][i] /\ g[y] = found[z][j]
      BY <1>3 DEF PlacesOf
    <3>2. x \in Nat /\ y \in Nat /\ i \in Nat /\ j \in Nat /\ s \in Nat /\ z \in Nat
      <4>1. g \in Seq(AllHits(found)) /\ DOMAIN found \subseteq Nat
        BY <2>1 DEF FusedTo, Apart
      <4>2. DOMAIN g \subseteq Nat
        BY <4>1
      <4> QED
        BY <2>1, <3>1, <4>1, <4>2
    <3>3. x # y
      <4>1. ASSUME x = y PROVE s = z /\ i = j
        <5>1. found[s][i] = found[z][j]
          BY <3>1, <4>1
        <5> QED
          BY <2>1, <5>1 DEF Apart
      <4> QED
        BY <2>4, <3>2, <4>1
    <3>4. y < x => (j < i \/ (j = i /\ z < s))
      BY <2>1, <3>1 DEF FusedTo
    <3> QED
      BY <2>4, <3>2, <3>3, <3>4
  <2> QED
    BY <2>3, <2>4
<1>4. ASSUME ReadInv PROVE FusedByRank
  <2> SUFFICES ASSUME NEW r \in Readers, Done(r, "query"),
                      NEW s \in DOMAIN reads[r].found, NEW z \in DOMAIN reads[r].found,
                      NEW i \in DOMAIN reads[r].found[s], NEW j \in DOMAIN reads[r].found[z]
               PROVE  LET places(h) == {p \in DOMAIN Candidates(r) : Candidates(r)[p] = h}
                          mine == places(reads[r].found[s][i])
                          others == places(reads[r].found[z][j])
                      IN  /\ Cardinality(mine) = 1
                          /\ (i < j \/ (i = j /\ s < z)) => \A a \in mine, b \in others : a < b
    BY DEF FusedByRank
  <2>1. PICK found : found = reads[r].found
    OBVIOUS
  <2>2. PICK g : g = Candidates(r)
    OBVIOUS
  <2>3. PICK mine : mine = {p \in DOMAIN Candidates(r) : Candidates(r)[p] = reads[r].found[s][i]}
    OBVIOUS
  <2>4. PICK others : others = {p \in DOMAIN Candidates(r) : Candidates(r)[p] = reads[r].found[z][j]}
    OBVIOUS
  <2>5. PlacesOf(g, found[s][i], mine) /\ PlacesOf(g, found[z][j], others)
    BY <2>1, <2>2, <2>3, <2>4 DEF PlacesOf
  <2>6. Apart(found) /\ FusedTo(found, Depth(found), g)
        /\ \A u \in DOMAIN found : \A k \in DOMAIN found[u] : k <= Depth(found) /\ k \in Nat
    BY <1>1, <1>4, <2>1, <2>2
  <2>7. /\ s \in DOMAIN found /\ z \in DOMAIN found
        /\ i \in DOMAIN found[s] /\ j \in DOMAIN found[z]
    BY <2>1
  <2>8. /\ Cardinality(mine) = 1
        /\ (i < j \/ (i = j /\ s < z)) => \A a \in mine, b \in others : a < b
    BY <1>3, <2>5, <2>6, <2>7
  <2> QED
    BY <2>3, <2>4, <2>8
<1> QED
  BY <1>4, ReadInvariance, PTL

(* A slice of a text starts at a multiple of its size.                     *)
LEMMA CutOnGrid ==
    ASSUME NEW d, NEW c \in Texts, NEW s \in Sizes, NEW p \in Cut(d, c, s)
    PROVE  OnGrid(p.off, s)
<1>1. PICK Z : Z = {s}
  OBVIOUS
<1>2. PICK o \in Offsets(0, Len(c), s) : p = [doc |-> d, size |-> s, off |-> o, of |-> c]
  BY <1>1, InPoints DEF Cut
<1>3. Len(c) \in Nat /\ s \in Nat \ {0}
  BY ServiceAssumption, GridAssumption
<1>4. p.off = o /\ o \in 0 .. (Len(c) - 1) /\ (o - 0) % s = 0
  BY <1>2 DEF Offsets
<1>5. o - 0 = o
  BY <1>3, <1>4
<1> QED
  BY <1>4, <1>5 DEF OnGrid

(* The hits and the source are points with distinct refs, on the grid of   *)
(* the corpus.                                                             *)
LEMMA HandedOver ==
    ASSUME ReadInv, NEW r \in Readers, Done(r, "query"), NEW q, q = reads[r],
           NEW p \in AllHits(q.found) \cup q.source
    PROVE  /\ p.size \in q.config.sizes /\ OnGrid(p.off, p.size)
           /\ \A o \in AllHits(q.found) \cup q.source : Ref(p) = Ref(o) => p = o
<1>1. q.config \in Configs /\ Searched(q) /\ Sourced(q) /\ Wanted(r) = WantedOf(q)
  BY DoneHas
<1>2. ASSUME NEW h \in AllHits(q.found)
      PROVE  /\ h \in SlicePoints(Texts) /\ h.size \in q.config.sizes
             /\ h \in Cut(h.doc, h.of, h.size)
             /\ \A o \in AllHits(q.found) : Ref(h) = Ref(o) => h = o
             /\ Ref(h) \notin WantedOf(q)
  <2>1. PICK s \in DOMAIN q.found : \E i \in DOMAIN q.found[s] : h = q.found[s][i]
    BY HitsAre
  <2>2. PICK i \in DOMAIN q.found[s] : h = q.found[s][i]
    BY <2>1
  <2>3. Ranked(q.found[s], s) /\ s \in q.config.sizes
    BY <1>1, TargetsOnGrid DEF Searched
  <2>4. h \in Cut(h.doc, h.of, s) /\ h.size = s
    BY <2>2, <2>3, CutIs DEF Ranked
  <2>5. h \in SlicePoints(Texts)
    BY <2>2, <2>3 DEF Ranked
  <2>6. ASSUME NEW o \in AllHits(q.found), Ref(h) = Ref(o) PROVE h = o
    <3>1. PICK z \in DOMAIN q.found : \E j \in DOMAIN q.found[z] : o = q.found[z][j]
      BY HitsAre
    <3>2. PICK j \in DOMAIN q.found[z] : o = q.found[z][j]
      BY <3>1
    <3>3. Ranked(q.found[z], z)
      BY <1>1 DEF Searched
    <3>4. o.size = z
      BY <3>2, <3>3, CutIs DEF Ranked
    <3>5. z = s
      BY <2>4, <2>6, <3>4 DEF Ref
    <3> QED
      BY <2>2, <2>3, <2>6, <3>2, <3>5 DEF Ranked
  <2>7. Ref(h) \notin WantedOf(q)
    BY DEF WantedOf, IdsOf
  <2> QED
    BY <2>3, <2>4, <2>5, <2>6, <2>7
<1>3. ASSUME NEW h \in q.source
      PROVE  /\ h \in SlicePoints(Texts) /\ h.size \in q.config.sizes
             /\ h \in Cut(h.doc, h.of, h.size)
             /\ \A o \in q.source : Ref(h) = Ref(o) => h = o
             /\ Ref(h) \in WantedOf(q)
  BY <1>1 DEF Sourced
<1>4. p \in SlicePoints(Texts) /\ p.size \in q.config.sizes /\ p \in Cut(p.doc, p.of, p.size)
  BY <1>2, <1>3
<1>5. p.of \in Texts /\ p.size \in Sizes
  BY <1>1, <1>4, ServiceAssumption DEF SlicePoints
<1>6. OnGrid(p.off, p.size)
  BY <1>4, <1>5, CutOnGrid
<1> QED
  BY <1>2, <1>3, <1>4, <1>6

(* There are as many candidates as hits.                                   *)
LEMMA CandidatesCount ==
    ASSUME NEW found, Apart(found), NEW g, FusedTo(found, Depth(found), g)
    PROVE  Len(g) = Cardinality(AllHits(found))
<1>1. PICK n \in Nat : n = Len(g) /\ DOMAIN g = 1 .. n
  BY DEF FusedTo
<1>2. g \in [1 .. n -> AllHits(found)]
  BY <1>1 DEF FusedTo
<1>3. ASSUME NEW p \in AllHits(found) PROVE \E a \in 1 .. n : g[a] = p
  <2>1. PICK s \in DOMAIN found : \E i \in DOMAIN found[s] : p = found[s][i]
    BY HitsAre
  <2>2. PICK i \in DOMAIN found[s] : p = found[s][i]
    BY <2>1
  <2>3. Depth(found) \in Nat /\ Len(found[s]) <= Depth(found)
    BY DepthIs
  <2>4. i \in 1 .. Len(found[s]) /\ Len(found[s]) \in Nat
    BY DEF Apart
  <2>5. i <= Depth(found)
    BY <2>3, <2>4
  <2> QED
    BY <1>1, <2>2, <2>5 DEF FusedTo
<1>4. ASSUME NEW a \in 1 .. n, NEW b \in 1 .. n, a < b PROVE g[a] # g[b]
  <2>1. PICK s \in DOMAIN found : \E i \in DOMAIN found[s] : g[a] = found[s][i]
    BY <1>1 DEF FusedTo
  <2>2. PICK i \in DOMAIN found[s] : g[a] = found[s][i]
    BY <2>1
  <2>3. s \in Nat /\ i \in Nat
    BY DEF Apart
  <2>4. g[b] = found[s][i] => (i < i \/ (i = i /\ s < s))
    BY <1>1, <1>4, <2>2 DEF FusedTo
  <2> QED
    BY <2>2, <2>3, <2>4
<1>5. g \in Surjection(1 .. n, AllHits(found))
  BY <1>2, <1>3 DEF Surjection
<1>6. \A a, b \in 1 .. n : g[a] = g[b] => a = b
  <2>1. \A a, b \in 1 .. n : a < b \/ b < a \/ a = b
    OBVIOUS
  <2> QED
    BY <1>4, <2>1
<1>7. g \in Injection(1 .. n, AllHits(found))
  BY <1>2, <1>6 DEF Injection, IsInjective
<1>8. IsFiniteSet(1 .. n) /\ Cardinality(1 .. n) = n
  BY FS_Interval
<1>9. Cardinality(AllHits(found)) = Cardinality(1 .. n)
  BY <1>5, <1>7, <1>8, FS_Surjection
<1> QED
  BY <1>1, <1>8, <1>9

(* So Selection's assumptions about a request are met: no ref twice among  *)
(* the candidates, nor among the candidates and the source, and every      *)
(* slice on the grid, whatever was written while the query ran.            *)
THEOREM SelectionGetsARequest == ReadSpec => []FitForSelection
<1>1. ASSUME ReadInv, NEW r \in Readers, Done(r, "query")
      PROVE  Len(Candidates(r)) = Cardinality(AllHits(reads[r].found))
  <2>1. Apart(reads[r].found)
    BY <1>1, FoundApart
  <2> QED
    BY <2>1, FuseIs, CandidatesCount DEF Candidates
<1>2. ReadInv => FitForSelection
  BY <1>1, HandedOver DEF FitForSelection
<1> QED
  BY <1>2, ReadInvariance, PTL

-----------------------------------------------------------------------------
(* What listing relies on: the registry says of each document nobody       *)
(* writes what is promised of it, also where points lie outside the grid.  *)

GoneInv == \A d \in Docs : None \in promised[d] => docs[d] = None

(* A delete or a drop without rivals leaves no registry entry.             *)
LEMMA GoneReturned ==
    ASSUME TypeInv, DropInv, NEW w \in Busy, Finishes(w), reqs[w].alone,
           NEW d \in Docs, Writes(reqs[w].call, d), Content(reqs[w].call) = None
    PROVE  docs'[d] = None
<1>1. reqs[w].call.op # "put"
  BY BusyHas, CallHas, NoneAssumption DEF Content, Requests
<1>2. CASE reqs[w].call.op = "delete"
  <2>1. WriteRecord(d, None)
    BY <1>2 DEF Finishes, Writes
  <2> QED
    BY <2>1 DEF WriteRecord, TypeInv, TypeOK, StoreTypeOK
<1>3. CASE reqs[w].call.op = "drop"
  <2>1. reqs[w].at = "erase" /\ WriteMeta(None)
    BY <1>3 DEF Finishes
  <2>2. docs[d] = None
    BY <1>3, <2>1 DEF DropInv, DropOK
  <2> QED
    BY <2>1, <2>2 DEF WriteMeta
<1> QED
  BY <1>1, <1>2, <1>3 DEF Writes

(* Every step keeps the entries gone that are promised to be.              *)
LEMMA GoneKept ==
    ASSUME TypeInv, BootInv, UnwrittenInv, DropInv, GoneInv, [Next]_vars
    PROVE  GoneInv'
<1> SUFFICES ASSUME NEW d \in Docs, None \in promised'[d]
             PROVE  docs'[d] = None
  BY DEF GoneInv
<1>1. ASSUME UNCHANGED store, None \in promised[d] PROVE docs'[d] = None
  BY <1>1 DEF GoneInv, store
<1>2. CASE UNCHANGED vars \/ Crash
  BY <1>1, <1>2 DEF vars, Crash
<1>3. ASSUME NEW w \in Workers, Begin(w) PROVE docs'[d] = None
  <2>1. UNCHANGED store /\ \E e : Enters(w, e, << >>, promised)
    BY <1>3, BeginEnters
  <2>2. None \in promised[d]
    BY <2>1, EntersHas
  <2> QED
    BY <1>1, <2>1, <2>2
<1>4. ASSUME NEW w \in Workers, Acts(w) PROVE docs'[d] = None
  <2>1. \/ None \in promised[d]
        \/ /\ reqs[w].alone /\ Finishes(w) /\ Writes(reqs[w].call, d)
           /\ None = Content(reqs[w].call)
    BY <1>4, PromiseChanges
  <2>2. w \in Busy
    BY <1>4, ActsGo
  <2>3. CASE None \in promised[d]
    <3>1. docs[d] = None /\ ~ Writes(reqs[w].call, d)
      BY <2>2, <2>3 DEF GoneInv, UnwrittenInv
    <3>2. PICK s : s \in Sizes
      BY GridAssumption
    <3> QED
      BY <1>4, <2>2, <3>1, <3>2, ActsSpare
  <2>4. CASE None \notin promised[d]
    BY <2>1, <2>2, <2>4, GoneReturned
  <2> QED
    BY <2>3, <2>4
<1> QED
  BY <1>2, <1>3, <1>4 DEF Next, Acts

(* What a client that walks the pages has listed, by the time it stands at *)
(* a cursor: all documents before that, if they are steady, in order.      *)
Past(q, d) == q.at = "answered" \/ (q.cursor # None /\ d < q.cursor)

ListOK(q) == q.ask.op = "list" =>
    /\ q.cursor \in Docs \cup {None}
    /\ q.listed \in Seq(Docs)
    /\ \A i, j \in DOMAIN q.listed : i < j => q.listed[i] < q.listed[j]
    /\ \A i \in DOMAIN q.listed :
          None \notin q.steady[q.listed[i]] /\ (q.cursor # None => q.listed[i] < q.cursor)
    /\ q.at # "answered" /\ q.cursor = None => q.listed = << >>
    /\ \A d \in Docs : q.steady[d] \ {None} # {} /\ Past(q, d) =>
          \E i \in DOMAIN q.listed : q.listed[i] = d

ListInv == \A r \in Readers : reads[r] # None => ListOK(reads[r])

(* The documents D that are registered from a cursor on, and all of them   *)
(* as they are listed.                                                     *)
From(D, from) == D = {d \in Docs : docs[d] # None /\ (from # None => d >= from)}
ListsAll(all, from) == all = Registered(from)

(* The page that starts at a cursor.                                       *)
LEMMA PageIs ==
    ASSUME NEW from, NEW D, From(D, from), NEW all, ListsAll(all, from)
    PROVE  /\ all \in Seq(Docs) /\ \A i \in DOMAIN all : all[i] \in D
           /\ \A i, j \in DOMAIN all : i < j => all[i] < all[j]
           /\ \A d \in D : \E i \in DOMAIN all : all[i] = d
<1>1. D \subseteq Docs /\ D \subseteq Nat /\ IsFiniteSet(D)
  BY CatalogAssumption, ReadsAssumption, FS_Subset DEF From
<1>2. PICK n \in Nat : n = Cardinality(D)
  BY <1>1, FS_CardinalityType
<1>3. IsSorting(all, D)
  BY Zenon DEF Registered, SortedBy, IsSorting, From, ListsAll
<1>4. /\ all \in [1 .. n -> D]
      /\ \A i, j \in 1 .. n : i < j => all[i] < all[j]
      /\ \A d \in D : \E i \in 1 .. n : all[i] = d
  <2>1. Ascends(all, n, D)
    BY <1>1, <1>2, <1>3, SortedAscends
  <2> QED
    BY <2>1 DEF Ascends
<1>5. all \in [1 .. n -> Docs] /\ DOMAIN all = 1 .. n
  BY <1>1, <1>4
<1> QED
  BY <1>4, <1>5

(* The first elements of a sequence.                                       *)
LEMMA FirstOnes ==
    ASSUME NEW S, NEW s \in Seq(S), NEW m \in Nat, m <= Len(s)
    PROVE  /\ SubSeq(s, 1, m) \in Seq(S) /\ Len(SubSeq(s, 1, m)) = m
           /\ \A i \in 1 .. m : SubSeq(s, 1, m)[i] = s[i]
  OBVIOUS

(* A list goes on by the first m elements of what is there.                *)
GoesOn(new, old, all, m) ==
    /\ m <= Len(all) /\ m <= PageSize /\ (m < PageSize => m = Len(all))
    /\ new \in Seq(Docs) /\ DOMAIN new = 1 .. (Len(old) + m)
    /\ \A i \in 1 .. Len(old) : new[i] = old[i]
    /\ \A i \in 1 .. m : new[Len(old) + i] = all[i]

(* A page more is at most PageSize documents more.                         *)
LEMMA PageTurns ==
    ASSUME NEW all \in Seq(Docs), NEW old \in Seq(Docs)
    PROVE  \E m \in Nat : GoesOn(old \o SubSeq(all, 1, Min({PageSize, Len(all)})), old, all, m)
<1>1. PICK n \in Nat : n = Len(all)
  OBVIOUS
<1>2. PICK T : T = {PageSize, Len(all)}
  OBVIOUS
<1>3. T \subseteq Nat /\ T # {}
  BY <1>2, CatalogAssumption
<1>4. PICK m : m = Min(T)
  OBVIOUS
<1>5. m \in T /\ \A y \in T : m <= y
  BY <1>3, <1>4, MinIsLeast
<1>6. m \in Nat /\ m <= n /\ m <= PageSize /\ (m < PageSize => m = n)
  BY <1>1, <1>2, <1>5, CatalogAssumption
<1>7. PICK page : page = SubSeq(all, 1, m)
  OBVIOUS
<1>8. page \in Seq(Docs) /\ Len(page) = m /\ \A i \in 1 .. m : page[i] = all[i]
  BY <1>1, <1>6, <1>7, FirstOnes
<1>9. PICK new : new = old \o page
  OBVIOUS
<1>10. /\ new \in Seq(Docs) /\ Len(new) = Len(old) + Len(page)
       /\ \A i \in 1 .. Len(old) : new[i] = old[i]
       /\ \A i \in 1 .. Len(page) : new[Len(old) + i] = page[i]
  <2>1. /\ old \o page \in Seq(Docs) /\ Len(old \o page) = Len(old) + Len(page)
        /\ \A i \in 1 .. Len(old) : (old \o page)[i] = old[i]
        /\ \A i \in 1 .. Len(page) : (old \o page)[Len(old) + i] = page[i]
    <3>1. page \in Seq(Docs)
      BY <1>8
    <3> QED
      BY <3>1, OneAfterAnother
  <2> QED
    BY <1>9, <2>1
<1>11. GoesOn(new, old, all, m)
  <2>1. DOMAIN new = 1 .. (Len(old) + m)
    BY <1>8, <1>10
  <2>2. \A i \in 1 .. m : new[Len(old) + i] = all[i]
    BY <1>8, <1>10
  <2> QED
    BY <1>1, <1>6, <1>10, <2>1, <2>2 DEF GoesOn
<1>12. new = old \o SubSeq(all, 1, Min({PageSize, Len(all)}))
  BY <1>2, <1>4, <1>7, <1>9
<1> QED
  BY <1>6, <1>11, <1>12

(* A page is listed: the request moves on to where the next one starts.    *)
Paged(q, p, all) ==
    /\ p.ask = q.ask /\ p.steady = q.steady
    /\ p.cursor = NextCursor(all)
    /\ p.cursor = None => p.at = "answered"
    /\ p.cursor # None => p.at # "answered"
    /\ p.listed = q.listed \o SubSeq(all, 1, Min({PageSize, Len(all)}))

(* What was never registered is not, and what always was is.               *)
StillTrue(q) == \A d \in Docs : /\ None \in q.steady[d] => docs[d] = None
                                /\ q.steady[d] \ {None} # {} => docs[d] # None

(* Listing a page keeps what is known of the list.                         *)
LEMMA ListGoesOn ==
    ASSUME NEW q, ListOK(q), q.ask.op = "list", q.at # "answered", StillTrue(q),
           NEW all, ListsAll(all, q.cursor), NEW p, Paged(q, p, all)
    PROVE  ListOK(p)
<1>1. PICK D : From(D, q.cursor)
  BY DEF From
<1>2. /\ all \in Seq(Docs) /\ \A i \in DOMAIN all : all[i] \in D
      /\ \A i, j \in DOMAIN all : i < j => all[i] < all[j]
      /\ \A d \in D : \E i \in DOMAIN all : all[i] = d
  BY <1>1, PageIs
<1>3. PICK n \in Nat : n = Len(all) /\ DOMAIN all = 1 .. n
  BY <1>2
<1>4. q.listed \in Seq(Docs)
  BY DEF ListOK
<1>5. PICK old \in Seq(Docs) : old = q.listed
  BY <1>4
<1>6. PICK k \in Nat : k = Len(old) /\ DOMAIN old = 1 .. k
  OBVIOUS
<1>7. PICK new : new = p.listed
  OBVIOUS
<1>8. PICK m \in Nat : GoesOn(new, old, all, m)
  <2>1. \E m \in Nat : GoesOn(old \o SubSeq(all, 1, Min({PageSize, Len(all)})), old, all, m)
    BY <1>2, PageTurns
  <2>2. new = old \o SubSeq(all, 1, Min({PageSize, Len(all)}))
    BY <1>5, <1>7 DEF Paged
  <2> QED
    BY <2>1, <2>2
<1>9. PageSize \in Nat \ {0} /\ Docs \subseteq Nat /\ None \notin Docs
  BY CatalogAssumption
<1>10. /\ m <= n /\ m <= PageSize /\ (m < PageSize => m = n)
       /\ new \in Seq(Docs) /\ DOMAIN new = 1 .. (k + m)
       /\ \A i \in 1 .. k : new[i] = old[i]
       /\ \A i \in 1 .. m : new[k + i] = all[i]
  BY <1>3, <1>6, <1>8 DEF GoesOn
<1>11. PICK cursor : cursor = q.cursor
  OBVIOUS
<1>12. PICK next : next = p.cursor
  OBVIOUS
<1>13. /\ \A i, j \in 1 .. k : i < j => old[i] < old[j]
       /\ \A i \in 1 .. k : None \notin q.steady[old[i]] /\ (cursor # None => old[i] < cursor)
       /\ cursor = None => old = << >>
       /\ cursor \in Docs \cup {None}
  BY <1>5, <1>6, <1>11 DEF ListOK
<1>14. \/ n <= PageSize /\ m = n /\ next = None
       \/ n > PageSize /\ m = PageSize /\ m + 1 \in 1 .. n /\ next = all[m + 1]
  <2>1. n <= PageSize => m = n
    BY <1>9, <1>10
  <2>2. n > PageSize => m = PageSize /\ m + 1 \in 1 .. n
    BY <1>9, <1>10
  <2>3. n <= PageSize \/ n > PageSize
    BY <1>9
  <2>4. next = NextCursor(all)
    BY <1>12 DEF Paged
  <2> QED
    BY <1>3, <2>1, <2>2, <2>3, <2>4 DEF NextCursor
<1>15. \A j \in 1 .. n : all[j] \in Docs /\ all[j] \in Nat /\ all[j] \in D
  <2>1. \A j \in 1 .. n : all[j] \in Docs
    BY <1>2, <1>3
  <2> QED
    BY <1>2, <1>3, <1>9, <2>1
<1>16. \A i \in 1 .. k : old[i] \in Docs /\ old[i] \in Nat
  <2>1. \A i \in 1 .. k : old[i] \in Docs
    BY <1>6
  <2> QED
    BY <1>9, <2>1
<1>17. next \in Docs \cup {None}
  BY <1>14, <1>15
<1>18. ASSUME NEW i \in 1 .. (k + m)
       PROVE  \/ i \in 1 .. k /\ new[i] = old[i]
              \/ i > k /\ i - k \in 1 .. m /\ i - k \in 1 .. n /\ new[i] = all[i - k]
  <2>1. CASE i <= k
    <3>1. i \in 1 .. k
      BY <2>1
    <3> QED
      BY <1>10, <3>1
  <2>2. CASE i > k
    <3>1. i - k \in 1 .. m /\ k + (i - k) = i
      BY <2>2
    <3>2. i - k \in 1 .. n
      BY <1>10, <3>1
    <3>3. new[k + (i - k)] = all[i - k]
      BY <1>10, <3>1
    <3> QED
      BY <2>2, <3>1, <3>2, <3>3
  <2> QED
    BY <2>1, <2>2
<1>19. ASSUME NEW i \in 1 .. k, NEW j \in 1 .. n PROVE old[i] < all[j]
  <2>1. cursor # None
    BY <1>6, <1>13
  <2>2. old[i] < cursor /\ cursor \in Nat
    BY <1>9, <1>13, <2>1
  <2>3. all[j] >= cursor
    BY <1>1, <1>11, <1>15, <2>1 DEF From
  <2> QED
    BY <1>15, <1>16, <2>2, <2>3
<1>20. ASSUME NEW i \in 1 .. (k + m), NEW j \in 1 .. (k + m), i < j
       PROVE  new[i] < new[j]
  <2>1. CASE j \in 1 .. k /\ new[j] = old[j]
    <3>1. i \in 1 .. k
      BY <1>20, <2>1
    <3>2. old[i] < old[j]
      BY <1>13, <1>20, <2>1, <3>1
    <3> QED
      BY <1>10, <2>1, <3>1, <3>2
  <2>2. CASE j - k \in 1 .. n /\ new[j] = all[j - k] /\ i \in 1 .. k /\ new[i] = old[i]
    BY <1>19, <2>2
  <2>3. CASE j - k \in 1 .. n /\ new[j] = all[j - k] /\ i - k \in 1 .. n /\ new[i] = all[i - k]
    <3>1. i - k < j - k
      BY <1>20
    <3>2. \A x, y \in 1 .. n : x < y => all[x] < all[y]
      BY <1>2, <1>3
    <3> QED
      BY <2>3, <3>1, <3>2
  <2> QED
    BY <1>18, <2>1, <2>2, <2>3
<1>21. ASSUME NEW i \in 1 .. (k + m)
       PROVE  None \notin q.steady[new[i]] /\ (next # None => new[i] < next)
  <2>1. CASE i \in 1 .. k /\ new[i] = old[i]
    BY <1>13, <1>14, <1>19, <2>1
  <2>2. CASE i - k \in 1 .. m /\ i - k \in 1 .. n /\ new[i] = all[i - k]
    <3>1. PICK j \in 1 .. n : j = i - k /\ j \in 1 .. m
      BY <2>2
    <3>2. all[j] \in Docs /\ docs[all[j]] # None
      BY <1>1, <1>15 DEF From
    <3>3. None \notin q.steady[all[j]]
      BY <3>2 DEF StillTrue
    <3>4. ASSUME next # None PROVE all[j] < next
      <4>1. m + 1 \in 1 .. n /\ next = all[m + 1]
        BY <1>14, <3>4
      <4>2. j < m + 1
        BY <3>1
      <4> QED
        BY <1>2, <1>3, <4>1, <4>2
    <3> QED
      BY <2>2, <3>1, <3>3, <3>4
  <2> QED
    BY <1>18, <2>1, <2>2
<1>22. ASSUME NEW d \in Docs, q.steady[d] \ {None} # {}, next = None \/ d < next
       PROVE  \E i \in 1 .. (k + m) : new[i] = d
  <2>1. docs[d] # None /\ d \in Nat
    BY <1>9, <1>22 DEF StillTrue
  <2>2. CASE cursor # None /\ d < cursor
    <3>1. PICK i \in 1 .. k : old[i] = d
      BY <1>5, <1>6, <1>11, <1>22, <2>2 DEF ListOK, Past
    <3>2. i \in 1 .. (k + m)
      OBVIOUS
    <3> QED
      BY <1>10, <3>1, <3>2
  <2>3. CASE cursor # None => d >= cursor
    <3>1. d \in D
      BY <1>1, <1>11, <2>1, <2>3 DEF From
    <3>2. PICK j \in 1 .. n : all[j] = d
      BY <1>2, <1>3, <3>1
    <3>3. j \in 1 .. m
      <4>1. CASE n <= PageSize /\ m = n
        BY <4>1
      <4>2. CASE m + 1 \in 1 .. n /\ next = all[m + 1]
        <5>1. next \in Nat /\ next # None /\ d < next
          BY <1>9, <1>15, <1>22, <4>2
        <5>2. m + 1 < j => all[m + 1] < all[j]
          BY <1>2, <1>3, <4>2
        <5>3. ~ (m + 1 < j) /\ m + 1 # j
          BY <2>1, <3>2, <4>2, <5>1, <5>2
        <5> QED
          BY <5>3
      <4> QED
        BY <1>14, <4>1, <4>2
    <3>4. k + j \in 1 .. (k + m)
      BY <3>3
    <3>5. new[k + j] = d
      BY <1>10, <3>2, <3>3
    <3> QED
      BY <3>4, <3>5
  <2>4. cursor # None => cursor \in Nat
    BY <1>9, <1>13
  <2> QED
    BY <2>1, <2>2, <2>3, <2>4
<1>23. /\ p.ask = q.ask /\ p.steady = q.steady
       /\ p.at # "answered" <=> next # None
  BY <1>12 DEF Paged
<1>24. ASSUME NEW d \in Docs, Past(p, d) PROVE next = None \/ d < next
  BY <1>12, <1>23, <1>24 DEF Past
<1>25. DOMAIN p.listed = 1 .. (k + m) /\ p.listed \in Seq(Docs)
  BY <1>7, <1>10
<1> QED
  BY <1>7, <1>12, <1>17, <1>20, <1>21, <1>22, <1>23, <1>24, <1>25 DEF ListOK

(* Other steps of a listing leave what is listed.                          *)
LEMMA ListStays ==
    ASSUME NEW q, ListOK(q), q.ask.op = "list", q.at # "answered", NEW p, p.ask = q.ask,
           \A d \in Docs : p.steady[d] \subseteq q.steady[d],
           p.cursor = q.cursor, p.listed = q.listed, p.at # "answered"
    PROVE  ListOK(p)
<1>1. q.listed \in Seq(Docs)
  BY DEF ListOK
<1>2. \A i \in DOMAIN q.listed : q.listed[i] \in Docs
  BY <1>1
<1>3. \A d \in Docs : Past(p, d) => Past(q, d)
  BY DEF Past
<1> QED
  BY <1>1, <1>2, <1>3 DEF ListOK

(* Every step keeps the lists of all readers as they should be.            *)
LEMMA ListKept ==
    ASSUME ReadInv, GoneInv, ListInv, [ReadNext]_allVars
    PROVE  ListInv'
<1> SUFFICES ASSUME NEW r \in Readers, reads'[r] # None, reads'[r].ask.op = "list"
             PROVE  ListOK(reads'[r])
  BY DEF ListInv, ListOK
<1>0. ShapeInv /\ PastInv /\ ServedInv
  BY DEF ReadInv, PromiseInv
<1>1. CASE reads'[r] = reads[r]
  BY <1>1 DEF ListInv
<1>2. CASE Begins(reads'[r])
  <2>1. /\ reads'[r].listed = << >> /\ reads'[r].cursor = None /\ reads'[r].at = "config"
    BY <1>2 DEF Begins
  <2>2. \A d : ~ Past(reads'[r], d)
    BY <2>1 DEF Past
  <2>3. << >> \in Seq(Docs) /\ DOMAIN << >> = {}
    OBVIOUS
  <2> QED
    BY <2>1, <2>2, <2>3 DEF ListOK
<1>3. CASE Ages(r)
  <2>1. DOMAIN reads[r] = Fields /\ reads[r] # None /\ reads[r].at # "answered"
    BY <1>0, <1>3 DEF Ages, ShapeInv, Reading, Ended
  <2>2. /\ reads'[r].steady = [d \in Docs |-> reads[r].steady[d] \cap promised'[d]]
        /\ reads'[r].ask = reads[r].ask /\ reads'[r].at = reads[r].at
        /\ reads'[r].listed = reads[r].listed /\ reads'[r].cursor = reads[r].cursor
    BY <1>3, <2>1 DEF Ages, Fields
  <2>3. ListOK(reads[r])
    BY <2>1 DEF ListInv
  <2>4. \A d \in Docs : reads'[r].steady[d] \subseteq reads[r].steady[d]
    BY <2>2
  <2> QED
    BY <2>1, <2>2, <2>3, <2>4, ListStays
<1>4. CASE ReadStep(r)
  <2>1. /\ r \in Reading /\ reads'[r].ask = reads[r].ask /\ reads'[r].steady = reads[r].steady
        /\ reads' = [v \in Readers |-> reads'[v]]
    BY <1>0, <1>4, StepsRemember
  <2>2. DOMAIN reads[r] = Fields /\ reads[r] # None /\ reads[r].at # "answered" /\ Recalls(reads[r])
    BY <1>0, <2>1 DEF ShapeInv, Reading, Ended, PastInv
  <2>3. ListOK(reads[r]) /\ reads[r].ask.op = "list"
    BY <2>1, <2>2 DEF ListInv
  <2>4. List(r)
    BY <1>4, <2>3 DEF ReadStep, Query, Run, Search, Get, Inspect, QueryConfig, EmbedQuery, EndFanout,
       SearchAnswers, SearchFails, SearchTimesOut, Fetch, FetchFails, Select,
       GetConfig, GetLookup, GetRecord, GetFails, InspectConfig, CorpusStats, StatsExists,
       CountPoints, CountDocuments, VerifyCorpus, VerifyExists, VerifyDimension, InspectFails, Stands
  <2>5. ASSUME NEW p, Becomes(r, p) PROVE reads'[r] = p
    BY <1>0, <2>5 DEF Becomes, ShapeInv
  <2>6. ASSUME NEW at, MoveTo(r, at), at # "answered" PROVE ListOK(reads'[r])
    <3>1. reads'[r] = [reads[r] EXCEPT !.at = at]
      BY <2>5, <2>6 DEF MoveTo
    <3>2. reads'[r].cursor = reads[r].cursor /\ reads'[r].listed = reads[r].listed
          /\ reads'[r].at = at
      BY <2>2, <3>1 DEF Fields
    <3>3. \A d \in Docs : reads'[r].steady[d] \subseteq reads[r].steady[d]
      BY <2>1
    <3> QED
      BY <2>1, <2>2, <2>3, <2>6, <3>2, <3>3, ListStays
  <2>7. CASE ListConfig(r)
    BY <2>6, <2>7 DEF ListConfig, ReadConfig
  <2>8. CASE ListFails(r)
    BY <2>6, <2>8 DEF ListFails, Fails
  <2>9. CASE ListPage(r)
    <3>1. PICK all : all = Registered(reads[r].cursor)
      OBVIOUS
    <3>2. PICK next : next = NextCursor(all)
      OBVIOUS
    <3>3. PICK more : more = reads[r].listed \o SubSeq(all, 1, Min({PageSize, Len(all)}))
      OBVIOUS
    <3>4. PICK at : at = IF next = None THEN "answered" ELSE "config"
      OBVIOUS
    <3>5. reads'[r] = [reads[r] EXCEPT !.at = at, !.listed = more, !.cursor = next]
      BY <2>5, <2>9, <3>1, <3>2, <3>3, <3>4 DEF ListPage
    <3>6. reads'[r].at = at /\ reads'[r].listed = more /\ reads'[r].cursor = next
      BY <2>2, <3>5 DEF Fields
    <3>7. ASSUME NEW d \in Docs PROVE None \in reads[r].steady[d] => docs[d] = None
      BY <2>2 DEF Recalls, GoneInv
    <3>8. ASSUME NEW d \in Docs, reads[r].steady[d] \ {None} # {} PROVE docs[d] # None
      <4>1. PICK c \in promised[d] : c # None
        BY <2>2, <3>8 DEF Recalls
      <4> QED
        BY <1>0, <4>1 DEF ServedInv, Serves
    <3>9. /\ reads'[r].cursor = None => reads'[r].at = "answered"
          /\ reads'[r].cursor # None => reads'[r].at # "answered"
      BY <3>4, <3>6
    <3>10. reads'[r].cursor = NextCursor(all)
      BY <3>2, <3>6
    <3>11. reads'[r].listed = reads[r].listed \o SubSeq(all, 1, Min({PageSize, Len(all)}))
      BY <3>3, <3>6
    <3>12. PICK p : p = reads'[r]
      OBVIOUS
    <3>13. Paged(reads[r], p, all)
      BY <2>1, <3>9, <3>10, <3>11, <3>12 DEF Paged
    <3>14. StillTrue(reads[r])
      BY <3>7, <3>8 DEF StillTrue
    <3>15. ListsAll(all, reads[r].cursor)
      BY <3>1 DEF ListsAll
    <3> QED
      BY <2>2, <2>3, <3>12, <3>13, <3>14, <3>15, ListGoesOn
  <2> QED
    BY <2>4, <2>7, <2>8, <2>9 DEF List
<1> QED
  BY <1>0, <1>1, <1>2, <1>3, <1>4, HowReadsGo

(* What listing relies on and what it has listed.                          *)
ListedInv == DeleteInv /\ DropInv /\ GoneInv /\ ListInv

(* Before any call or request there is nothing to say.                     *)
LEMMA InitListed ==
    ASSUME InitReads
    PROVE  ListedInv
<1>1. RemovalInv
  BY InitRemoval DEF InitReads
<1>2. GoneInv
  BY <1>1 DEF RemovalInv, ClearedInv, Cleared, GoneInv
<1>3. ListInv
  BY DEF InitReads, ListInv
<1> QED
  BY <1>1, <1>2, <1>3 DEF RemovalInv, ListedInv

(* Every step keeps it.                                                    *)
LEMMA ListedKept ==
    ASSUME ReadInv, ListedInv, [ReadNext]_allVars
    PROVE  ListedInv'
<1>0. /\ TypeInv /\ BootInv /\ AloneInv /\ UnwrittenInv
      /\ DeleteInv /\ DropInv /\ GoneInv /\ ListInv
  BY DEF ReadInv, PromiseInv, BaseInv, ListedInv
<1>1. CASE Jolt
  <2>1. DeleteInv'
    BY <1>0, <1>1 DEF DeleteInv, DeleteOK, HeldAt, Held, Busy, Jolt, store
  <2>2. DropInv'
    <3>1. \A w \in Workers : DropOK(w)' <=> DropOK(w)
      BY <1>1 DEF Jolt, store, DropOK, HeldAt, Held
    <3> QED
      BY <1>0, <1>1, <3>1 DEF DropInv, Busy, Jolt
  <2>3. GoneInv'
    BY <1>0, <1>1 DEF GoneInv, Jolt, store
  <2> QED
    BY <1>0, <2>1, <2>2, <2>3, ListKept DEF ListedInv
<1>2. CASE [Next]_vars
  BY <1>0, <1>2, RemovalKept, GoneKept, ListKept DEF ListedInv
<1> QED
  BY <1>1, <1>2, StepsAround

(* A client that walks the pages while others write meets no document      *)
(* twice, every document registered all along, and none that was absent    *)
(* all along: also where creates and drops race.                           *)
THEOREM PagesListOnce == ReadSpec => []ListedOnce
<1>1. InitReads => ListedInv
  BY InitListed
<1>2. ReadInv /\ ListedInv /\ [ReadNext]_allVars => ListedInv'
  BY ListedKept
<1>3. ASSUME ReadInv, ListedInv, NEW r \in Readers, Done(r, "list"), NEW l, l = reads[r].listed
      PROVE  /\ \A i, j \in DOMAIN l : l[i] = l[j] => i = j
             /\ \A d \in Docs : \A c \in reads[r].steady[d] : d \in ToSet(l) <=> c # None
  <2>1. ListOK(reads[r]) /\ reads[r].ask.op = "list" /\ reads[r].at = "answered"
    BY <1>3 DEF ListedInv, ListInv, Done
  <2>2. l \in Seq(Docs) /\ \A i, j \in DOMAIN l : i < j => l[i] < l[j]
    BY <1>3, <2>1 DEF ListOK
  <2>3. ASSUME NEW i \in DOMAIN l, NEW j \in DOMAIN l, l[i] = l[j] PROVE i = j
    <3>1. l[i] \in Nat /\ i \in Nat /\ j \in Nat
      <4>1. l[i] \in Docs /\ i \in Nat /\ j \in Nat
        BY <2>2
      <4> QED
        BY <4>1, CatalogAssumption
    <3>2. ~ (l[i] < l[i])
      BY <3>1
    <3> QED
      BY <2>2, <2>3, <3>1, <3>2
  <2>4. ASSUME NEW d \in Docs, NEW c \in reads[r].steady[d]
        PROVE  d \in ToSet(l) <=> c # None
    <3>1. CASE c = None
      <4>1. \A i \in DOMAIN l : l[i] # d
        BY <1>3, <2>1, <2>4, <3>1 DEF ListOK
      <4> QED
        BY <3>1, <4>1 DEF ToSet
    <3>2. CASE c # None
      <4>1. \E i \in DOMAIN l : l[i] = d
        BY <1>3, <2>1, <2>4, <3>2 DEF ListOK, Past
      <4> QED
        BY <3>2, <4>1 DEF ToSet
    <3> QED
      BY <3>1, <3>2
  <2> QED
    BY <2>3, <2>4
<1>4. ReadInv /\ ListedInv => ListedOnce
  BY <1>3 DEF ListedOnce
<1> QED
  BY <1>1, <1>2, <1>4, ReadInvariance, PTL DEF ReadSpec
=============================================================================
