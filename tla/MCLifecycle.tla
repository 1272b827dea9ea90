----------------------------- MODULE MCLifecycle -----------------------------
(* Small clients for the life of a corpus.  Count is not used: no budget   *)
(* is spent here.                                                          *)
EXTENDS Conformance

LOCAL INSTANCE SequencesExt

One(t) == 1

Short == <<"a">>
Long == <<"a", "b", "c">>
Other == <<"d", "e", "f", "g">>
TextsOf == {<< >>, Short, Long, Other}

(* Two ladders.                                                            *)
Fine == [sizes |-> {1, 2}, dim |-> 3, embedder |-> "ours"]
Coarse == [sizes |-> {2}, dim |-> 3, embedder |-> "ours"]

(* A create may ask for another model, whose vectors may be as long.       *)
Theirs == [Fine EXCEPT !.embedder = "theirs"]
ConfigsOf == {Fine, Coarse, Theirs}

CreateCall(config) == [op |-> "create", config |-> config]
DropCall == [op |-> "drop"]
HealthCall == [op |-> "health"]
PutCall(d, t) == [op |-> "put", doc |-> d, text |-> t]
BatchCall(puts) == [op |-> "batch", items |-> SetToSeq(puts)]
DeleteCall(d) == [op |-> "delete", doc |-> d]

Nothing == {None}
Existing == {Fine}
Either == {None, Fine}

NoStock == [d \in Docs |-> None]

(* One client after another: every call.                                   *)
AloneMenu == [w \in Workers |->
    {CreateCall(Fine), CreateCall(Coarse), DropCall, HealthCall} \cup
    UNION {{PutCall(d, Short), PutCall(d, Long), PutCall(d, << >>), DeleteCall(d)} : d \in Docs}]

(* Two clients: both make the corpus, always with one grid; one replaces   *)
(* the documents in a batch, the other puts and deletes them, and drops    *)
(* the corpus.                                                             *)
CONSTANT Owner      \* one of the clients
SharedMenu == [w \in Workers |-> {CreateCall(Coarse)} \cup
    IF w = Owner THEN {BatchCall({PutCall(d, Short) : d \in Docs})}
    ELSE {DropCall} \cup UNION {{PutCall(d, Long), DeleteCall(d)} : d \in Docs}]

(* Two clients that do all of this and take care not to meet.              *)
PoliteMenu == [w \in Workers |-> {DropCall, CreateCall(Fine)} \cup
    UNION {{PutCall(d, Short), PutCall(d, Long), DeleteCall(d)} : d \in Docs}]

(* Two replaces of one document.                                           *)
ReplaceMenu == [w \in Workers |->
    {PutCall(d, IF w = Owner THEN Long ELSE Other) : d \in Docs}]

(* A put and a drop.                                                       *)
PutAndDropMenu == [w \in Workers |->
    IF w = Owner THEN {DropCall} ELSE {PutCall(d, Long) : d \in Docs}]

(* Two clients create the corpus, with another grid each.                  *)
CreateMenu == [w \in Workers |-> {CreateCall(IF w = Owner THEN Fine ELSE Coarse)}]

(* One client creates the corpus for another model, and puts a document.   *)
PinnedMenu == [w \in Workers |-> {CreateCall(Theirs)} \cup {PutCall(d, Short) : d \in Docs}]
=============================================================================
