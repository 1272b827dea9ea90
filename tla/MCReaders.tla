------------------------------ MODULE MCReaders ------------------------------
(* One client that writes and one that reads.  Documents are numbers, in   *)
(* the order of their points in the registry.                              *)
EXTENDS Readers

One(t) == 1

Short == <<"a">>
Long == <<"b", "c">>
TextsOf == {<< >>, Short, Long}

Fine == [sizes |-> {1, 2}, dim |-> 3, embedder |-> "ours"]
ConfigsOf == {Fine}
Existing == {Fine}

StockOf == [d \in Docs |-> IF d = 1 THEN Long ELSE None]

(* Replace or delete the document there is, add one, drop the corpus.      *)
MenuOf == [w \in Workers |->
    {[op |-> "put", doc |-> 1, text |-> Short], [op |-> "put", doc |-> 2, text |-> Short],
     [op |-> "delete", doc |-> 1], [op |-> "drop"]}]

(* Every size and few hits, all hits of one size, and only a size the      *)
(* corpus does not have.                                                   *)
AsksOf == {[op |-> "query", sizes |-> None, k |-> 2],
           [op |-> "query", sizes |-> {1}, k |-> 5],
           [op |-> "query", sizes |-> {4}, k |-> 1],
           [op |-> "list"], [op |-> "get", doc |-> 1], [op |-> "inspect"]}
=============================================================================
