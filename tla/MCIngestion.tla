---------------------------- MODULE MCIngestion ----------------------------
(***************************************************************************)
(* Uploads for Ingestion.  Chain: two batches that follow each other.      *)
(* Fork adds two under the device's next key: the second batch signed      *)
(* again, which has the same batch id and another digest, and another      *)
(* event at the first sequence (a spool restored from a copy), to whose    *)
(* chain the second batch does not link.                                   *)
(***************************************************************************)
EXTENDS Ingestion, TLC

CONSTANTS e1, e2, e3

first  == [first |-> 1, last |-> 1, previous |-> <<>>, head |-> <<e1>>,
           signer |-> 1]
second == [first |-> 2, last |-> 2, previous |-> <<e1>>, head |-> <<e1, e2>>,
           signer |-> 1]
resigned == [second EXCEPT !.signer = 2]
other  == [first EXCEPT !.head = <<e3>>, !.signer = 2]

Single == {first}
Chain == {first, second}
Fork  == {first, second, resigned, other}

Symmetry == Permutations(Requests)
=============================================================================
